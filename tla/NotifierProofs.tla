--------------------------- MODULE NotifierProofs ---------------------------
(***************************************************************************)
(* Theorems about Notifier, for any number of fingerprints, any cooldown,  *)
(* digest window and number of attempts, and for any of its bounds.        *)
(***************************************************************************)
EXTENDS Notifier, SequenceTheorems, FiniteSetTheorems, FunctionTheorems, TLAPS

USE NotifierAssumption

\* A mail that still has to be tried has an attempt left, and a worker that
\* marks has something to mark; without this, AttemptFails could count below
\* zero and MarkNext take the head of nothing.
CanGoOn(w) ==
  /\ w.phase \in {"ready", "sending", "backoff"} => w.left > 0
  /\ w.phase = "marking" => w.items # <<>>
AttemptsLeft == \A i \in DOMAIN workers : CanGoOn(workers[i])

Typed == TypeOK /\ AttemptsLeft

\* StartWorker adds one worker at the end.
LEMMA StartedWorker ==
  ASSUME workers \in Seq(Worker), NEW items \in Seq(Fingerprints),
         NEW tries \in Nat, StartWorker(items, tries)
  PROVE  /\ workers' \in Seq(Worker)
         /\ Len(workers') = Len(workers) + 1
         /\ DOMAIN workers = 1 .. Len(workers)
         /\ DOMAIN workers' = 1 .. Len(workers) + 1
         /\ workers'[Len(workers) + 1]
              = [phase |-> "ready", items |-> items, left |-> tries]
         /\ \A j \in DOMAIN workers : workers'[j] = workers[j]
<1>. DEFINE w == [phase |-> "ready", items |-> items, left |-> tries]
<1>1. w \in Worker
  BY DEF Worker
<1>2. workers' = Append(workers, w)
  BY DEF StartWorker
<1>. HIDE DEF w
<1>3. workers' \in Seq(Worker) /\ Len(workers') = Len(workers) + 1
  BY <1>1, <1>2
<1>4. /\ DOMAIN workers = 1 .. Len(workers)
      /\ DOMAIN workers' = 1 .. Len(workers) + 1
  BY <1>3, LenProperties
<1>5. workers'[Len(workers) + 1] = w
  BY <1>1, <1>2
<1>6. \A j \in DOMAIN workers : workers'[j] = workers[j]
  BY <1>1, <1>2, <1>4
<1>. QED
  BY <1>3, <1>4, <1>5, <1>6 DEF w

\* Only worker i differs.
Replaced(i) ==
  /\ workers' \in Seq(Worker)
  /\ Len(workers') = Len(workers)
  /\ DOMAIN workers' = DOMAIN workers
  /\ \A j \in DOMAIN workers : j # i => workers'[j] = workers[j]

\* Become replaces one worker.
LEMMA BecameWorker ==
  ASSUME workers \in Seq(Worker), NEW i \in DOMAIN workers,
         NEW phase \in {"ready", "sending", "backoff", "marking", "done"},
         NEW items \in Seq(Fingerprints), NEW left \in Nat,
         Become(i, phase, items, left)
  PROVE  /\ Replaced(i)
         /\ workers'[i] = [phase |-> phase, items |-> items, left |-> left]
<1>. DEFINE w == [phase |-> phase, items |-> items, left |-> left]
<1>1. w \in Worker
  BY DEF Worker
<1>2. workers' = [workers EXCEPT ![i] = w]
  BY DEF Become
<1>. HIDE DEF w
<1>3. DOMAIN workers = 1 .. Len(workers)
  BY LenProperties
<1>4. workers' \in Seq(Worker) /\ Len(workers') = Len(workers)
      /\ \A j \in 1 .. Len(workers) : workers'[j] = IF j = i THEN w ELSE workers[j]
  BY <1>1, <1>2, <1>3, ExceptSeq
<1>5. DOMAIN workers' = 1 .. Len(workers)
  BY <1>4, LenProperties
<1>. QED
  BY <1>3, <1>4, <1>5 DEF w, Replaced

\* A worker that ends is replaced by a finished one, and no other changes.
LEMMA FinishedWorker ==
  ASSUME workers \in Seq(Worker), NEW i \in DOMAIN workers,
         Become(i, "done", <<>>, 0)
  PROVE  Replaced(i) /\ workers'[i].phase = "done"
<1>1. PICK none \in Seq(Fingerprints) : none = <<>>
  BY EmptySeq
<1>2. PICK zero \in Nat : zero = 0
  OBVIOUS
<1>3. Become(i, "done", none, zero)
  BY <1>1, <1>2
<1>4. Replaced(i) /\ workers'[i] = [phase |-> "done", items |-> none, left |-> zero]
  BY <1>3, BecameWorker
<1>. QED
  BY <1>4

\* Settling a mail's notifications keeps the count of those owed well formed.
LEMMA SettledType ==
  ASSUME owed \in [Fingerprints -> Int], NEW s \in Seq(Fingerprints), Settle(s)
  PROVE  owed' \in [Fingerprints -> Int]
<1>1. ASSUME NEW f \in Fingerprints
      PROVE  Count(f, s) \in Nat
  <2>1. DOMAIN s = 1 .. Len(s) /\ Len(s) \in Nat
    BY LenProperties
  <2>2. IsFiniteSet(1 .. Len(s))
    BY <2>1, FS_Interval
  <2>3. {i \in DOMAIN s : s[i] = f} \in SUBSET (1 .. Len(s))
    BY <2>1
  <2>4. IsFiniteSet({i \in DOMAIN s : s[i] = f})
    BY <2>2, <2>3, FS_Subset
  <2>. QED
    BY <2>4, FS_CardinalityType DEF Count
<1>2. \A f \in Fingerprints : owed[f] - Count(f, s) \in Int
  BY <1>1
<1>. QED
  BY <1>2 DEF Settle

\* What a worker's step leaves alone.
LEMMA WorkerStepFrame ==
  ASSUME NEW i \in DOMAIN workers, WorkerStep(i)
  PROVE  UNCHANGED <<clock, lastSent, recent, pending, timer, fired, shutdown,
                     granted, lastMail>>
BY DEF WorkerStep, BeginAttempt, DeliverySucceeds, DeliveryFails, BackoffEnds, MarkNext

\* A worker's record, and a mail's items one by one.
LEMMA WorkerType ==
  ASSUME Typed, NEW i \in DOMAIN workers
  PROVE  /\ workers[i] \in Worker
         /\ workers[i].phase \in {"ready", "sending", "backoff"}
              => workers[i].left \in Nat \ {0}
         /\ workers[i].phase = "marking" => workers[i].items # <<>>
<1>1. DOMAIN workers = 1 .. Len(workers)
  BY LenProperties DEF Typed, TypeOK
<1>2. workers[i] \in Worker
  BY <1>1, ElementOfSeq DEF Typed, TypeOK
<1>. QED
  BY <1>2 DEF Typed, AttemptsLeft, CanGoOn, Worker

\* A failed attempt backs off with one attempt less, or gives the mail up.
LEMMA FailedWorker ==
  ASSUME Typed, NEW i \in DOMAIN workers,
         workers[i].phase \in {"ready", "sending", "backoff"}, AttemptFails(i)
  PROVE  /\ Replaced(i) /\ owed' \in [Fingerprints -> Int]
         /\ workers'[i].phase \in {"backoff", "done"}
         /\ workers'[i].phase = "backoff" => workers'[i].left > 0
<1>. DEFINE w == workers[i]
<1>1. w \in Worker /\ w.left \in Nat \ {0}
  BY WorkerType
<1>2. w.items \in Seq(Fingerprints) /\ workers \in Seq(Worker)
      /\ owed \in [Fingerprints -> Int]
  BY <1>1 DEF Worker, Typed, TypeOK
<1>3. CASE w.left = 1
  <2>1. Become(i, "done", <<>>, 0) /\ Settle(w.items)
    BY <1>3 DEF AttemptFails
  <2>2. Replaced(i) /\ workers'[i].phase = "done"
    BY <1>2, <2>1, FinishedWorker
  <2>3. owed' \in [Fingerprints -> Int]
    BY <1>2, <2>1, SettledType
  <2>. QED
    BY <2>2, <2>3
<1>4. CASE w.left # 1
  <2>1. Become(i, "backoff", w.items, w.left - 1) /\ UNCHANGED owed
    BY <1>4 DEF AttemptFails
  <2>2. w.left - 1 \in Nat /\ w.left - 1 > 0
    BY <1>1, <1>4
  <2>3. /\ Replaced(i)
        /\ workers'[i] = [phase |-> "backoff", items |-> w.items, left |-> w.left - 1]
    BY <1>2, <2>1, <2>2, BecameWorker
  <2>. QED
    BY <1>2, <2>1, <2>2, <2>3
<1>. QED
  BY <1>3, <1>4

\* The workers and the bookkeeping after one worker's step.
StepOf(i) ==
  /\ Replaced(i)
  /\ owed' \in [Fingerprints -> Int]
  /\ CanGoOn(workers'[i])

\* What beginning an attempt does: send, or fail because Close cancelled it.
LEMMA BeginAttemptEffect ==
  ASSUME Typed, NEW i \in DOMAIN workers, BeginAttempt(i)
  PROVE  StepOf(i) /\ workers'[i].phase # "marking" /\ UNCHANGED <<mailed, marked>>
<1>1. workers[i].phase = "ready" /\ UNCHANGED <<mailed, marked>>
  BY DEF BeginAttempt
<1>2. workers[i] \in Worker /\ workers[i].left \in Nat \ {0}
  BY <1>1, WorkerType
<1>3. CASE Cancelled
  <2>1. AttemptFails(i)
    BY <1>3 DEF BeginAttempt
  <2>. QED
    BY <1>1, <2>1, FailedWorker DEF StepOf, CanGoOn
<1>4. CASE ~Cancelled
  <2>1. Become(i, "sending", workers[i].items, workers[i].left) /\ UNCHANGED owed
    BY <1>4 DEF BeginAttempt
  <2>2. workers[i].items \in Seq(Fingerprints) /\ workers[i].left \in Nat
        /\ workers \in Seq(Worker) /\ owed \in [Fingerprints -> Int]
    BY <1>2 DEF Worker, Typed, TypeOK
  <2>3. /\ Replaced(i)
        /\ workers'[i] = [phase |-> "sending", items |-> workers[i].items,
                          left |-> workers[i].left]
    BY <2>1, <2>2, BecameWorker
  <2>. QED
    BY <1>1, <1>2, <2>1, <2>2, <2>3 DEF StepOf, CanGoOn
<1>. QED
  BY <1>3, <1>4

\* What an acknowledged delivery does: its groups are mailed, marking begins.
LEMMA DeliverySucceedsEffect ==
  ASSUME Typed, NEW i \in DOMAIN workers, DeliverySucceeds(i)
  PROVE  /\ StepOf(i) /\ Accept(i) /\ UNCHANGED marked
         /\ workers'[i].phase = "marking" =>
              workers'[i].items = workers[i].items /\ workers[i].items # <<>>
<1>1. workers[i].phase = "sending" /\ Accept(i) /\ UNCHANGED <<marked, owed>>
  BY DEF DeliverySucceeds
<1>2. workers[i].items \in Seq(Fingerprints) /\ workers \in Seq(Worker)
      /\ owed \in [Fingerprints -> Int]
  BY WorkerType DEF Worker, Typed, TypeOK
<1>3. CASE workers[i].items = <<>>
  <2>1. Become(i, "done", <<>>, 0)
    BY <1>3 DEF DeliverySucceeds
  <2>2. Replaced(i) /\ workers'[i].phase = "done"
    BY <1>2, <2>1, FinishedWorker
  <2>. QED
    BY <1>1, <1>2, <2>2 DEF StepOf, CanGoOn
<1>4. CASE workers[i].items # <<>>
  <2>1. Become(i, "marking", workers[i].items, 0)
    BY <1>4 DEF DeliverySucceeds
  <2>2. /\ Replaced(i)
        /\ workers'[i] = [phase |-> "marking", items |-> workers[i].items, left |-> 0]
    BY <1>2, <2>1, BecameWorker
  <2>. QED
    BY <1>1, <1>2, <1>4, <2>2 DEF StepOf, CanGoOn
<1>. QED
  BY <1>3, <1>4

\* What a failed delivery does, whether or not the server took the mail.
LEMMA DeliveryFailsEffect ==
  ASSUME Typed, NEW i \in DOMAIN workers, DeliveryFails(i)
  PROVE  /\ StepOf(i) /\ (Accept(i) \/ UNCHANGED mailed) /\ UNCHANGED marked
         /\ workers'[i].phase # "marking"
<1>1. /\ workers[i].phase = "sending" /\ AttemptFails(i)
      /\ Accept(i) \/ UNCHANGED mailed
      /\ UNCHANGED marked
  BY DEF DeliveryFails
<1>. QED
  BY <1>1, FailedWorker DEF StepOf, CanGoOn

\* What the end of a backoff does: try again, or give up when cancelled.
LEMMA BackoffEndsEffect ==
  ASSUME Typed, NEW i \in DOMAIN workers, BackoffEnds(i)
  PROVE  StepOf(i) /\ workers'[i].phase # "marking" /\ UNCHANGED <<mailed, marked>>
<1>. DEFINE w == workers[i]
<1>1. w.phase = "backoff" /\ UNCHANGED <<mailed, marked>>
  BY DEF BackoffEnds
<1>2. w \in Worker /\ w.left \in Nat \ {0}
  BY <1>1, WorkerType
<1>3. w.items \in Seq(Fingerprints) /\ w.left \in Nat /\ workers \in Seq(Worker)
      /\ owed \in [Fingerprints -> Int]
  BY <1>2 DEF Worker, Typed, TypeOK
<1>4. CASE Become(i, "ready", w.items, w.left) /\ UNCHANGED owed
  <2>1. Replaced(i) /\ workers'[i] = [phase |-> "ready", items |-> w.items, left |-> w.left]
    BY <1>3, <1>4, BecameWorker
  <2>. QED
    BY <1>1, <1>2, <1>3, <1>4, <2>1 DEF StepOf, CanGoOn
<1>5. CASE Become(i, "done", <<>>, 0) /\ Settle(w.items)
  <2>1. Replaced(i) /\ workers'[i].phase = "done"
    BY <1>3, <1>5, FinishedWorker
  <2>2. owed' \in [Fingerprints -> Int]
    BY <1>3, <1>5, SettledType
  <2>. QED
    BY <1>1, <2>1, <2>2 DEF StepOf, CanGoOn
<1>. QED
  BY <1>4, <1>5 DEF BackoffEnds

\* What one callback does: the first group left to mark is marked.
LEMMA MarkNextEffect ==
  ASSUME Typed, NEW i \in DOMAIN workers, MarkNext(i)
  PROVE  /\ StepOf(i) /\ UNCHANGED mailed
         /\ workers[i].phase = "marking" /\ workers[i].items # <<>>
         /\ workers[i].items \in Seq(Fingerprints)
         /\ marked' = marked \cup {Head(workers[i].items)}
         /\ workers'[i].phase = "marking" => workers'[i].items = Tail(workers[i].items)
<1>. DEFINE w == workers[i]
            next == Head(w.items)
<1>1. /\ w.phase = "marking" /\ UNCHANGED mailed
      /\ marked' = marked \cup {next}
      /\ Settle(<<next>>)
  BY DEF MarkNext
<1>2. /\ w.items \in Seq(Fingerprints) /\ w.items # <<>>
      /\ workers \in Seq(Worker) /\ owed \in [Fingerprints -> Int]
  BY <1>1, WorkerType DEF Worker, Typed, TypeOK
<1>3. next \in Fingerprints /\ Tail(w.items) \in Seq(Fingerprints)
      /\ Len(Tail(w.items)) = Len(w.items) - 1
  BY <1>2, HeadTailProperties
<1>4. owed' \in [Fingerprints -> Int]
  <2>1. <<next>> \in Seq(Fingerprints)
    BY <1>3
  <2>. QED
    BY <1>1, <1>2, <2>1, SettledType
<1>5. CASE Len(w.items) = 1
  <2>1. Become(i, "done", <<>>, 0)
    BY <1>5 DEF MarkNext
  <2>2. Replaced(i) /\ workers'[i].phase = "done"
    BY <1>2, <2>1, FinishedWorker
  <2>. QED
    BY <1>1, <1>2, <1>4, <2>2 DEF StepOf, CanGoOn
<1>6. CASE Len(w.items) # 1
  <2>1. Become(i, "marking", Tail(w.items), 0)
    BY <1>6 DEF MarkNext
  <2>2. /\ Replaced(i)
        /\ workers'[i] = [phase |-> "marking", items |-> Tail(w.items), left |-> 0]
    <3>1. PICK rest \in Seq(Fingerprints) : rest = Tail(w.items)
      BY <1>3
    <3>2. Become(i, "marking", rest, 0)
      BY <2>1, <3>1
    <3>3. Replaced(i) /\ workers'[i] = [phase |-> "marking", items |-> rest, left |-> 0]
      BY <1>2, <3>2, BecameWorker
    <3>. QED
      BY <3>1, <3>3
  <2>3. Tail(w.items) # <<>>
    <3>1. Len(w.items) \in Nat \ {0}
      BY <1>2, EmptySeq
    <3>2. Len(Tail(w.items)) # 0
      BY <1>3, <1>6, <3>1
    <3>3. Len(<<>>) = 0
      OBVIOUS
    <3>. QED
      BY <3>2, <3>3
  <2>4. CanGoOn(workers'[i])
    BY <2>2, <2>3 DEF CanGoOn
  <2>5. workers'[i].items = Tail(w.items)
    BY <2>2
  <2>. QED
    BY <1>1, <1>2, <1>4, <2>2, <2>4, <2>5 DEF StepOf
<1>. QED
  BY <1>5, <1>6

\* Accepting a mail adds groups to mailed and removes none.
LEMMA AcceptType ==
  ASSUME Typed, NEW i \in DOMAIN workers, Accept(i) \/ UNCHANGED mailed
  PROVE  mailed' \subseteq Fingerprints /\ mailed \subseteq mailed'
BY DEF Accept, Typed, TypeOK

\* Every step of a worker replaces that worker by a well-formed one that can go
\* on, and touches neither buffer nor timer.
LEMMA WorkerStepEffect ==
  ASSUME Typed, NEW i \in DOMAIN workers, WorkerStep(i)
  PROVE  /\ StepOf(i)
         /\ mailed' \subseteq Fingerprints /\ mailed \subseteq mailed'
         /\ marked' \subseteq Fingerprints
<1>0. marked \subseteq Fingerprints /\ mailed \subseteq Fingerprints
  BY DEF Typed, TypeOK
<1>1. CASE BeginAttempt(i)
  BY <1>0, <1>1, BeginAttemptEffect
<1>2. CASE DeliverySucceeds(i)
  <2>1. StepOf(i) /\ Accept(i) /\ UNCHANGED marked
    BY <1>2, DeliverySucceedsEffect
  <2>. QED
    BY <1>0, <2>1, AcceptType
<1>3. CASE DeliveryFails(i)
  <2>1. StepOf(i) /\ (Accept(i) \/ UNCHANGED mailed) /\ UNCHANGED marked
    BY <1>3, DeliveryFailsEffect
  <2>. QED
    BY <1>0, <2>1, AcceptType
<1>4. CASE BackoffEnds(i)
  BY <1>0, <1>4, BackoffEndsEffect
<1>5. CASE MarkNext(i)
  <2>1. /\ StepOf(i) /\ UNCHANGED mailed
        /\ workers[i].items # <<>> /\ workers[i].items \in Seq(Fingerprints)
        /\ marked' = marked \cup {Head(workers[i].items)}
    BY <1>5, MarkNextEffect
  <2>2. Head(workers[i].items) \in Fingerprints
    BY <2>1, HeadTailProperties
  <2>. QED
    BY <1>0, <2>1, <2>2
<1>. QED
  BY <1>1, <1>2, <1>3, <1>4, <1>5 DEF WorkerStep
-----------------------------------------------------------------------------
(* Types                                                                   *)

\* Starting a worker keeps the types.
LEMMA StartedTyped ==
  ASSUME Typed, NEW items \in Seq(Fingerprints), NEW tries \in Nat \ {0},
         StartWorker(items, tries)
  PROVE  workers' \in Seq(Worker) /\ AttemptsLeft'
<1>1. workers \in Seq(Worker) /\ tries \in Nat
  BY DEF Typed, TypeOK
<1>2. /\ workers' \in Seq(Worker)
      /\ DOMAIN workers = 1 .. Len(workers)
      /\ DOMAIN workers' = 1 .. Len(workers) + 1
      /\ workers'[Len(workers) + 1] = [phase |-> "ready", items |-> items, left |-> tries]
      /\ \A j \in DOMAIN workers : workers'[j] = workers[j]
  BY <1>1, StartedWorker
<1>3. CanGoOn(workers'[Len(workers) + 1])
  BY <1>2 DEF CanGoOn
<1>4. \A j \in DOMAIN workers' : j \in DOMAIN workers \/ j = Len(workers) + 1
  BY <1>1, <1>2, LenProperties
<1>. QED
  BY <1>2, <1>3, <1>4 DEF Typed, AttemptsLeft

\* Flushing the buffer keeps the types.
LEMMA FlushPendingTyped ==
  ASSUME Typed, FlushPending
  PROVE  /\ pending' = <<>> /\ timer' = Never
         /\ workers' \in Seq(Worker) /\ AttemptsLeft'
         /\ lastMail' \in Time
<1>1. CASE pending = <<>>
  BY <1>1 DEF FlushPending, Typed, TypeOK, AttemptsLeft
<1>2. CASE pending # <<>>
  <2>1. StartWorker(pending, Attempts) /\ lastMail' = clock
    BY <1>2 DEF FlushPending
  <2>2. pending \in Seq(Fingerprints) /\ clock \in Nat
    BY DEF Typed, TypeOK
  <2>3. workers' \in Seq(Worker) /\ AttemptsLeft'
    BY <2>1, <2>2, StartedTyped
  <2>. QED
    BY <2>1, <2>2, <2>3 DEF FlushPending, Time
<1>. QED
  BY <1>1, <1>2

\* The cooldown's bookkeeping keeps the types.
LEMMA LetThroughTyped ==
  ASSUME Typed, NEW f \in Fingerprints, LetThrough(f)
  PROVE  /\ lastSent' \in Time
         /\ recent' \in [Fingerprints -> Time] /\ granted' \in [Fingerprints -> Time]
         /\ owed' \in [Fingerprints -> Int]
         /\ UNCHANGED <<clock, fired, shutdown, mailed, marked>>
<1>1. clock \in Nat /\ clock \in Time /\ Never \in Time
  BY DEF Typed, TypeOK, Time
<1>2. recent' \in [Fingerprints -> Time]
  BY <1>1 DEF LetThrough, Remember, Typed, TypeOK
<1>3. granted' \in [Fingerprints -> Time]
  BY <1>1 DEF LetThrough, Typed, TypeOK
<1>4. owed' \in [Fingerprints -> Int]
  <2>1. owed \in [Fingerprints -> Int] /\ owed[f] + 1 \in Int
    BY DEF Typed, TypeOK
  <2>. QED
    BY <2>1 DEF LetThrough
<1>. QED
  BY <1>1, <1>2, <1>3, <1>4 DEF LetThrough

\* A notification in immediate mode keeps the types.
LEMMA NotifyImmediatelyTyped ==
  ASSUME Typed, NEW f \in Fingerprints, NotifyImmediately(f)
  PROVE  Typed'
<1>1. LetThrough(f) /\ StartWorker(<<f>>, Attempts) /\ lastMail' = clock
      /\ UNCHANGED <<pending, timer>>
  BY DEF NotifyImmediately
<1>2. workers' \in Seq(Worker) /\ AttemptsLeft'
  <2>1. <<f>> \in Seq(Fingerprints)
    OBVIOUS
  <2>. QED
    BY <1>1, <2>1, StartedTyped
<1>. QED
  BY <1>1, <1>2, LetThroughTyped DEF Typed, TypeOK, Time

\* A notification in digest mode keeps the types.
LEMMA NotifyDigestTyped ==
  ASSUME Typed, NEW f \in Fingerprints, NotifyDigest(f)
  PROVE  Typed'
<1>1. LetThrough(f) /\ pending' = Append(pending, f) /\ UNCHANGED <<workers, lastMail>>
      /\ timer' = IF pending = <<>> THEN clock + Window ELSE timer
  BY DEF NotifyDigest
<1>2. timer' \in Time
  <2>1. clock \in Nat /\ Window \in Nat /\ timer \in Time
    BY DEF Typed, TypeOK, Window
  <2>. QED
    BY <1>1, <2>1 DEF Time
<1>3. pending' \in Seq(Fingerprints)
  BY <1>1 DEF Typed, TypeOK
<1>4. AttemptsLeft'
  BY <1>1 DEF Typed, AttemptsLeft
<1>. QED
  BY <1>1, <1>2, <1>3, <1>4, LetThroughTyped DEF Typed, TypeOK

\* Workers keep the types.
LEMMA WorkerStepTyped ==
  ASSUME Typed, NEW i \in DOMAIN workers, WorkerStep(i)
  PROVE  Typed'
<1>1. /\ StepOf(i)
      /\ mailed' \subseteq Fingerprints /\ marked' \subseteq Fingerprints
  BY WorkerStepEffect
<1>2. AttemptsLeft'
  BY <1>1 DEF StepOf, Replaced, Typed, AttemptsLeft
<1>. QED
  BY <1>1, <1>2, WorkerStepFrame DEF StepOf, Replaced, Typed, TypeOK

\* Typed is inductive.
LEMMA NextTyped ==
  ASSUME Typed, [Next]_vars
  PROVE  Typed'
<1>. USE DEF state, history
<1>1. ASSUME NEW f \in Fingerprints, NotifyNewError(f)
      PROVE  Typed'
  BY <1>1, NotifyImmediatelyTyped, NotifyDigestTyped DEF NotifyNewError
<1>2. CASE NotifyResolved \/ SendTestEmail
  <2>1. PICK tries \in Nat \ {0} : StartWorker(<<>>, tries)
    BY <1>2 DEF NotifyResolved, SendTestEmail
  <2>2. <<>> \in Seq(Fingerprints)
    BY EmptySeq
  <2>3. workers' \in Seq(Worker) /\ AttemptsLeft'
    BY <2>1, <2>2, StartedTyped
  <2>4. UNCHANGED <<clock, lastSent, recent, pending, timer, fired, shutdown, history>>
    BY <1>2 DEF NotifyResolved, SendTestEmail
  <2>. QED
    BY <2>3, <2>4 DEF Typed, TypeOK
<1>3. CASE TimerFires
  BY <1>3 DEF TimerFires, Typed, TypeOK, AttemptsLeft
<1>4. CASE Flush
  <2>1. /\ fired' = FALSE
        /\ UNCHANGED <<clock, lastSent, recent, shutdown, mailed, marked, granted, owed>>
    BY <1>4 DEF Flush
  <2>2. CASE Closed
    BY <1>4, <2>1, <2>2 DEF Flush, Typed, TypeOK, AttemptsLeft
  <2>3. CASE ~Closed
    <3>1. FlushPending
      BY <1>4, <2>3 DEF Flush
    <3>2. <<>> \in Seq(Fingerprints) /\ Never \in Time
      BY EmptySeq DEF Time
    <3>. QED
      BY <2>1, <3>1, <3>2, FlushPendingTyped DEF Typed, TypeOK
  <2>. QED
    BY <2>2, <2>3
<1>5. ASSUME NEW i \in DOMAIN workers, WorkerStep(i)
      PROVE  Typed'
  BY <1>5, WorkerStepTyped
<1>6. CASE Close
  <2>1. /\ FlushPending /\ shutdown' = "draining"
        /\ UNCHANGED <<clock, lastSent, recent, fired, mailed, marked, granted, owed>>
    BY <1>6 DEF Close
  <2>2. <<>> \in Seq(Fingerprints) /\ Never \in Time
    BY EmptySeq DEF Time
  <2>. QED
    BY <2>1, <2>2, FlushPendingTyped DEF Typed, TypeOK
<1>7. CASE DrainTimeout \/ CloseReturns
  BY <1>7 DEF DrainTimeout, CloseReturns, Typed, TypeOK, AttemptsLeft
<1>8. CASE Tick
  BY <1>8 DEF Tick, Typed, TypeOK, AttemptsLeft
<1>9. CASE UNCHANGED vars
  BY <1>9 DEF vars, Typed, TypeOK, AttemptsLeft
<1>. QED
  BY <1>1, <1>2, <1>3, <1>4, <1>5, <1>6, <1>7, <1>8, <1>9 DEF Next

\* Types hold, and no worker is left without an attempt or a group to mark.
LEMMA AlwaysTyped == Spec => []Typed
<1>1. Init => Typed
  <2>1. <<>> \in Seq(Fingerprints) /\ <<>> \in Seq(Worker) /\ Never \in Time
    BY EmptySeq DEF Time
  <2>2. DOMAIN <<>> = {}
    OBVIOUS
  <2>3. Init => AttemptsLeft
    BY <2>2 DEF Init, AttemptsLeft
  <2>4. ASSUME Init PROVE TypeOK
    <3>1. clock \in Nat /\ lastSent \in Time /\ timer \in Time /\ lastMail \in Time
      BY <2>1, <2>4 DEF Init
    <3>2. pending \in Seq(Fingerprints) /\ workers \in Seq(Worker)
      BY <2>1, <2>4 DEF Init
    <3>3. recent \in [Fingerprints -> Time] /\ granted \in [Fingerprints -> Time]
      BY <2>1, <2>4 DEF Init
    <3>4. owed \in [Fingerprints -> Int]
      BY <2>4 DEF Init
    <3>. QED
      BY <2>4, <3>1, <3>2, <3>3, <3>4 DEF Init, TypeOK
  <2>. QED
    BY <2>3, <2>4 DEF Typed
<1>. QED
  BY <1>1, NextTyped, PTL DEF Spec

\* Every variable of the mailer keeps its type.
THEOREM NotifierTypeCorrect == Spec => []TypeOK
BY AlwaysTyped, PTL DEF Typed
-----------------------------------------------------------------------------
(* Buffer, timer and spacing                                               *)

\* TimerServesBuffer, with what holds after Close and in immediate mode.
BufferInv ==
  /\ Closed => pending = <<>> /\ timer = Never
  /\ Digest = 0 => pending = <<>>
  /\ TimerServesBuffer

\* In immediate mode lastSent is the time of the last mail; in digest mode the
\* armed deadline lies a whole window after it.
SpacingInv ==
  /\ lastMail <= clock
  /\ Digest = 0 => lastMail = lastSent
  /\ timer # Never => timer >= lastMail + Window

\* Everything a worker still has to mark was in an accepted mail.
DeliveryInv ==
  /\ MarkedWasMailed
  /\ \A i \in DOMAIN workers : workers[i].phase = "marking" =>
       \A j \in DOMAIN workers[i].items : workers[i].items[j] \in mailed

QuietInv == shutdown = "done" => AllDone

\* Notifying changes the buffer as LetThrough allows.
LEMMA BufferStep ==
  ASSUME Typed, BufferInv, [Next]_vars
  PROVE  BufferInv'
<1>. USE DEF Closed, BufferInv, TimerServesBuffer, state, history
<1>0. clock \in Nat /\ timer \in Time /\ Window \in Nat /\ pending \in Seq(Fingerprints)
      /\ fired \in BOOLEAN
  BY DEF Typed, TypeOK, Window
<1>1. ASSUME NEW f \in Fingerprints, NotifyImmediately(f)
      PROVE  BufferInv'
  BY <1>0, <1>1 DEF NotifyImmediately, LetThrough
<1>2. ASSUME NEW f \in Fingerprints, NotifyDigest(f)
      PROVE  BufferInv'
  <2>1. /\ Digest > 0 /\ shutdown = "no" /\ UNCHANGED <<clock, fired, shutdown>>
        /\ pending' = Append(pending, f)
        /\ timer' = IF pending = <<>> THEN clock + Window ELSE timer
    BY <1>2 DEF NotifyDigest, LetThrough
  <2>2. pending' # <<>>
    BY <1>0, <2>1
  <2>3. timer' # Never
    BY <1>0, <2>1 DEF Never
  <2>4. fired' => clock' >= timer'
    BY <1>0, <2>1
  <2>. QED
    BY <2>1, <2>2, <2>3, <2>4
<1>3. CASE NotifyResolved \/ SendTestEmail
  BY <1>3 DEF NotifyResolved, SendTestEmail
<1>4. CASE TimerFires
  BY <1>4 DEF TimerFires
<1>5. CASE Flush
  BY <1>0, <1>5 DEF Flush, FlushPending
<1>6. ASSUME NEW i \in DOMAIN workers, WorkerStep(i)
      PROVE  BufferInv'
  BY <1>6, WorkerStepFrame
<1>7. CASE Close
  BY <1>7 DEF Close, FlushPending
<1>8. CASE DrainTimeout \/ CloseReturns
  BY <1>8 DEF DrainTimeout, CloseReturns
<1>9. CASE Tick
  BY <1>0, <1>9 DEF Tick, Time, Never
<1>10. CASE UNCHANGED vars
  BY <1>10 DEF vars
<1>. QED
  BY <1>1, <1>2, <1>3, <1>4, <1>5, <1>6, <1>7, <1>8, <1>9, <1>10 DEF Next, NotifyNewError

\* Buffer and timer agree in every behaviour.
LEMMA BufferAlways == Spec => []BufferInv
<1>1. Init => BufferInv
  BY DEF Init, BufferInv, TimerServesBuffer, Closed, Never
<1>. QED
  BY <1>1, BufferStep, AlwaysTyped, PTL DEF Spec

\* The digest timer is armed exactly while something is buffered, and a late
\* timer goroutine meets only a batch that is due.
THEOREM TimerAlwaysServesBuffer == Spec => []TimerServesBuffer
BY BufferAlways, PTL DEF BufferInv

\* SpacingInv is inductive: the armed deadline stays a window after the last mail.
LEMMA SpacingStep ==
  ASSUME Typed, BufferInv, SpacingInv, [Next]_vars
  PROVE  SpacingInv'
<1>. USE DEF SpacingInv, state, history, Never
<1>0. clock \in Nat /\ timer \in Time /\ Window \in Nat /\ lastMail \in Time
  BY DEF Typed, TypeOK, Window
<1>1. ASSUME NEW f \in Fingerprints, NotifyImmediately(f)
      PROVE  SpacingInv'
  <2>1. /\ Digest = 0 /\ shutdown = "no" /\ lastMail' = clock /\ lastSent' = clock
        /\ UNCHANGED <<clock, timer>>
    BY <1>1 DEF NotifyImmediately, LetThrough, Closed
  <2>2. timer = Never
    BY <2>1 DEF BufferInv, TimerServesBuffer, Closed
  <2>. QED
    BY <1>0, <2>1, <2>2
<1>2. ASSUME NEW f \in Fingerprints, NotifyDigest(f)
      PROVE  SpacingInv'
  <2>1. /\ Digest > 0 /\ lastMail' = lastMail /\ clock' = clock
        /\ timer' = IF pending = <<>> THEN clock + Window ELSE timer
    BY <1>2 DEF NotifyDigest, LetThrough
  <2>. QED
    BY <1>0, <2>1 DEF Time
<1>3. CASE NotifyResolved \/ SendTestEmail
  BY <1>3 DEF NotifyResolved, SendTestEmail
<1>4. CASE TimerFires
  BY <1>4 DEF TimerFires
<1>5. CASE FlushPending /\ UNCHANGED <<clock, lastSent>>
  <2>1. CASE pending = <<>>
    BY <1>0, <1>5, <2>1 DEF FlushPending
  <2>2. CASE pending # <<>>
    <3>1. Digest # 0
      BY <2>2 DEF BufferInv
    <3>. QED
      BY <1>0, <1>5, <2>2, <3>1 DEF FlushPending
  <2>. QED
    BY <2>1, <2>2
<1>6. CASE Flush
  BY <1>5, <1>6 DEF Flush
<1>7. CASE Close
  BY <1>5, <1>7 DEF Close
<1>8. ASSUME NEW i \in DOMAIN workers, WorkerStep(i)
      PROVE  SpacingInv'
  BY <1>8, WorkerStepFrame
<1>9. CASE DrainTimeout \/ CloseReturns
  BY <1>9 DEF DrainTimeout, CloseReturns
<1>10. CASE Tick
  BY <1>0, <1>10 DEF Tick, Time
<1>11. CASE UNCHANGED vars
  BY <1>11 DEF vars
<1>. QED
  BY <1>1, <1>2, <1>3, <1>4, <1>6, <1>7, <1>8, <1>9, <1>10, <1>11 DEF Next, NotifyNewError

\* SpacingInv holds in every behaviour.
LEMMA SpacingAlways == Spec => []SpacingInv
<1>1. Init => SpacingInv
  BY DEF Init, SpacingInv, Never
<1>. QED
  BY <1>1, SpacingStep, BufferAlways, AlwaysTyped, PTL DEF Spec

\* A step that starts a mail about errors comes at least Cooldown after the
\* last one, unless it is the final flush of Close.
LEMMA SpacedStep ==
  ASSUME Typed, BufferInv, SpacingInv, Next, StartsErrorMail, shutdown' = "no",
         lastMail # Never
  PROVE  clock - lastMail >= Cooldown
<1>. USE DEF state, history
<1>0. clock \in Nat /\ timer \in Time /\ Window \in Nat /\ Cooldown <= Window
      /\ lastMail \in Time /\ workers \in Seq(Worker) /\ Len(workers) \in Nat
  BY DEF Typed, TypeOK, Window
<1>1. Len(workers') # Len(workers)
  BY <1>0 DEF StartsErrorMail
<1>2. ASSUME NEW f \in Fingerprints, NotifyImmediately(f)
      PROVE  clock - lastMail >= Cooldown
  BY <1>0, <1>2 DEF NotifyImmediately, LetThrough, Throttled, Recently, SpacingInv, Time
<1>3. ASSUME NEW f \in Fingerprints, NotifyDigest(f)
      PROVE  FALSE
  BY <1>1, <1>3 DEF NotifyDigest
<1>4. CASE NotifyResolved \/ SendTestEmail
  <2>1. PICK tries \in Nat : StartWorker(<<>>, tries)
    BY <1>4 DEF NotifyResolved, SendTestEmail
  <2>2. PICK none \in Seq(Fingerprints) : none = <<>>
    BY EmptySeq
  <2>3. StartWorker(none, tries)
    BY <2>1, <2>2
  <2>4. /\ Len(workers') = Len(workers) + 1
        /\ workers'[Len(workers) + 1] = [phase |-> "ready", items |-> none, left |-> tries]
    BY <1>0, <2>3, StartedWorker
  <2>5. workers'[Len(workers')].items = <<>>
    BY <2>2, <2>4
  <2>. QED
    BY <2>5 DEF StartsErrorMail
<1>5. CASE Flush
  <2>1. shutdown = "no" /\ fired
    BY <1>1, <1>5 DEF Flush, Closed
  <2>2. clock >= timer /\ timer # Never
    BY <2>1 DEF BufferInv, TimerServesBuffer, Closed
  <2>. QED
    BY <1>0, <2>2 DEF SpacingInv, Time
<1>6. ASSUME NEW i \in DOMAIN workers, WorkerStep(i)
      PROVE  FALSE
  BY <1>1, <1>6, WorkerStepEffect DEF StepOf, Replaced
<1>7. CASE TimerFires \/ Close \/ DrainTimeout \/ CloseReturns \/ Tick
  BY <1>1, <1>7 DEF TimerFires, Close, DrainTimeout, CloseReturns, Tick
<1>. QED
  BY <1>2, <1>3, <1>4, <1>5, <1>6, <1>7 DEF Next, NotifyNewError

\* Mails about errors start at least Cooldown apart, in both modes, for every
\* cooldown and digest window; only Close may send its final batch earlier.
THEOREM MailsAreSpaced == Spec => MailsSpaced
<1>1. Typed /\ BufferInv /\ SpacingInv /\ [Next]_vars
        => [StartsErrorMail /\ shutdown' = "no" /\ lastMail # Never
              => clock - lastMail >= Cooldown]_vars
  BY SpacedStep
<1>. QED
  BY <1>1, AlwaysTyped, BufferAlways, SpacingAlways, PTL DEF Spec, MailsSpaced
-----------------------------------------------------------------------------
(* Cooldown                                                                *)

\* Letting f through forgets nobody who still has to be held back.
LEMMA CooldownStep ==
  ASSUME Typed, CooldownRemembered, [Next]_vars
  PROVE  CooldownRemembered'
<1>. USE DEF CooldownRemembered, Recently, state, history
<1>0. clock \in Nat /\ recent \in [Fingerprints -> Time]
      /\ granted \in [Fingerprints -> Time]
  BY DEF Typed, TypeOK
<1>1. ASSUME NEW f \in Fingerprints, LetThrough(f)
      PROVE  CooldownRemembered'
  <2>1. /\ recent' = Remember(f) /\ granted' = [granted EXCEPT ![f] = clock]
        /\ clock' = clock
    BY <1>1 DEF LetThrough
  <2>2. ASSUME NEW g \in Fingerprints, g # f,
               granted'[g] # Never, clock - granted'[g] < Cooldown
        PROVE  recent'[g] = granted'[g]
    <3>1. granted'[g] = granted[g] /\ granted[g] \in Time
      BY <1>0, <2>1, <2>2
    <3>2. recent[g] = granted[g] /\ clock - recent[g] < Cooldown
      BY <2>2, <3>1
    <3>3. ~(clock - recent[g] > Cooldown)
      BY <1>0, <3>1, <3>2 DEF Time, Never
    <3>. QED
      BY <2>1, <2>2, <3>1, <3>2, <3>3 DEF Remember
  <2>3. recent'[f] = granted'[f]
    BY <1>0, <2>1 DEF Remember
  <2>. QED
    BY <2>1, <2>2, <2>3
<1>2. ASSUME NEW f \in Fingerprints, NotifyNewError(f)
      PROVE  CooldownRemembered'
  BY <1>1, <1>2 DEF NotifyNewError, NotifyImmediately, NotifyDigest
<1>3. CASE UNCHANGED <<clock, recent, granted>>
  BY <1>3
<1>4. ASSUME NEW i \in DOMAIN workers, WorkerStep(i)
      PROVE  CooldownRemembered'
  BY <1>3, <1>4, WorkerStepFrame
<1>5. CASE Tick
  <2>1. clock' = clock + 1 /\ UNCHANGED <<recent, granted>>
    BY <1>5 DEF Tick
  <2>2. ASSUME NEW g \in Fingerprints, granted'[g] # Never, clock' - granted'[g] < Cooldown
        PROVE  recent'[g] = granted'[g]
    <3>1. granted'[g] = granted[g] /\ recent'[g] = recent[g]
      BY <2>1
    <3>2. clock - granted[g] < Cooldown
      BY <1>0, <2>1, <2>2, <3>1 DEF Time, Never
    <3>. QED
      BY <2>2, <3>1, <3>2
  <2>. QED
    BY <2>1, <2>2
<1>6. CASE NotifyResolved \/ SendTestEmail \/ TimerFires \/ Flush
  BY <1>3, <1>6 DEF NotifyResolved, SendTestEmail, TimerFires, Flush
<1>7. CASE Close \/ DrainTimeout \/ CloseReturns \/ UNCHANGED vars
  BY <1>3, <1>7 DEF Close, DrainTimeout, CloseReturns, vars
<1>. QED
  BY <1>2, <1>4, <1>5, <1>6, <1>7 DEF Next

\* The pruned cooldown map still holds every fingerprint within its cooldown.
THEOREM CooldownAlwaysRemembered == Spec => []CooldownRemembered
<1>1. Init => CooldownRemembered
  BY DEF Init, CooldownRemembered, Recently
<1>. QED
  BY <1>1, CooldownStep, AlwaysTyped, PTL DEF Spec
-----------------------------------------------------------------------------
(* Delivery and Close                                                      *)

\* DeliveryInv is inductive: marking begins only after an accepted mail.
LEMMA DeliveryStep ==
  ASSUME Typed, DeliveryInv, [Next]_vars
  PROVE  DeliveryInv'
<1>. USE DEF DeliveryInv, MarkedWasMailed, state, history
<1>1. ASSUME NEW items \in Seq(Fingerprints), NEW tries \in Nat,
             StartWorker(items, tries), UNCHANGED <<mailed, marked>>
      PROVE  DeliveryInv'
  <2>1. workers \in Seq(Worker)
    BY DEF Typed, TypeOK
  <2>2. /\ DOMAIN workers = 1 .. Len(workers)
        /\ DOMAIN workers' = 1 .. Len(workers) + 1
        /\ workers'[Len(workers) + 1] = [phase |-> "ready", items |-> items, left |-> tries]
        /\ \A j \in DOMAIN workers : workers'[j] = workers[j]
    BY <1>1, <2>1, StartedWorker
  <2>3. \A j \in DOMAIN workers' : j \in DOMAIN workers \/ j = Len(workers) + 1
    BY <2>1, <2>2, LenProperties
  <2>. QED
    BY <1>1, <2>2, <2>3
<1>2. CASE UNCHANGED <<workers, mailed, marked>>
  BY <1>2
<1>3. ASSUME NEW f \in Fingerprints, NotifyNewError(f)
      PROVE  DeliveryInv'
  <2>1. CASE NotifyImmediately(f)
    <3>1. <<f>> \in Seq(Fingerprints) /\ Attempts \in Nat
      OBVIOUS
    <3>2. StartWorker(<<f>>, Attempts) /\ UNCHANGED <<mailed, marked>>
      BY <2>1 DEF NotifyImmediately, LetThrough
    <3>. QED
      BY <1>1, <3>1, <3>2
  <2>2. CASE NotifyDigest(f)
    BY <1>2, <2>2 DEF NotifyDigest, LetThrough
  <2>. QED
    BY <1>3, <2>1, <2>2 DEF NotifyNewError
<1>4. CASE NotifyResolved \/ SendTestEmail
  <2>1. PICK tries \in Nat : StartWorker(<<>>, tries)
    BY <1>4 DEF NotifyResolved, SendTestEmail
  <2>2. UNCHANGED <<mailed, marked>>
    BY <1>4 DEF NotifyResolved, SendTestEmail
  <2>3. <<>> \in Seq(Fingerprints)
    BY EmptySeq
  <2>. QED
    BY <1>1, <2>1, <2>2, <2>3
<1>5. CASE FlushPending /\ UNCHANGED <<mailed, marked>>
  <2>1. pending \in Seq(Fingerprints) /\ Attempts \in Nat
    BY DEF Typed, TypeOK
  <2>2. UNCHANGED workers \/ StartWorker(pending, Attempts)
    BY <1>5 DEF FlushPending
  <2>. QED
    BY <1>1, <1>2, <1>5, <2>1, <2>2
<1>6. CASE Flush
  BY <1>2, <1>5, <1>6 DEF Flush
<1>7. CASE Close
  BY <1>5, <1>7 DEF Close
<1>8. ASSUME NEW i \in DOMAIN workers, WorkerStep(i)
      PROVE  DeliveryInv'
  <2>0. StepOf(i) /\ mailed \subseteq mailed'
    BY <1>8, WorkerStepEffect
  <2>1. /\ DOMAIN workers' = DOMAIN workers
        /\ \A j \in DOMAIN workers : j # i => workers'[j] = workers[j]
    BY <2>0 DEF StepOf, Replaced
  <2>2. CASE marked' = marked /\ workers'[i].phase # "marking"
    BY <2>0, <2>1, <2>2
  <2>3. CASE DeliverySucceeds(i)
    <3>1. /\ Accept(i) /\ UNCHANGED marked
          /\ workers'[i].phase = "marking" => workers'[i].items = workers[i].items
      BY <2>3, DeliverySucceedsEffect
    <3>2. workers[i].items \in Seq(Fingerprints)
      BY WorkerType DEF Worker
    <3>3. \A j \in DOMAIN workers[i].items : workers[i].items[j] \in mailed'
      BY <3>1, <3>2, LenProperties, ElementOfSeq DEF Accept, Occurs
    <3>. QED
      BY <2>0, <2>1, <3>1, <3>3
  <2>4. CASE MarkNext(i)
    <3>. DEFINE s == workers[i].items
    <3>1. /\ UNCHANGED mailed /\ workers[i].phase = "marking"
          /\ s # <<>> /\ s \in Seq(Fingerprints)
          /\ marked' = marked \cup {Head(s)}
          /\ workers'[i].phase = "marking" => workers'[i].items = Tail(s)
      BY <2>4, MarkNextEffect
    <3>2. \A j \in 1 .. Len(s) : s[j] \in mailed
      BY <3>1, LenProperties
    <3>3. Len(s) \in Nat \ {0} /\ Head(s) = s[1]
      BY <3>1, EmptySeq
    <3>4. Head(s) \in mailed
      BY <3>2, <3>3
    <3>5. /\ Tail(s) \in Seq(Fingerprints) /\ Len(Tail(s)) = Len(s) - 1
          /\ \A j \in 1 .. Len(Tail(s)) : Tail(s)[j] = s[j + 1]
      BY <3>1, HeadTailProperties
    <3>6. DOMAIN Tail(s) = 1 .. Len(Tail(s))
      BY <3>5, LenProperties
    <3>7. \A j \in DOMAIN Tail(s) : Tail(s)[j] \in mailed
      BY <3>2, <3>3, <3>5, <3>6
    <3>. QED
      BY <2>1, <3>1, <3>4, <3>7
  <2>5. CASE BeginAttempt(i)
    BY <2>2, <2>5, BeginAttemptEffect
  <2>6. CASE DeliveryFails(i)
    BY <2>2, <2>6, DeliveryFailsEffect
  <2>7. CASE BackoffEnds(i)
    BY <2>2, <2>7, BackoffEndsEffect
  <2>. QED
    BY <1>8, <2>3, <2>4, <2>5, <2>6, <2>7 DEF WorkerStep
<1>9. CASE TimerFires \/ DrainTimeout \/ CloseReturns \/ Tick \/ UNCHANGED vars
  BY <1>2, <1>9 DEF TimerFires, DrainTimeout, CloseReturns, Tick, vars
<1>. QED
  BY <1>3, <1>4, <1>6, <1>7, <1>8, <1>9 DEF Next

\* A fingerprint is marked notified only after a mail naming it was accepted.
THEOREM MarkedAlwaysMailed == Spec => []MarkedWasMailed
<1>1. Init => DeliveryInv
  <2>1. DOMAIN <<>> = {}
    OBVIOUS
  <2>2. Init => DOMAIN workers = {}
    BY <2>1 DEF Init
  <2>. QED
    BY <2>2 DEF Init, DeliveryInv, MarkedWasMailed
<1>2. DeliveryInv => MarkedWasMailed
  BY DEF DeliveryInv
<1>. QED
  BY <1>1, <1>2, DeliveryStep, AlwaysTyped, PTL DEF Spec

\* Once Close has returned all workers are done, and no step revives one.
LEMMA ClosedStep ==
  ASSUME Typed, BufferInv, QuietInv, shutdown = "done", [Next]_vars
  PROVE  UNCHANGED <<workers, mailed, marked, shutdown>>
<1>. USE DEF state, history, Closed
<1>1. ASSUME NEW i \in DOMAIN workers, WorkerStep(i)
      PROVE  FALSE
  <2>1. workers[i].phase = "done"
    BY DEF QuietInv, AllDone
  <2>. QED
    BY <1>1, <2>1 DEF WorkerStep, BeginAttempt, DeliverySucceeds, DeliveryFails,
                      BackoffEnds, MarkNext
<1>2. ASSUME NEW f \in Fingerprints, NotifyNewError(f)
      PROVE  FALSE
  BY <1>2 DEF NotifyNewError, NotifyImmediately, NotifyDigest, LetThrough
<1>3. ~NotifyResolved /\ ~SendTestEmail /\ ~Close
  BY DEF NotifyResolved, SendTestEmail, Close
<1>4. CASE TimerFires \/ Flush \/ Tick \/ UNCHANGED vars
  BY <1>4 DEF TimerFires, Flush, Tick, vars
<1>5. ~DrainTimeout /\ ~CloseReturns
  BY DEF DrainTimeout, CloseReturns
<1>. QED
  BY <1>1, <1>2, <1>3, <1>4, <1>5 DEF Next

\* QuietInv is inductive: a finished Close leaves no worker that could act.
LEMMA QuietStep ==
  ASSUME Typed, BufferInv, QuietInv, [Next]_vars
  PROVE  QuietInv'
<1>. USE DEF state, history
<1>1. CASE shutdown = "done"
  BY <1>1, ClosedStep DEF QuietInv, AllDone
<1>2. CASE shutdown # "done" /\ shutdown' = "done"
  <2>1. ASSUME NEW i \in DOMAIN workers, WorkerStep(i)
        PROVE  FALSE
    BY <1>2, <2>1, WorkerStepFrame
  <2>2. ASSUME NEW f \in Fingerprints, NotifyNewError(f)
        PROVE  FALSE
    BY <1>2, <2>2 DEF NotifyNewError, NotifyImmediately, NotifyDigest, LetThrough
  <2>3. ~Close /\ ~DrainTimeout /\ ~TimerFires /\ ~Flush /\ ~Tick
        /\ ~NotifyResolved /\ ~SendTestEmail /\ ~UNCHANGED vars
    BY <1>2 DEF Close, DrainTimeout, TimerFires, Flush, Tick, NotifyResolved,
                SendTestEmail, vars
  <2>4. CloseReturns
    BY <2>1, <2>2, <2>3 DEF Next
  <2>. QED
    BY <2>4 DEF CloseReturns, QuietInv, AllDone
<1>3. CASE shutdown' # "done"
  BY <1>3 DEF QuietInv
<1>. QED
  BY <1>1, <1>2, <1>3

\* After Close has returned no mail is sent and no callback runs.
THEOREM QuietAlways == Spec => QuietAfterClose
<1>1. Init => QuietInv
  BY DEF Init, QuietInv
<1>2. Spec => []QuietInv
  BY <1>1, QuietStep, AlwaysTyped, BufferAlways, PTL DEF Spec
<1>3. Typed /\ BufferInv /\ QuietInv /\ [Next]_vars
        => [shutdown = "done" => UNCHANGED <<workers, mailed, marked>>]_vars
  BY ClosedStep
<1>. QED
  BY <1>2, <1>3, AlwaysTyped, BufferAlways, PTL DEF Spec, QuietAfterClose
-----------------------------------------------------------------------------
(* What is owed                                                            *)

\* The positions of f in a mail.
Positions(f, s) == {j \in DOMAIN s : s[j] = f}

\* The fingerprints that wait: those of the buffer at 0, of worker k at k.
Held == [k \in Nat |-> IF k = 0 THEN pending
                       ELSE IF k \in DOMAIN workers THEN workers[k].items ELSE <<>>]

\* Every place where a notification of f waits to be settled.
Places(f, held) ==
  {q \in Nat \X Nat : q[2] \in DOMAIN held[q[1]] /\ held[q[1]][q[2]] = f}

\* A mail names each group finitely often.
LEMMA CountType ==
  ASSUME NEW f, NEW s \in Seq(Fingerprints)
  PROVE  /\ IsFiniteSet(Positions(f, s))
         /\ Count(f, s) = Cardinality(Positions(f, s))
         /\ Count(f, s) \in Nat
<1>1. DOMAIN s = 1 .. Len(s) /\ Len(s) \in Nat
  BY LenProperties
<1>2. IsFiniteSet(1 .. Len(s))
  BY <1>1, FS_Interval
<1>3. Positions(f, s) \in SUBSET (1 .. Len(s))
  BY <1>1 DEF Positions
<1>4. IsFiniteSet(Positions(f, s))
  BY <1>2, <1>3, FS_Subset
<1>. QED
  BY <1>4, FS_CardinalityType DEF Count, Positions

\* The empty mail names nobody.
LEMMA CountEmpty ==
  ASSUME NEW f
  PROVE  Count(f, <<>>) = 0
<1>1. DOMAIN <<>> = {}
  OBVIOUS
<1>2. {j \in DOMAIN <<>> : <<>>[j] = f} = {}
  BY <1>1
<1>. QED
  BY <1>2, FS_EmptySet DEF Count

\* Buffering g adds one to what the buffer holds of g.
LEMMA CountAppend ==
  ASSUME NEW f, NEW s \in Seq(Fingerprints), NEW g \in Fingerprints
  PROVE  Count(f, Append(s, g)) = Count(f, s) + (IF f = g THEN 1 ELSE 0)
<1>. DEFINE n == Len(s)
            t == Append(s, g)
<1>1. n \in Nat /\ DOMAIN s = 1 .. n
  BY LenProperties
<1>2. t \in Seq(Fingerprints) /\ Len(t) = n + 1
  OBVIOUS
<1>3. DOMAIN t = 1 .. n + 1
  BY <1>2, LenProperties
<1>4. t[n + 1] = g /\ \A j \in 1 .. n : t[j] = s[j]
  BY <1>1
<1>5. n + 1 \notin Positions(f, s)
  BY <1>1 DEF Positions
<1>. HIDE DEF t
<1>6. Positions(f, t) = IF f = g THEN Positions(f, s) \cup {n + 1} ELSE Positions(f, s)
  BY <1>1, <1>3, <1>4 DEF Positions
<1>7. IsFiniteSet(Positions(f, s)) /\ Count(f, s) = Cardinality(Positions(f, s))
      /\ Count(f, s) \in Nat
  BY CountType
<1>8. Count(f, t) = Cardinality(Positions(f, t))
  BY <1>2, CountType
<1>9. CASE f = g
  <2>1. Cardinality(Positions(f, s) \cup {n + 1}) = Cardinality(Positions(f, s)) + 1
    BY <1>5, <1>7, FS_AddElement
  <2>. QED
    BY <1>6, <1>7, <1>8, <1>9, <2>1 DEF t
<1>10. CASE f # g
  BY <1>6, <1>7, <1>8, <1>10 DEF t
<1>. QED
  BY <1>9, <1>10

\* A mail of one names that one once.
LEMMA CountOne ==
  ASSUME NEW f, NEW g \in Fingerprints
  PROVE  Count(f, <<g>>) = IF f = g THEN 1 ELSE 0
<1>1. PICK none \in Seq(Fingerprints) : none = <<>>
  BY EmptySeq
<1>2. Append(none, g) = <<g>>
  BY <1>1
<1>3. Count(f, Append(none, g)) = Count(f, none) + (IF f = g THEN 1 ELSE 0)
  BY CountAppend
<1>4. Count(f, none) = 0
  BY <1>1, CountEmpty
<1>. QED
  BY <1>2, <1>3, <1>4

\* Marking the first group of a mail leaves the others to be marked.
LEMMA CountTail ==
  ASSUME NEW f, NEW s \in Seq(Fingerprints), s # <<>>
  PROVE  Count(f, s) = Count(f, Tail(s)) + (IF f = Head(s) THEN 1 ELSE 0)
<1>. DEFINE n == Len(s)
            r == Tail(s)
            later == Positions(f, s) \ {1}
            shift == [j \in Positions(f, r) |-> j + 1]
<1>1. n \in Nat \ {0} /\ DOMAIN s = 1 .. n /\ Head(s) = s[1]
  BY EmptySeq, LenProperties
<1>2. r \in Seq(Fingerprints) /\ Len(r) = n - 1 /\ \A j \in 1 .. n - 1 : r[j] = s[j + 1]
  BY HeadTailProperties
<1>3. DOMAIN r = 1 .. n - 1
  BY <1>2, LenProperties
<1>. HIDE DEF r
<1>4. shift \in Bijection(Positions(f, r), later)
  <2>1. \A j \in Positions(f, r) : j \in 1 .. n - 1 /\ s[j + 1] = f
    BY <1>2, <1>3 DEF Positions
  <2>2. \A j \in Positions(f, r) : j + 1 \in later
    BY <1>1, <2>1 DEF Positions
  <2>3. \A i \in later : i - 1 \in Positions(f, r) /\ (i - 1) + 1 = i
    BY <1>1, <1>2, <1>3 DEF Positions
  <2>4. \A i \in later : \E j \in Positions(f, r) : shift[j] = i
    <3>1. TAKE i \in later
    <3>2. i - 1 \in Positions(f, r) /\ shift[i - 1] = i
      BY <2>3
    <3>. QED
      BY <3>2
  <2>5. \A i, j \in Positions(f, r) : shift[i] = shift[j] => i = j
    BY <2>1
  <2>. QED
    BY <2>2, <2>4, <2>5, Fun_IsBij
<1>5. IsFiniteSet(Positions(f, s)) /\ Count(f, s) = Cardinality(Positions(f, s))
      /\ Count(f, s) \in Nat
  BY CountType
<1>6. IsFiniteSet(Positions(f, r)) /\ Count(f, r) = Cardinality(Positions(f, r))
      /\ Count(f, r) \in Nat
  BY <1>2, CountType
<1>7. Cardinality(later) = Cardinality(Positions(f, r))
  <2>1. ExistsBijection(Positions(f, r), later)
    BY <1>4, Fun_ExistsBij
  <2>. QED
    BY <1>6, <2>1, FS_Bijection
<1>8. Cardinality(later) = IF 1 \in Positions(f, s) THEN Cardinality(Positions(f, s)) - 1
                           ELSE Cardinality(Positions(f, s))
  BY <1>5, FS_RemoveElement
<1>9. 1 \in Positions(f, s) <=> f = Head(s)
  BY <1>1 DEF Positions
<1>. QED
  BY <1>5, <1>6, <1>7, <1>8, <1>9 DEF r

\* A mail that names f at all counts it.
LEMMA CountPositive ==
  ASSUME NEW f, NEW s \in Seq(Fingerprints)
  PROVE  Count(f, s) > 0 <=> Occurs(f, s)
<1>1. IsFiniteSet(Positions(f, s)) /\ Count(f, s) = Cardinality(Positions(f, s))
      /\ Count(f, s) \in Nat
  BY CountType
<1>2. Count(f, s) = 0 <=> Positions(f, s) = {}
  BY <1>1, FS_EmptySet
<1>. QED
  BY <1>1, <1>2 DEF Occurs, Positions

\* The places after a change of one of them.
Moved(held, k, t, after) ==
  /\ after \in [Nat -> Seq(Fingerprints)]
  /\ after[k] = t
  /\ \A j \in Nat : j # k => after[j] = held[j]

\* How many places name f then: as many more or less as the new mail does.
Counted(f, held, k, t, after) ==
  Cardinality(Places(f, after)) = Cardinality(Places(f, held)) - Count(f, held[k]) + Count(f, t)

\* One place holding other fingerprints changes the number of places of f by
\* what the two mails name of it.
LEMMA ReplacedPlaces ==
  ASSUME NEW f, NEW held \in [Nat -> Seq(Fingerprints)], NEW k \in Nat,
         NEW t \in Seq(Fingerprints), IsFiniteSet(Places(f, held)),
         NEW after, Moved(held, k, t, after)
  PROVE  /\ IsFiniteSet(Places(f, after))
         /\ Counted(f, held, k, t, after)
         /\ Count(f, held[k]) <= Cardinality(Places(f, held))
         /\ Cardinality(Places(f, held)) \in Nat
<1>. DEFINE old == {k} \X Positions(f, held[k])
            new == {k} \X Positions(f, t)
            P == Places(f, held)
<1>1. /\ after \in [Nat -> Seq(Fingerprints)] /\ held[k] \in Seq(Fingerprints)
      /\ after[k] = t /\ \A j \in Nat : j # k => after[j] = held[j]
  BY DEF Moved
<1>2. ASSUME NEW s \in Seq(Fingerprints)
      PROVE  /\ IsFiniteSet({k} \X Positions(f, s))
             /\ Cardinality({k} \X Positions(f, s)) = Count(f, s)
             /\ Count(f, s) \in Nat
  <2>1. IsFiniteSet(Positions(f, s)) /\ Count(f, s) = Cardinality(Positions(f, s))
        /\ Count(f, s) \in Nat
    BY CountType
  <2>2. IsFiniteSet({k}) /\ Cardinality({k}) = 1
    BY FS_Singleton
  <2>3. /\ IsFiniteSet({k} \X Positions(f, s))
        /\ Cardinality({k} \X Positions(f, s)) = Cardinality({k}) * Cardinality(Positions(f, s))
    BY <2>1, <2>2, FS_Product
  <2>. QED
    BY <2>1, <2>2, <2>3
<1>3. old \subseteq P
  <2>1. Positions(f, held[k]) \subseteq Nat
    <3>1. held[k] \in Seq(Fingerprints)
      BY <1>1
    <3>2. DOMAIN held[k] = 1 .. Len(held[k])
      BY <3>1, LenProperties
    <3>. QED
      BY <3>2 DEF Positions
  <2>2. ASSUME NEW q \in old PROVE q \in P
    <3>1. PICK j \in Positions(f, held[k]) : q = <<k, j>>
      OBVIOUS
    <3>2. q \in Nat \X Nat /\ q[1] = k /\ q[2] = j
      BY <2>1, <3>1
    <3>. QED
      BY <3>1, <3>2 DEF Places, Positions
  <2>. QED
    BY <2>2
<1>4. Places(f, after) = (P \ old) \cup new
  <2>1. Positions(f, t) \subseteq Nat
    <3>1. DOMAIN t = 1 .. Len(t)
      BY LenProperties
    <3>. QED
      BY <3>1 DEF Positions
  <2>2. ASSUME NEW i \in Nat, NEW j \in Nat
        PROVE  <<i, j>> \in Places(f, after) <=> <<i, j>> \in (P \ old) \cup new
    <3>1. CASE i = k
      <4>1. after[i] = t
        BY <1>1, <3>1
      <4>2. <<i, j>> \in Places(f, after) <=> j \in Positions(f, t)
        BY <4>1 DEF Places, Positions
      <4>3. <<i, j>> \in P <=> j \in Positions(f, held[k])
        BY <3>1 DEF Places, Positions
      <4>. QED
        BY <3>1, <4>2, <4>3
    <3>2. CASE i # k
      <4>1. after[i] = held[i]
        BY <1>1, <3>2
      <4>2. <<i, j>> \in Places(f, after) <=> <<i, j>> \in P
        BY <4>1 DEF Places
      <4>. QED
        BY <3>2, <4>2
    <3>. QED
      BY <3>1, <3>2
  <2>3. Places(f, after) \subseteq Nat \X Nat /\ (P \ old) \cup new \subseteq Nat \X Nat
    BY <2>1 DEF Places
  <2>. HIDE DEF old, new, P
  <2>4. ASSUME NEW q \in Nat \X Nat
        PROVE  q \in Places(f, after) <=> q \in (P \ old) \cup new
    <3>1. PICK i \in Nat, j \in Nat : q = <<i, j>>
      OBVIOUS
    <3>. QED
      BY <2>2, <3>1
  <2>. QED
    BY <2>3, <2>4
<1>5. (P \ old) \cap new = {}
  <2>1. ASSUME NEW q \in P, q \notin old, q \in new PROVE FALSE
    <3>1. PICK j \in Positions(f, t) : q = <<k, j>>
      BY <2>1
    <3>2. j \in DOMAIN held[k] /\ held[k][j] = f
      BY <3>1 DEF Places
    <3>. QED
      BY <2>1, <3>1, <3>2 DEF Positions
  <2>. QED
    BY <2>1
<1>. HIDE DEF old, new, P
<1>6. /\ IsFiniteSet(old) /\ Cardinality(old) = Count(f, held[k]) /\ Count(f, held[k]) \in Nat
      /\ IsFiniteSet(new) /\ Cardinality(new) = Count(f, t) /\ Count(f, t) \in Nat
  BY <1>1, <1>2 DEF old, new
<1>7. IsFiniteSet(P) /\ Cardinality(P) \in Nat
  BY FS_CardinalityType DEF P
<1>8. /\ IsFiniteSet(P \ old)
      /\ Cardinality(P \ old) = Cardinality(P) - Cardinality(old)
      /\ Cardinality(old) <= Cardinality(P)
  <2>1. P \cap old = old
    BY <1>3
  <2>2. Cardinality(old) <= Cardinality(P)
    BY <1>3, <1>7, FS_Subset
  <2>. QED
    BY <1>7, <2>1, <2>2, FS_Difference
<1>9. /\ IsFiniteSet((P \ old) \cup new)
      /\ Cardinality((P \ old) \cup new) = Cardinality(P \ old) + Cardinality(new)
  <2>1. Cardinality({}) = 0 /\ Cardinality(P \ old) \in Nat
    BY <1>8, FS_EmptySet, FS_CardinalityType
  <2>2. Cardinality((P \ old) \cup new)
          = Cardinality(P \ old) + Cardinality(new) - Cardinality((P \ old) \cap new)
    BY <1>6, <1>8, FS_Union
  <2>3. IsFiniteSet((P \ old) \cup new)
    BY <1>6, <1>8, FS_Union
  <2>4. Cardinality((P \ old) \cap new) = 0
    BY <1>5, <2>1
  <2>5. Cardinality(new) \in Nat
    BY <1>6
  <2>. QED
    BY <2>1, <2>2, <2>3, <2>4, <2>5
<1>. QED
  BY <1>1, <1>4, <1>6, <1>7, <1>8, <1>9 DEF P, Counted

\* The books: of each group as many notifications are owed as wait somewhere.
Balanced(books, held) ==
  \A f \in Fingerprints : IsFiniteSet(Places(f, held))
                          /\ books[f] = Cardinality(Places(f, held))

\* The ledger of the notifier: its books balance, and a finished worker waits
\* with nothing.
LedgerInv ==
  /\ Balanced(owed, Held)
  /\ \A i \in DOMAIN workers : workers[i].phase = "done" => workers[i].items = <<>>

\* The bounds of the model: on mails and on what one of them names.
RoomInv ==
  /\ Len(workers) + (IF pending = <<>> THEN 0 ELSE 1) <= MaxWorkers
  /\ Len(pending) <= MaxWorkers
  /\ \A i \in DOMAIN workers : Len(workers[i].items) <= MaxWorkers

\* Every place holds a mail, be it the empty one.
LEMMA HeldType ==
  ASSUME Typed
  PROVE  /\ Held \in [Nat -> Seq(Fingerprints)]
         /\ Held[0] = pending
         /\ DOMAIN workers = 1 .. Len(workers) /\ Len(workers) \in Nat
         /\ \A i \in DOMAIN workers : Held[i] = workers[i].items
         /\ Held[Len(workers) + 1] = <<>>
<1>1. pending \in Seq(Fingerprints) /\ <<>> \in Seq(Fingerprints)
  BY EmptySeq DEF Typed, TypeOK
<1>2. DOMAIN workers = 1 .. Len(workers) /\ Len(workers) \in Nat
  BY LenProperties DEF Typed, TypeOK
<1>3. \A i \in DOMAIN workers : workers[i].items \in Seq(Fingerprints)
  BY WorkerType DEF Worker
<1>4. /\ Held[0] = pending
      /\ \A i \in DOMAIN workers : Held[i] = workers[i].items
  BY <1>2 DEF Held
<1>5. Held[Len(workers) + 1] = <<>>
  BY <1>2 DEF Held
<1>6. Held \in [Nat -> Seq(Fingerprints)]
  BY <1>1, <1>3 DEF Held
<1>. QED
  BY <1>2, <1>4, <1>5, <1>6

\* The books after that change: each group's moves with its count.
Follows(next, books, held, k, t) ==
  \A f \in Fingerprints : next[f] = books[f] - Count(f, held[k]) + Count(f, t)

\* Books that follow a change of one place stay balanced.
LEMMA BalanceKept ==
  ASSUME NEW held \in [Nat -> Seq(Fingerprints)], NEW k \in Nat,
         NEW t \in Seq(Fingerprints), NEW books, NEW next,
         NEW after, Moved(held, k, t, after), Balanced(books, held),
         Follows(next, books, held, k, t)
  PROVE  Balanced(next, after)
<1>. SUFFICES ASSUME NEW f \in Fingerprints
              PROVE  /\ IsFiniteSet(Places(f, after))
                     /\ next[f] = Cardinality(Places(f, after))
  BY DEF Balanced
<1>1. IsFiniteSet(Places(f, held)) /\ books[f] = Cardinality(Places(f, held))
  BY DEF Balanced
<1>2. /\ IsFiniteSet(Places(f, after))
      /\ Cardinality(Places(f, after))
           = Cardinality(Places(f, held)) - Count(f, held[k]) + Count(f, t)
  <2>1. IsFiniteSet(Places(f, after))
    BY <1>1, ReplacedPlaces
  <2>2. Counted(f, held, k, t, after)
    BY <1>1, ReplacedPlaces
  <2>. QED
    BY <2>1, <2>2 DEF Counted
<1>. QED
  BY <1>1, <1>2 DEF Follows

\* The places with one more worker.
HeldWith(items) == [Held EXCEPT ![Len(workers) + 1] = items]

\* What a new worker adds to the places, while the buffer may change.
LEMMA HeldStarted ==
  ASSUME Typed, NEW items \in Seq(Fingerprints), NEW tries \in Nat,
         StartWorker(items, tries), pending' \in Seq(Fingerprints)
  PROVE  /\ Moved(Held, Len(workers) + 1, items, HeldWith(items))
         /\ Moved(HeldWith(items), 0, pending', Held')
<1>1. workers \in Seq(Worker)
  BY DEF Typed, TypeOK
<1>2. /\ DOMAIN workers = 1 .. Len(workers) /\ Len(workers) \in Nat
      /\ DOMAIN workers' = 1 .. Len(workers) + 1
      /\ workers'[Len(workers) + 1] = [phase |-> "ready", items |-> items, left |-> tries]
      /\ \A j \in DOMAIN workers : workers'[j] = workers[j]
  BY <1>1, StartedWorker, HeldType
<1>3. workers'[Len(workers) + 1].items = items
  BY <1>2
<1>4. Held' = [k \in Nat |-> IF k = 0 THEN pending'
                 ELSE IF k \in DOMAIN workers' THEN workers'[k].items ELSE <<>>]
  BY DEF Held
<1>5. ASSUME NEW k \in Nat
      PROVE  Held'[k] = IF k = 0 THEN pending' ELSE HeldWith(items)[k]
  <2>1. k \in DOMAIN workers' <=> k \in DOMAIN workers \/ k = Len(workers) + 1
    BY <1>2
  <2>2. Len(workers) + 1 # 0 /\ Len(workers) + 1 \notin DOMAIN workers
    BY <1>2
  <2>. QED
    BY <1>2, <1>3, <1>4, <2>1, <2>2 DEF Held, HeldWith
<1>6. /\ HeldWith(items) \in [Nat -> Seq(Fingerprints)]
      /\ HeldWith(items)[Len(workers) + 1] = items
      /\ \A j \in Nat : j # Len(workers) + 1 => HeldWith(items)[j] = Held[j]
  <2>1. PICK held \in [Nat -> Seq(Fingerprints)] : held = Held
    BY HeldType
  <2>2. Len(workers) \in Nat
    BY HeldType
  <2>3. PICK n \in Nat : n = Len(workers) + 1
    BY <2>2
  <2>4. HeldWith(items) = [held EXCEPT ![n] = items]
    BY <2>1, <2>3 DEF HeldWith
  <2>. QED
    BY <2>1, <2>3, <2>4
<1>7. Held' \in [Nat -> Seq(Fingerprints)]
  <2>1. \A k \in Nat : Held'[k] \in Seq(Fingerprints)
    BY <1>5, <1>6
  <2>. QED
    BY <1>4, <2>1
<1>. QED
  BY <1>5, <1>6, <1>7 DEF Moved

\* A worker's step changes its own place only.
LEMMA HeldReplaced ==
  ASSUME Typed, NEW i \in DOMAIN workers, Replaced(i), UNCHANGED pending,
         workers'[i].items \in Seq(Fingerprints)
  PROVE  Moved(Held, i, workers'[i].items, Held')
<1>1. /\ DOMAIN workers' = DOMAIN workers /\ DOMAIN workers = 1 .. Len(workers)
      /\ \A j \in DOMAIN workers : j # i => workers'[j] = workers[j]
  BY HeldType DEF Replaced
<1>2. Held' = [k \in Nat |-> IF k = 0 THEN pending'
                 ELSE IF k \in DOMAIN workers' THEN workers'[k].items ELSE <<>>]
  BY DEF Held
<1>3. i \in Nat /\ i # 0 /\ 0 \notin DOMAIN workers
  BY <1>1, HeldType
<1>4. /\ Held'[i] = workers'[i].items
      /\ \A k \in Nat : k # i => Held'[k] = Held[k]
  BY <1>1, <1>2, <1>3 DEF Held
<1>5. Held' \in [Nat -> Seq(Fingerprints)]
  <2>1. \A k \in Nat : Held'[k] \in Seq(Fingerprints)
    BY <1>4, HeldType
  <2>. QED
    BY <1>2, <2>1
<1>. QED
  BY <1>4, <1>5 DEF Moved

\* A worker's place after its step, and the books that follow it.
Settled(i) ==
  /\ workers'[i].items \in Seq(Fingerprints)
  /\ Len(workers'[i].items) <= Len(workers[i].items)
  /\ workers'[i].phase = "done" => workers'[i].items = <<>>
  /\ \A f \in Fingerprints :
       owed'[f] = owed[f] - Count(f, workers[i].items) + Count(f, workers'[i].items)

\* A worker that goes on with its mail settles nothing yet.
LEMMA SettledLater ==
  ASSUME Typed, NEW i \in DOMAIN workers, UNCHANGED owed,
         NEW phase \in {"ready", "sending", "backoff", "marking"}, NEW left \in Nat,
         Become(i, phase, workers[i].items, left)
  PROVE  Settled(i) /\ workers'[i].phase = phase /\ workers'[i].items = workers[i].items
<1>1. workers[i].items \in Seq(Fingerprints) /\ workers \in Seq(Worker)
      /\ owed \in [Fingerprints -> Int]
  BY WorkerType DEF Worker, Typed, TypeOK
<1>2. workers'[i] = [phase |-> phase, items |-> workers[i].items, left |-> left]
  BY <1>1, BecameWorker
<1>3. Len(workers[i].items) \in Nat
  BY <1>1
<1>4. \A f \in Fingerprints : Count(f, workers[i].items) \in Nat /\ owed[f] \in Int
  BY <1>1, CountType
<1>. QED
  BY <1>1, <1>2, <1>3, <1>4 DEF Settled

\* A worker that ends has an empty mail left.
LEMMA EndedWorker ==
  ASSUME Typed, NEW i \in DOMAIN workers, Become(i, "done", <<>>, 0)
  PROVE  workers'[i].items = <<>> /\ workers'[i].phase = "done"
<1>1. PICK none \in Seq(Fingerprints) : none = <<>>
  BY EmptySeq
<1>2. PICK zero \in Nat : zero = 0
  OBVIOUS
<1>3. Become(i, "done", none, zero) /\ workers \in Seq(Worker)
  BY <1>1, <1>2 DEF Typed, TypeOK
<1>4. workers'[i] = [phase |-> "done", items |-> none, left |-> zero]
  BY <1>3, BecameWorker
<1>. QED
  BY <1>1, <1>4

\* A worker that ends settles what is left of its mail.
LEMMA SettledWhole ==
  ASSUME Typed, NEW i \in DOMAIN workers, Become(i, "done", <<>>, 0),
         \A f \in Fingerprints : owed'[f] = owed[f] - Count(f, workers[i].items)
  PROVE  Settled(i)
<1>1. workers'[i].items = <<>>
  BY EndedWorker
<1>2. workers[i].items \in Seq(Fingerprints) /\ <<>> \in Seq(Fingerprints)
      /\ Len(<<>>) = 0 /\ owed \in [Fingerprints -> Int]
  BY WorkerType, EmptySeq DEF Worker, Typed, TypeOK
<1>3. Len(workers[i].items) \in Nat
  BY <1>2
<1>4. \A f \in Fingerprints : Count(f, <<>>) = 0 /\ owed'[f] \in Int
  BY <1>2, CountEmpty, CountType
<1>. QED
  BY <1>1, <1>2, <1>3, <1>4 DEF Settled

\* A failed attempt keeps the mail or settles all of it.
LEMMA AttemptSettles ==
  ASSUME Typed, NEW i \in DOMAIN workers, AttemptFails(i),
         workers[i].phase \in {"ready", "sending", "backoff"}
  PROVE  /\ Settled(i)
         /\ \A f \in Fingerprints :
              owed'[f] = owed[f] \/ owed'[f] = owed[f] - Count(f, workers[i].items)
<1>. DEFINE w == workers[i]
<1>1. w \in Worker /\ w.left \in Nat \ {0}
  BY WorkerType
<1>2. CASE w.left = 1
  <2>1. Become(i, "done", <<>>, 0) /\ Settle(w.items)
    BY <1>2 DEF AttemptFails
  <2>2. \A f \in Fingerprints : owed'[f] = owed[f] - Count(f, w.items)
    BY <2>1 DEF Settle
  <2>. QED
    BY <2>1, <2>2, SettledWhole
<1>3. CASE w.left # 1
  <2>1. Become(i, "backoff", w.items, w.left - 1) /\ UNCHANGED owed
    BY <1>3 DEF AttemptFails
  <2>2. w.left - 1 \in Nat
    BY <1>1
  <2>. QED
    BY <2>1, <2>2, SettledLater
<1>. QED
  BY <1>2, <1>3

\* Every step of a worker settles what its mail no longer names.
LEMMA WorkerSettles ==
  ASSUME Typed, NEW i \in DOMAIN workers, WorkerStep(i)
  PROVE  Settled(i)
<1>. DEFINE w == workers[i]
<1>0. /\ w \in Worker /\ w.items \in Seq(Fingerprints) /\ w.left \in Nat
      /\ owed \in [Fingerprints -> Int]
      /\ \A f \in Fingerprints : Count(f, w.items) \in Nat
  BY WorkerType, CountType DEF Worker, Typed, TypeOK
<1>1. CASE BeginAttempt(i)
  <2>1. w.phase = "ready"
    BY <1>1 DEF BeginAttempt
  <2>2. CASE Cancelled
    <3>1. AttemptFails(i)
      BY <1>1, <2>2 DEF BeginAttempt
    <3>. QED
      BY <2>1, <3>1, AttemptSettles
  <2>3. CASE ~Cancelled
    <3>1. Become(i, "sending", w.items, w.left) /\ UNCHANGED owed
      BY <1>1, <2>3 DEF BeginAttempt
    <3>. QED
      BY <1>0, <3>1, SettledLater
  <2>. QED
    BY <2>2, <2>3
<1>2. CASE DeliverySucceeds(i)
  <2>1. UNCHANGED owed
    BY <1>2 DEF DeliverySucceeds
  <2>2. CASE w.items = <<>>
    <3>1. Become(i, "done", <<>>, 0)
      BY <1>2, <2>2 DEF DeliverySucceeds
    <3>2. \A f \in Fingerprints : owed'[f] = owed[f] - Count(f, w.items)
      BY <1>0, <2>1, <2>2, CountEmpty
    <3>. QED
      BY <3>1, <3>2, SettledWhole
  <2>3. CASE w.items # <<>>
    <3>1. Become(i, "marking", w.items, 0)
      BY <1>2, <2>3 DEF DeliverySucceeds
    <3>. QED
      BY <2>1, <3>1, SettledLater
  <2>. QED
    BY <2>2, <2>3
<1>3. CASE DeliveryFails(i)
  <2>1. w.phase = "sending" /\ AttemptFails(i)
    BY <1>3 DEF DeliveryFails
  <2>. QED
    BY <2>1, AttemptSettles
<1>4. CASE BackoffEnds(i)
  <2>1. CASE Become(i, "ready", w.items, w.left) /\ UNCHANGED owed
    BY <1>0, <2>1, SettledLater
  <2>2. CASE Become(i, "done", <<>>, 0) /\ Settle(w.items)
    <3>1. \A f \in Fingerprints : owed'[f] = owed[f] - Count(f, w.items)
      BY <2>2 DEF Settle
    <3>. QED
      BY <2>2, <3>1, SettledWhole
  <2>. QED
    BY <1>4, <2>1, <2>2 DEF BackoffEnds
<1>5. CASE MarkNext(i)
  <2>1. w.phase = "marking" /\ w.items # <<>> /\ Settle(<<Head(w.items)>>)
    BY <1>5, WorkerType DEF MarkNext
  <2>2. Head(w.items) \in Fingerprints /\ Tail(w.items) \in Seq(Fingerprints)
        /\ Len(Tail(w.items)) = Len(w.items) - 1 /\ Len(w.items) \in Nat
    BY <1>0, <2>1, HeadTailProperties, LenProperties
  <2>3. \A f \in Fingerprints :
          owed'[f] = owed[f] - Count(f, w.items) + Count(f, Tail(w.items))
    <3>1. TAKE f \in Fingerprints
    <3>2. owed'[f] = owed[f] - (IF f = Head(w.items) THEN 1 ELSE 0)
      BY <2>1, <2>2, CountOne DEF Settle
    <3>3. Count(f, w.items) = Count(f, Tail(w.items)) + (IF f = Head(w.items) THEN 1 ELSE 0)
      BY <1>0, <2>1, CountTail
    <3>4. Count(f, Tail(w.items)) \in Nat /\ owed[f] \in Int
      BY <1>0, <2>2, CountType
    <3>. QED
      BY <3>2, <3>3, <3>4
  <2>4. workers'[i].items = Tail(w.items)
        /\ (workers'[i].phase = "done" => workers'[i].items = <<>>)
    <3>1. CASE Len(w.items) = 1
      <4>1. Become(i, "done", <<>>, 0)
        BY <1>5, <3>1 DEF MarkNext
      <4>2. Tail(w.items) = <<>>
        <5>1. PICK rest \in Seq(Fingerprints) : rest = Tail(w.items)
          BY <2>2
        <5>2. Len(rest) = 0
          BY <2>2, <3>1, <5>1
        <5>. QED
          BY <5>1, <5>2, EmptySeq
      <4>. QED
        BY <4>1, <4>2, EndedWorker
    <3>2. CASE Len(w.items) # 1
      <4>1. PICK rest \in Seq(Fingerprints) : rest = Tail(w.items)
        BY <2>2
      <4>2. Become(i, "marking", rest, 0) /\ workers \in Seq(Worker)
        BY <1>5, <3>2, <4>1 DEF MarkNext, Typed, TypeOK
      <4>3. workers'[i] = [phase |-> "marking", items |-> rest, left |-> 0]
        BY <4>2, BecameWorker
      <4>. QED
        BY <4>1, <4>3
    <3>. QED
      BY <3>1, <3>2
  <2>. QED
    BY <2>2, <2>3, <2>4 DEF Settled
<1>. QED
  BY <1>1, <1>2, <1>3, <1>4, <1>5 DEF WorkerStep

\* Buffering, or emptying the buffer, changes the first place only.
LEMMA HeldBuffered ==
  ASSUME Typed, UNCHANGED workers, pending' \in Seq(Fingerprints)
  PROVE  Moved(Held, 0, pending', Held')
<1>1. Held' = [k \in Nat |-> IF k = 0 THEN pending'
                 ELSE IF k \in DOMAIN workers THEN workers[k].items ELSE <<>>]
  BY DEF Held
<1>2. Held'[0] = pending' /\ \A k \in Nat : k # 0 => Held'[k] = Held[k]
  BY <1>1 DEF Held
<1>3. Held' \in [Nat -> Seq(Fingerprints)]
  <2>1. \A k \in Nat : Held'[k] \in Seq(Fingerprints)
    BY <1>2, HeldType
  <2>. QED
    BY <1>1, <2>1
<1>. QED
  BY <1>2, <1>3 DEF Moved

\* A new worker takes over fingerprints from the buffer, or brings its own.
LEMMA StartedBalance ==
  ASSUME Typed, LedgerInv, NEW items \in Seq(Fingerprints), NEW tries \in Nat,
         StartWorker(items, tries), pending' \in Seq(Fingerprints),
         \A f \in Fingerprints :
           owed'[f] = owed[f] + Count(f, items) - Count(f, pending) + Count(f, pending')
  PROVE  LedgerInv'
<1>. DEFINE mid == [f \in Fingerprints |-> owed[f] + Count(f, items)]
<1>1. /\ Moved(Held, Len(workers) + 1, items, HeldWith(items))
      /\ Moved(HeldWith(items), 0, pending', Held')
  BY HeldStarted
<1>2. /\ Held \in [Nat -> Seq(Fingerprints)] /\ Len(workers) \in Nat
      /\ Held[Len(workers) + 1] = <<>> /\ Held[0] = pending
  BY HeldType
<1>n. PICK n \in Nat : n = Len(workers) + 1 /\ n # 0
  BY <1>2
<1>3. HeldWith(items) \in [Nat -> Seq(Fingerprints)] /\ HeldWith(items)[0] = pending
  BY <1>1, <1>2, <1>n DEF Moved
<1>4. owed \in [Fingerprints -> Int] /\ pending \in Seq(Fingerprints)
  BY DEF Typed, TypeOK
<1>5. \A f \in Fingerprints : /\ Count(f, items) \in Nat /\ Count(f, <<>>) = 0
                              /\ Count(f, pending) \in Nat /\ owed[f] \in Int
                              /\ Count(f, pending') \in Nat
  BY <1>4, CountType, CountEmpty
<1>6. Follows(mid, owed, Held, n, items)
  <2>1. \A f \in Fingerprints : mid[f] = owed[f] + Count(f, items)
    OBVIOUS
  <2>2. Held[n] = <<>>
    BY <1>2, <1>n
  <2>. HIDE DEF mid
  <2>. QED
    BY <1>5, <2>1, <2>2 DEF Follows
<1>7. Follows(owed', mid, HeldWith(items), 0, pending')
  <2>1. \A f \in Fingerprints : mid[f] = owed[f] + Count(f, items)
    OBVIOUS
  <2>. HIDE DEF mid
  <2>2. ASSUME NEW f \in Fingerprints
        PROVE  owed'[f] = mid[f] - Count(f, HeldWith(items)[0]) + Count(f, pending')
    <3>1. owed'[f] = owed[f] + Count(f, items) - Count(f, pending) + Count(f, pending')
      OBVIOUS
    <3>2. HeldWith(items)[0] = pending
      BY <1>3
    <3>. QED
      BY <1>5, <2>1, <3>1, <3>2
  <2>. QED
    BY <2>2 DEF Follows
<1>. HIDE DEF mid
<1>8. Balanced(mid, HeldWith(items))
  <2>1. Moved(Held, n, items, HeldWith(items)) /\ Balanced(owed, Held)
    BY <1>1, <1>n DEF LedgerInv
  <2>. QED
    BY <1>2, <1>6, <2>1, BalanceKept
<1>9. Balanced(owed', Held')
  BY <1>1, <1>3, <1>7, <1>8, BalanceKept
<1>10. \A i \in DOMAIN workers' : workers'[i].phase = "done" => workers'[i].items = <<>>
  <2>1. /\ workers \in Seq(Worker)
        /\ DOMAIN workers = 1 .. Len(workers)
        /\ DOMAIN workers' = 1 .. Len(workers) + 1
        /\ workers'[Len(workers) + 1] = [phase |-> "ready", items |-> items, left |-> tries]
        /\ \A j \in DOMAIN workers : workers'[j] = workers[j]
    BY StartedWorker DEF Typed, TypeOK
  <2>2. \A i \in DOMAIN workers' : i \in DOMAIN workers \/ i = Len(workers) + 1
    <3>1. DOMAIN workers = 1 .. Len(workers) /\ DOMAIN workers' = 1 .. Len(workers) + 1
          /\ Len(workers) \in Nat
      BY <1>2, <2>1
    <3>. QED
      BY <3>1
  <2>. QED
    BY <2>1, <2>2 DEF LedgerInv
<1>. QED
  BY <1>9, <1>10 DEF LedgerInv, Balanced

\* An untouched ledger stays as it is.
LEMMA UntouchedLedger ==
  ASSUME LedgerInv, UNCHANGED <<pending, workers, owed>>
  PROVE  LedgerInv'
<1>1. Held' = Held
  BY DEF Held
<1>. QED
  BY <1>1 DEF LedgerInv, Balanced

\* Flushing moves the buffer into a new worker and settles nothing.
LEMMA FlushPendingBalance ==
  ASSUME Typed, LedgerInv, FlushPending, UNCHANGED owed
  PROVE  LedgerInv'
<1>1. pending' = <<>> /\ pending' \in Seq(Fingerprints)
  BY EmptySeq DEF FlushPending
<1>2. CASE pending = <<>>
  BY <1>1, <1>2, UntouchedLedger DEF FlushPending
<1>3. CASE pending # <<>>
  <2>1. StartWorker(pending, Attempts) /\ Attempts \in Nat /\ pending \in Seq(Fingerprints)
        /\ owed \in [Fingerprints -> Int]
    BY <1>3 DEF FlushPending, Typed, TypeOK
  <2>2. \A f \in Fingerprints :
          owed'[f] = owed[f] + Count(f, pending) - Count(f, pending) + Count(f, pending')
    <3>1. TAKE f \in Fingerprints
    <3>2. Count(f, pending) \in Nat /\ Count(f, pending') = 0 /\ owed[f] \in Int
      BY <1>1, <2>1, CountType, CountEmpty
    <3>. QED
      BY <3>2
  <2>. QED
    BY <1>1, <2>1, <2>2, StartedBalance
<1>. QED
  BY <1>2, <1>3

\* What is owed of a group is what waits of it, step by step.
LEMMA LedgerStep ==
  ASSUME Typed, LedgerInv, [Next]_vars
  PROVE  LedgerInv'
<1>. USE DEF state, history
<1>0. owed \in [Fingerprints -> Int] /\ pending \in Seq(Fingerprints)
  BY DEF Typed, TypeOK
<1>1. ASSUME NEW f \in Fingerprints, LetThrough(f)
      PROVE  \A g \in Fingerprints : owed'[g] = owed[g] + (IF g = f THEN 1 ELSE 0)
  BY <1>0, <1>1 DEF LetThrough
<1>2. ASSUME NEW f \in Fingerprints, NotifyImmediately(f)
      PROVE  LedgerInv'
  <2>1. LetThrough(f) /\ StartWorker(<<f>>, Attempts) /\ pending' = pending
    BY <1>2 DEF NotifyImmediately
  <2>2. <<f>> \in Seq(Fingerprints) /\ Attempts \in Nat
    OBVIOUS
  <2>3. \A g \in Fingerprints :
          owed'[g] = owed[g] + Count(g, <<f>>) - Count(g, pending) + Count(g, pending')
    <3>1. TAKE g \in Fingerprints
    <3>2. owed'[g] = owed[g] + (IF g = f THEN 1 ELSE 0)
      BY <1>1, <2>1
    <3>3. Count(g, <<f>>) = IF g = f THEN 1 ELSE 0
      BY CountOne
    <3>4. Count(g, pending) \in Nat /\ owed[g] \in Int
      BY <1>0, CountType
    <3>. QED
      BY <2>1, <3>2, <3>3, <3>4
  <2>. QED
    BY <1>0, <2>1, <2>2, <2>3, StartedBalance
<1>3. ASSUME NEW f \in Fingerprints, NotifyDigest(f)
      PROVE  LedgerInv'
  <2>1. LetThrough(f) /\ pending' = Append(pending, f) /\ workers' = workers
    BY <1>3 DEF NotifyDigest
  <2>2. Held \in [Nat -> Seq(Fingerprints)] /\ Held[0] = pending
    BY HeldType
  <2>3. pending' \in Seq(Fingerprints)
    BY <1>0, <2>1
  <2>4. Moved(Held, 0, pending', Held')
    BY <2>1, <2>3, HeldBuffered
  <2>5. Follows(owed', owed, Held, 0, pending')
    <3>. SUFFICES ASSUME NEW g \in Fingerprints
                  PROVE  owed'[g] = owed[g] - Count(g, Held[0]) + Count(g, pending')
      BY DEF Follows
    <3>2. owed'[g] = owed[g] + (IF g = f THEN 1 ELSE 0)
      BY <1>1, <2>1
    <3>3. Count(g, pending') = Count(g, pending) + (IF g = f THEN 1 ELSE 0)
      BY <1>0, <2>1, CountAppend
    <3>4. Count(g, pending) \in Nat /\ owed[g] \in Int
      BY <1>0, CountType
    <3>. QED
      BY <2>2, <3>2, <3>3, <3>4
  <2>6. Balanced(owed', Held')
    BY <2>2, <2>3, <2>4, <2>5, BalanceKept DEF LedgerInv
  <2>. QED
    BY <2>1, <2>6 DEF LedgerInv, Balanced
<1>4. CASE NotifyResolved \/ SendTestEmail
  <2>1. PICK tries \in Nat : StartWorker(<<>>, tries)
    BY <1>4 DEF NotifyResolved, SendTestEmail
  <2>2. PICK none \in Seq(Fingerprints) : none = <<>>
    BY EmptySeq
  <2>3. StartWorker(none, tries) /\ pending' = pending /\ owed' = owed
    BY <1>4, <2>1, <2>2 DEF NotifyResolved, SendTestEmail
  <2>4. \A f \in Fingerprints :
          owed'[f] = owed[f] + Count(f, none) - Count(f, pending) + Count(f, pending')
    <3>1. TAKE f \in Fingerprints
    <3>2. Count(f, none) = 0 /\ Count(f, pending) \in Nat /\ owed[f] \in Int
      BY <1>0, <2>2, CountEmpty, CountType
    <3>. QED
      BY <2>3, <3>2
  <2>. QED
    BY <1>0, <2>3, <2>4, StartedBalance
<1>5. CASE Flush
  BY <1>5, FlushPendingBalance, UntouchedLedger DEF Flush
<1>6. ASSUME NEW i \in DOMAIN workers, WorkerStep(i)
      PROVE  LedgerInv'
  <2>1. Settled(i) /\ StepOf(i) /\ pending' = pending
    BY <1>6, WorkerSettles, WorkerStepEffect, WorkerStepFrame
  <2>2. Replaced(i) /\ workers'[i].items \in Seq(Fingerprints)
    BY <2>1 DEF StepOf, Settled
  <2>3. Held \in [Nat -> Seq(Fingerprints)] /\ i \in Nat /\ Held[i] = workers[i].items
    BY HeldType
  <2>4. Moved(Held, i, workers'[i].items, Held')
    BY <2>1, <2>2, HeldReplaced
  <2>5. Follows(owed', owed, Held, i, workers'[i].items)
    BY <2>1, <2>3 DEF Settled, Follows
  <2>6. Balanced(owed', Held')
    BY <2>2, <2>3, <2>4, <2>5, BalanceKept DEF LedgerInv
  <2>7. \A j \in DOMAIN workers' : workers'[j].phase = "done" => workers'[j].items = <<>>
    BY <2>1, <2>2 DEF Replaced, Settled, LedgerInv
  <2>. QED
    BY <2>6, <2>7 DEF LedgerInv, Balanced
<1>7. CASE Close
  BY <1>7, FlushPendingBalance DEF Close
<1>8. CASE TimerFires \/ DrainTimeout \/ CloseReturns \/ Tick \/ UNCHANGED vars
  BY <1>8, UntouchedLedger DEF TimerFires, DrainTimeout, CloseReturns, Tick, vars
<1>. QED
  BY <1>2, <1>3, <1>4, <1>5, <1>6, <1>7, <1>8 DEF Next, NotifyNewError

\* The books balance in every behaviour.
LEMMA LedgerAlways == Spec => []LedgerInv
<1>1. ASSUME Init PROVE LedgerInv
  <2>1. DOMAIN <<>> = {}
    OBVIOUS
  <2>2. pending = <<>> /\ workers = <<>> /\ owed = [f \in Fingerprints |-> 0]
    BY <1>1 DEF Init
  <2>3. DOMAIN workers = {} /\ \A k \in Nat : Held[k] = <<>>
    BY <2>1, <2>2 DEF Held
  <2>4. \A f \in Fingerprints : Places(f, Held) = {}
    BY <2>1, <2>3 DEF Places
  <2>5. Balanced(owed, Held)
    BY <2>2, <2>4, FS_EmptySet DEF Balanced
  <2>. QED
    BY <2>3, <2>5 DEF LedgerInv
<1>. QED
  BY <1>1, LedgerStep, AlwaysTyped, PTL DEF Spec

\* When all workers of a closed mailer are done nothing is owed any more.
LEMMA DoneOwesNothing ==
  ASSUME Typed, BufferInv, LedgerInv, Closed, AllDone
  PROVE  pending = <<>> /\ \A f \in Fingerprints : owed[f] = 0
<1>1. pending = <<>>
  BY DEF BufferInv
<1>2. \A i \in DOMAIN workers : workers[i].items = <<>>
  BY DEF AllDone, LedgerInv
<1>3. \A k \in Nat : Held[k] = <<>>
  BY <1>1, <1>2 DEF Held
<1>4. DOMAIN <<>> = {}
  OBVIOUS
<1>5. \A f \in Fingerprints : Places(f, Held) = {}
  BY <1>3, <1>4 DEF Places
<1>. QED
  BY <1>1, <1>5, FS_EmptySet DEF LedgerInv, Balanced

\* A closed mailer has settled every notification it let through: none waits in
\* the buffer, none was dropped between the buffer and a worker.
THEOREM ClosedOwesNothing == Spec => []NothingOwedAfterClose
<1>1. Init => QuietInv
  BY DEF Init, QuietInv
<1>2. Spec => []QuietInv
  BY <1>1, QuietStep, AlwaysTyped, BufferAlways, PTL DEF Spec
<1>3. Typed /\ BufferInv /\ LedgerInv /\ QuietInv => NothingOwedAfterClose
  BY DoneOwesNothing DEF NothingOwedAfterClose, QuietInv, Closed
<1>. QED
  BY <1>2, <1>3, AlwaysTyped, BufferAlways, LedgerAlways, PTL
-----------------------------------------------------------------------------
(* The bounds, and the refinement of Mailer                                *)

\* A new worker fits, and so does its mail.
LEMMA StartedRoom ==
  ASSUME Typed, RoomInv, NEW items \in Seq(Fingerprints), NEW tries \in Nat,
         StartWorker(items, tries), Len(items) <= MaxWorkers,
         pending' \in Seq(Fingerprints), Len(pending') <= MaxWorkers,
         Len(workers) + 1 + (IF pending' = <<>> THEN 0 ELSE 1) <= MaxWorkers
  PROVE  RoomInv'
<1>1. workers \in Seq(Worker)
  BY DEF Typed, TypeOK
<1>2. /\ Len(workers') = Len(workers) + 1
      /\ DOMAIN workers' = 1 .. Len(workers) + 1
      /\ workers'[Len(workers) + 1] = [phase |-> "ready", items |-> items, left |-> tries]
      /\ \A j \in DOMAIN workers : workers'[j] = workers[j]
  BY <1>1, StartedWorker
<1>3. DOMAIN workers = 1 .. Len(workers) /\ Len(workers) \in Nat
  BY HeldType
<1>4. \A j \in DOMAIN workers' : j \in DOMAIN workers \/ j = Len(workers) + 1
  <2>1. DOMAIN workers' = 1 .. Len(workers) + 1
    BY <1>2
  <2>. QED
    BY <1>3, <2>1
<1>5. workers'[Len(workers) + 1].items = items
  BY <1>2
<1>6. \A j \in DOMAIN workers' : Len(workers'[j].items) <= MaxWorkers
  BY <1>2, <1>4, <1>5 DEF RoomInv
<1>7. Len(workers') = Len(workers) + 1
  BY <1>2
<1>. QED
  BY <1>6, <1>7 DEF RoomInv

\* The bounds hold: no more mails than MaxWorkers, counting the buffer.
LEMMA RoomStep ==
  ASSUME Typed, RoomInv, [Next]_vars
  PROVE  RoomInv'
<1>. USE DEF state, history
<1>0. /\ pending \in Seq(Fingerprints) /\ Len(pending) \in Nat
      /\ DOMAIN workers = 1 .. Len(workers) /\ Len(workers) \in Nat
      /\ \A i \in DOMAIN workers : Len(workers[i].items) \in Nat
  <2>1. pending \in Seq(Fingerprints) /\ Len(pending) \in Nat
    BY DEF Typed, TypeOK
  <2>2. \A i \in DOMAIN workers : workers[i].items \in Seq(Fingerprints)
    BY WorkerType DEF Worker
  <2>3. \A i \in DOMAIN workers : Len(workers[i].items) \in Nat
    BY <2>2, LenProperties
  <2>4. DOMAIN workers = 1 .. Len(workers) /\ Len(workers) \in Nat
    BY HeldType
  <2>. QED
    BY <2>1, <2>3, <2>4
<1>1. CASE UNCHANGED <<workers, pending>>
  BY <1>1 DEF RoomInv
<1>2. ASSUME NEW f \in Fingerprints, NotifyImmediately(f)
      PROVE  RoomInv'
  <2>1. StartWorker(<<f>>, Attempts) /\ pending' = pending /\ Room
    BY <1>2 DEF NotifyImmediately
  <2>2. <<f>> \in Seq(Fingerprints) /\ Len(<<f>>) = 1 /\ Attempts \in Nat
    OBVIOUS
  <2>3. Len(workers) + 1 + (IF pending = <<>> THEN 0 ELSE 1) <= MaxWorkers
        /\ 1 <= MaxWorkers
    BY <1>0, <2>1 DEF Room
  <2>4. Len(pending) <= MaxWorkers
    BY DEF RoomInv
  <2>. QED
    BY <1>0, <2>1, <2>2, <2>3, <2>4, StartedRoom
<1>3. ASSUME NEW f \in Fingerprints, NotifyDigest(f)
      PROVE  RoomInv'
  <2>1. pending' = Append(pending, f) /\ workers' = workers
        /\ IF pending = <<>> THEN Room ELSE Len(pending) < MaxWorkers
    BY <1>3 DEF NotifyDigest
  <2>2. Len(pending') = Len(pending) + 1
    BY <1>0, <2>1
  <2>3. CASE pending = <<>>
    <3>1. Len(pending) = 0
      BY <2>3, EmptySeq
    <3>2. Len(workers) + 1 <= MaxWorkers
      BY <1>0, <2>1, <2>3 DEF Room
    <3>. QED
      BY <1>0, <2>1, <2>2, <3>1, <3>2 DEF RoomInv
  <2>4. CASE pending # <<>>
    BY <1>0, <2>1, <2>2, <2>4 DEF RoomInv
  <2>. QED
    BY <2>3, <2>4
<1>4. CASE NotifyResolved \/ SendTestEmail
  <2>1. PICK tries \in Nat : StartWorker(<<>>, tries)
    BY <1>4 DEF NotifyResolved, SendTestEmail
  <2>2. PICK none \in Seq(Fingerprints) : none = <<>>
    BY EmptySeq
  <2>3. StartWorker(none, tries) /\ pending' = pending /\ Room
    BY <1>4, <2>1, <2>2 DEF NotifyResolved, SendTestEmail
  <2>4. Len(none) = 0 /\ Len(pending) <= MaxWorkers
    BY <2>2, EmptySeq DEF RoomInv
  <2>5. Len(workers) + 1 + (IF pending = <<>> THEN 0 ELSE 1) <= MaxWorkers
    BY <1>0, <2>3 DEF Room
  <2>6. Len(none) <= MaxWorkers
    BY <2>4
  <2>. QED
    BY <1>0, <2>3, <2>4, <2>5, <2>6, StartedRoom
<1>5. CASE FlushPending
  <2>1. pending' = <<>> /\ pending' \in Seq(Fingerprints) /\ Len(pending') = 0
    BY <1>5, EmptySeq DEF FlushPending
  <2>2. CASE pending = <<>>
    BY <1>1, <1>5, <2>1, <2>2 DEF FlushPending
  <2>3. CASE pending # <<>>
    <3>1. StartWorker(pending, Attempts) /\ Attempts \in Nat
      BY <1>5, <2>3 DEF FlushPending
    <3>2. Len(workers) + 1 <= MaxWorkers /\ Len(pending) <= MaxWorkers
      BY <2>3 DEF RoomInv
    <3>3. Len(workers) + 1 + (IF pending' = <<>> THEN 0 ELSE 1) <= MaxWorkers
      BY <1>0, <2>1, <3>2
    <3>4. Len(pending') <= MaxWorkers
      BY <2>1
    <3>. QED
      BY <1>0, <2>1, <3>1, <3>2, <3>3, <3>4, StartedRoom
  <2>. QED
    BY <2>2, <2>3
<1>6. CASE Flush
  BY <1>1, <1>5, <1>6 DEF Flush
<1>7. ASSUME NEW i \in DOMAIN workers, WorkerStep(i)
      PROVE  RoomInv'
  <2>1. Settled(i) /\ StepOf(i) /\ pending' = pending
    BY <1>7, WorkerSettles, WorkerStepEffect, WorkerStepFrame
  <2>2. /\ Len(workers') = Len(workers) /\ DOMAIN workers' = DOMAIN workers
        /\ \A j \in DOMAIN workers : j # i => workers'[j] = workers[j]
    BY <2>1 DEF StepOf, Replaced
  <2>3. Len(workers'[i].items) <= MaxWorkers
    <3>1. Len(workers'[i].items) \in Nat /\ Len(workers'[i].items) <= Len(workers[i].items)
      BY <2>1 DEF Settled
    <3>. QED
      BY <1>0, <3>1 DEF RoomInv
  <2>. QED
    BY <2>1, <2>2, <2>3 DEF RoomInv
<1>8. CASE Close
  BY <1>5, <1>8 DEF Close
<1>9. CASE TimerFires \/ DrainTimeout \/ CloseReturns \/ Tick \/ UNCHANGED vars
  BY <1>1, <1>9 DEF TimerFires, DrainTimeout, CloseReturns, Tick, vars
<1>. QED
  BY <1>2, <1>3, <1>4, <1>6, <1>7, <1>8, <1>9 DEF Next, NotifyNewError

\* The bounds hold in every behaviour.
LEMMA RoomAlways == Spec => []RoomInv
<1>1. ASSUME Init PROVE RoomInv
  <2>1. pending = <<>> /\ workers = <<>> /\ DOMAIN <<>> = {} /\ Len(<<>>) = 0
    BY <1>1 DEF Init
  <2>2. Len(pending) = 0 /\ Len(workers) = 0 /\ DOMAIN workers = {}
    BY <2>1
  <2>. QED
    BY <2>1, <2>2 DEF RoomInv
<1>. QED
  BY <1>1, RoomStep, AlwaysTyped, PTL DEF Spec

\* What waits in one place is owed.
LEMMA HeldIsOwed ==
  ASSUME Typed, LedgerInv, NEW k \in Nat, NEW f \in Fingerprints
  PROVE  Count(f, Held[k]) \in Nat /\ Count(f, Held[k]) <= owed[f]
<1>1. PICK held \in [Nat -> Seq(Fingerprints)] : held = Held
  BY HeldType
<1>2. held[k] \in Seq(Fingerprints) /\ Moved(held, k, held[k], held)
  BY DEF Moved
<1>3. IsFiniteSet(Places(f, held)) /\ owed[f] = Cardinality(Places(f, held))
  BY <1>1 DEF LedgerInv, Balanced
<1>4. Count(f, held[k]) <= Cardinality(Places(f, held))
  BY <1>2, <1>3, ReplacedPlaces
<1>5. Count(f, held[k]) \in Nat
  BY <1>2, CountType
<1>. QED
  BY <1>1, <1>3, <1>4, <1>5

\* No more is owed than the bounds let wait.
MaxOwed == MaxWorkers * (MaxWorkers + 1)
OwedInv == owed \in [Fingerprints -> 0 .. MaxOwed]

\* No more is owed of a group than there is room for in the bounded model.
LEMMA OwedBound ==
  ASSUME Typed, LedgerInv, RoomInv
  PROVE  OwedInv
<1>. DEFINE box == (0 .. MaxWorkers) \X (1 .. MaxWorkers)
<1>1. IsFiniteSet(box) /\ Cardinality(box) = MaxOwed
  <2>1. IsFiniteSet(0 .. MaxWorkers) /\ Cardinality(0 .. MaxWorkers) = MaxWorkers + 1
    BY FS_Interval
  <2>2. IsFiniteSet(1 .. MaxWorkers) /\ Cardinality(1 .. MaxWorkers) = MaxWorkers
    BY FS_Interval
  <2>3. IsFiniteSet(box)
        /\ Cardinality(box) = Cardinality(0 .. MaxWorkers) * Cardinality(1 .. MaxWorkers)
    BY <2>1, <2>2, FS_Product
  <2>4. (MaxWorkers + 1) * MaxWorkers = MaxWorkers * (MaxWorkers + 1)
    OBVIOUS
  <2>. QED
    BY <2>1, <2>2, <2>3, <2>4 DEF MaxOwed
<1>2. ASSUME NEW f \in Fingerprints
      PROVE  owed[f] \in 0 .. MaxOwed
  <2>1. IsFiniteSet(Places(f, Held)) /\ owed[f] = Cardinality(Places(f, Held))
    BY DEF LedgerInv, Balanced
  <2>2. ASSUME NEW i \in Nat, NEW j \in Nat, j \in DOMAIN Held[i]
        PROVE  i \in 0 .. MaxWorkers /\ j \in 1 .. MaxWorkers
    <3>1. Held[i] \in Seq(Fingerprints)
      BY HeldType
    <3>2. j \in 1 .. Len(Held[i]) /\ Len(Held[i]) \in Nat
      BY <2>2, <3>1, LenProperties
    <3>3. Len(workers) \in Nat /\ DOMAIN workers = 1 .. Len(workers) /\ Len(workers) <= MaxWorkers
      BY HeldType DEF RoomInv
    <3>4. Held[i] # <<>>
      BY <3>1, <3>2, EmptySeq
    <3>5. i = 0 \/ i \in DOMAIN workers
      BY <3>4 DEF Held
    <3>6. Len(Held[i]) <= MaxWorkers
      BY <3>5, HeldType DEF RoomInv
    <3>. QED
      BY <3>2, <3>3, <3>5, <3>6
  <2>3. Places(f, Held) \in SUBSET box
    <3>1. ASSUME NEW q \in Places(f, Held) PROVE q \in box
      <4>1. PICK i \in Nat, j \in Nat : q = <<i, j>>
        BY DEF Places
      <4>2. j \in DOMAIN Held[i]
        BY <4>1 DEF Places
      <4>. QED
        BY <2>2, <4>1, <4>2
    <3>. QED
      BY <3>1
  <2>. HIDE DEF box
  <2>4. Cardinality(Places(f, Held)) <= Cardinality(box)
    BY <1>1, <2>3, FS_Subset
  <2>5. Cardinality(Places(f, Held)) \in Nat /\ MaxOwed \in Nat
    BY <2>1, FS_CardinalityType DEF MaxOwed
  <2>. QED
    BY <1>1, <2>1, <2>4, <2>5
<1>. QED
  BY <1>2 DEF Typed, TypeOK, OwedInv

\* What an attempt at a mail does to the books is an attempt of the Mailer.
LEMMA AttemptMapped ==
  ASSUME Typed, LedgerInv, OwedInv',
         NEW i \in DOMAIN workers, Accept(i) \/ UNCHANGED mailed,
         UNCHANGED <<marked, shutdown>>,
         \A f \in Fingerprints :
           owed'[f] = owed[f] \/ owed'[f] = owed[f] - Count(f, workers[i].items)
  PROVE  M!Next
<1>. DEFINE S == {f \in Fingerprints : Occurs(f, workers[i].items)}
<1>1. workers[i].items \in Seq(Fingerprints) /\ owed \in [Fingerprints -> Int]
  BY WorkerType DEF Worker, Typed, TypeOK
<1>2. i \in Nat /\ Held[i] = workers[i].items
  BY HeldType
<1>3. \A f \in Fingerprints : /\ Count(f, workers[i].items) \in Nat
                              /\ Count(f, workers[i].items) <= owed[f]
                              /\ Count(f, workers[i].items) > 0 <=> f \in S
  BY <1>1, <1>2, HeldIsOwed, CountPositive
<1>4. \A f \in S : owed[f] > 0
  BY <1>1, <1>3
<1>5. mailed' \in {mailed, mailed \cup S}
  BY DEF Accept
<1>. HIDE DEF S
<1>6. \A f \in Fingerprints :
        IF f \in S THEN owed'[f] <= owed[f] ELSE owed'[f] = owed[f]
  BY <1>1, <1>3
<1>7. S \in SUBSET Fingerprints
  BY DEF S
<1>8. M!Attempt(S)
  BY <1>4, <1>5, <1>6 DEF M!Attempt, OwedInv, MaxOwed
<1>. QED
  BY <1>7, <1>8 DEF M!Next

\* A callback marks one group of an accepted mail and settles it once.
LEMMA MarkMapped ==
  ASSUME Typed, LedgerInv, DeliveryInv, NEW i \in DOMAIN workers, MarkNext(i)
  PROVE  M!Next
<1>. DEFINE s == workers[i].items
            f == Head(s)
<1>1. /\ workers[i].phase = "marking" /\ s # <<>> /\ s \in Seq(Fingerprints)
      /\ marked' = marked \cup {f} /\ UNCHANGED mailed
  BY MarkNextEffect
<1>2. Settle(<<f>>) /\ UNCHANGED shutdown
  BY DEF MarkNext
<1>3. f \in Fingerprints /\ Len(s) \in Nat \ {0} /\ DOMAIN s = 1 .. Len(s) /\ f = s[1]
  BY <1>1, HeadTailProperties, EmptySeq, LenProperties
<1>4. f \in mailed /\ Occurs(f, s)
  BY <1>1, <1>3 DEF DeliveryInv, Occurs
<1>5. owed[f] > 0
  <2>1. i \in Nat /\ Held[i] = s
    BY HeldType
  <2>2. Count(f, s) > 0
    BY <1>1, <1>4, CountPositive
  <2>3. Count(f, s) \in Nat /\ Count(f, s) <= owed[f]
    BY <1>3, <2>1, HeldIsOwed
  <2>4. owed[f] \in Int
    BY <1>3 DEF Typed, TypeOK
  <2>. HIDE DEF f, s
  <2>. QED
    BY <2>2, <2>3, <2>4
<1>. HIDE DEF f, s
<1>6. owed' = [owed EXCEPT ![f] = @ - 1]
  <2>1. owed \in [Fingerprints -> Int]
    BY DEF Typed, TypeOK
  <2>2. owed' = [g \in Fingerprints |-> owed[g] - Count(g, <<f>>)]
    BY <1>2 DEF Settle
  <2>3. \A g \in Fingerprints : Count(g, <<f>>) = IF g = f THEN 1 ELSE 0
    BY <1>3, CountOne
  <2>4. \A g \in Fingerprints : owed'[g] = IF g = f THEN owed[g] - 1 ELSE owed[g]
    BY <2>1, <2>2, <2>3
  <2>. QED
    BY <1>3, <2>1, <2>2, <2>4
<1>7. M!Mark(f)
  BY <1>1, <1>2, <1>4, <1>5, <1>6 DEF M!Mark
<1>. QED
  BY <1>3, <1>7 DEF M!Next

\* Every step of a worker is an attempt, a mark or nothing for the Mailer.
LEMMA WorkerMapped ==
  ASSUME Typed, LedgerInv, DeliveryInv, OwedInv',
         NEW i \in DOMAIN workers, WorkerStep(i)
  PROVE  M!Next \/ UNCHANGED M!vars
<1>0. UNCHANGED shutdown
  BY WorkerStepFrame
<1>1. CASE BeginAttempt(i)
  <2>1. workers[i].phase = "ready" /\ UNCHANGED <<mailed, marked>>
    BY <1>1 DEF BeginAttempt
  <2>2. CASE Cancelled
    <3>1. AttemptFails(i)
      BY <1>1, <2>2 DEF BeginAttempt
    <3>. QED
      BY <1>0, <2>1, <3>1, AttemptSettles, AttemptMapped
  <2>3. CASE ~Cancelled
    <3>1. UNCHANGED owed
      BY <1>1, <2>3 DEF BeginAttempt
    <3>. QED
      BY <1>0, <2>1, <3>1 DEF M!vars
  <2>. QED
    BY <2>2, <2>3
<1>2. CASE DeliverySucceeds(i)
  <2>1. UNCHANGED <<owed, marked>> /\ Accept(i)
    BY <1>2 DEF DeliverySucceeds
  <2>. QED
    BY <1>0, <2>1, AttemptMapped
<1>3. CASE DeliveryFails(i)
  <2>1. /\ workers[i].phase = "sending" /\ AttemptFails(i) /\ UNCHANGED marked
        /\ Accept(i) \/ UNCHANGED mailed
    BY <1>3 DEF DeliveryFails
  <2>. QED
    BY <1>0, <2>1, AttemptSettles, AttemptMapped
<1>4. CASE BackoffEnds(i)
  <2>1. UNCHANGED <<mailed, marked>>
    BY <1>4 DEF BackoffEnds
  <2>2. CASE UNCHANGED owed
    BY <1>0, <2>1, <2>2 DEF M!vars
  <2>3. CASE Settle(workers[i].items)
    <3>1. \A f \in Fingerprints : owed'[f] = owed[f] - Count(f, workers[i].items)
      BY <2>3 DEF Settle
    <3>. QED
      BY <1>0, <2>1, <3>1, AttemptMapped
  <2>. QED
    BY <1>4, <2>2, <2>3 DEF BackoffEnds
<1>5. CASE MarkNext(i)
  BY <1>5, MarkMapped
<1>. QED
  BY <1>1, <1>2, <1>3, <1>4, <1>5 DEF WorkerStep

\* Every step of the notifier is a step of the Mailer or leaves it alone.
LEMMA StepMapped ==
  ASSUME Typed, BufferInv, LedgerInv, DeliveryInv, OwedInv, OwedInv', [Next]_vars
  PROVE  [M!Next]_(M!vars)
<1>. USE DEF state, history
<1>0. owed' \in [Fingerprints -> 0 .. MaxOwed] /\ owed \in [Fingerprints -> 0 .. MaxOwed]
      /\ owed \in [Fingerprints -> Int] /\ MaxOwed \in Nat
  BY DEF Typed, TypeOK, OwedInv, MaxOwed
<1>1. ASSUME NEW f \in Fingerprints, NotifyNewError(f)
      PROVE  M!Next
  <2>1. LetThrough(f)
    BY <1>1 DEF NotifyNewError, NotifyImmediately, NotifyDigest
  <2>2. /\ shutdown = "no" /\ owed' = [owed EXCEPT ![f] = @ + 1]
        /\ UNCHANGED <<mailed, marked, shutdown>>
    BY <2>1 DEF LetThrough, Closed
  <2>3. owed[f] < MaxOwed
    <3>1. owed'[f] = owed[f] + 1 /\ owed'[f] \in 0 .. MaxOwed
      BY <1>0, <2>2
    <3>. QED
      BY <1>0, <3>1
  <2>4. M!LetThrough(f)
    BY <2>2, <2>3 DEF M!LetThrough, MaxOwed
  <2>. QED
    BY <2>4 DEF M!Next
<1>2. ASSUME NEW i \in DOMAIN workers, WorkerStep(i)
      PROVE  M!Next \/ UNCHANGED M!vars
  BY <1>0, <1>2, WorkerMapped
<1>3. CASE Close
  <2>1. shutdown = "no" /\ shutdown' = "draining" /\ UNCHANGED <<owed, mailed, marked>>
    BY <1>3 DEF Close, Closed
  <2>2. M!Close
    BY <2>1 DEF M!Close
  <2>. QED
    BY <2>2 DEF M!Next
<1>4. CASE CloseReturns
  <2>1. shutdown \in {"draining", "cancelled"} /\ AllDone /\ shutdown' = "done"
        /\ UNCHANGED <<owed, mailed, marked>>
    BY <1>4 DEF CloseReturns
  <2>2. \A f \in Fingerprints : owed[f] = 0
    BY <2>1, DoneOwesNothing DEF Closed
  <2>3. M!CloseReturns
    BY <2>1, <2>2 DEF M!CloseReturns
  <2>. QED
    BY <2>3 DEF M!Next
<1>5. CASE DrainTimeout
  BY <1>5 DEF DrainTimeout, M!vars
<1>6. CASE NotifyResolved \/ SendTestEmail \/ TimerFires \/ Flush \/ Tick
  BY <1>6 DEF NotifyResolved, SendTestEmail, TimerFires, Flush, Tick, M!vars
<1>7. CASE UNCHANGED vars
  BY <1>7 DEF vars, M!vars
<1>. QED
  BY <1>1, <1>2, <1>3, <1>4, <1>5, <1>6, <1>7 DEF Next

\* The notifier, with its timers, buffer, goroutines and shutdown, implements
\* the Mailer that the server is composed with.
THEOREM NotifierImplementsMailer == Spec => ImplementsMailer
<1>1. Init => M!Init
  BY DEF Init, M!Init
<1>2. Init => DeliveryInv
  <2>1. DOMAIN <<>> = {}
    OBVIOUS
  <2>. QED
    BY <2>1 DEF Init, DeliveryInv, MarkedWasMailed
<1>3. Spec => []DeliveryInv
  BY <1>2, DeliveryStep, AlwaysTyped, PTL DEF Spec
<1>4. Spec => []OwedInv
  BY OwedBound, AlwaysTyped, LedgerAlways, RoomAlways, PTL
<1>. QED
  BY <1>1, <1>3, <1>4, StepMapped, AlwaysTyped, BufferAlways, LedgerAlways,
     PTL DEF Spec, M!Spec, ImplementsMailer
=============================================================================
