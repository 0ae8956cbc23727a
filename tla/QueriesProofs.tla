---------------------------- MODULE QueriesProofs ----------------------------
(***************************************************************************)
(* Theorems about reading, for any groups, queries, metrics, URLs and      *)
(* addresses, any bounds and any durations: a walk through the pages and   *)
(* the four statements of the statistics hang together while events        *)
(* commit, a correlation answers in time and in full, and an invocation    *)
(* reaches the server that is meant.                                       *)
(***************************************************************************)
EXTENDS MCQueries, Integers, FiniteSetTheorems, SequenceTheorems, TLAPS

-----------------------------------------------------------------------------
(* Correlation: the inductive invariant                                    *)

\* Where time goes: to the server, MaxLocal in all, or to the sources, which
\* begin when no source has taken any and end with the budget.
TimeInv ==
  /\ elapsed \in Nat /\ local \in Nat /\ begun \in Nat
  /\ local <= MaxLocal /\ begun <= local /\ local <= elapsed
  /\ elapsed <= local + Budget + WaitDelay
  /\ pc \in {"check", "lookup", "detail", "occurrence"} => elapsed = local

\* The stages of the handler and what the client knows of them.
StageInv ==
  /\ client # "late"
  /\ client \in {"answered", "refused"} => pc = "done"
  /\ client = "answered" => at \in {1, 5}
  /\ pc \in {"check", "lookup", "detail", "occurrence"} => at = 1
  /\ pc = "enrich" => at \in 1 .. 4
  /\ pc = "end" => at \in {1, 5}
  /\ pc = "enrich" \/ at > 1 => occurrence \in [dated: BOOLEAN, traced: BOOLEAN]
  /\ running # None => pc = "enrich" /\ result[Correlation!Due] = "asked"

\* What the j-th source s has contributed: something true once it is behind,
\* nothing while it is ahead.
Told(j, s) ==
  /\ j < at => /\ result[s] \in {"data", "failed", "skipped", "unwanted"}
               /\ result[s] = "skipped" => Correlation!Spent \/ client = "cancelled"
               /\ result[s] # "unwanted" <=> Correlation!Wanted(s)
  /\ j = at => \/ result[s] = "none"
               \/ result[s] = "asked" /\ pc = "enrich" /\ Correlation!Wanted(s)
  /\ j > at => result[s] = "none"

SourcesInv == Told(1, "logs") /\ Told(2, "trace") /\ Told(3, "metrics") /\ Told(4, "profile")

CorrelationInv == Correlation!TypeOK /\ TimeInv /\ StageInv /\ SourcesInv
-----------------------------------------------------------------------------
(* Correlation: the steps                                                  *)

USE CorrelationAssumption

\* The sources, by their places.
LEMMA SourcesInOrder ==
  /\ Len(Correlation!Sources) = 4
  /\ at = 1 => Correlation!Due = "logs"
  /\ at = 2 => Correlation!Due = "trace"
  /\ at = 3 => Correlation!Due = "metrics"
  /\ at = 4 => Correlation!Due = "profile"
BY DEF Correlation!Sources, Correlation!Due

\* Durations are numbers, and what the server and the sources may take fits.
LEMMA Durations ==
  /\ Budget \in Nat /\ WaitDelay \in Nat /\ MaxLocal \in Nat /\ Deadline \in Nat
  /\ MaxLocal + Budget + WaitDelay < Deadline
  /\ None # "call"
BY DEF Correlation!CorrelateAssumption

\* The invariant holds when the command begins.
LEMMA CorrelationBegins == Correlation!Init => CorrelationInv
<1>. SUFFICES ASSUME Correlation!Init PROVE CorrelationInv
  OBVIOUS
<1>. USE DEF Correlation!Init
<1>1. Correlation!TypeOK
  BY SourcesInOrder, Durations DEF Correlation!TypeOK, Correlation!Times, Correlation!Kinds
<1>2. TimeInv /\ StageInv
  BY Durations DEF TimeInv, StageInv
<1>3. SourcesInv
  BY DEF SourcesInv, Told, Correlation!Kinds
<1>. QED
  BY <1>1, <1>2, <1>3 DEF CorrelationInv

\* A stutter keeps it.
LEMMA CorrelationStays ==
  CorrelationInv /\ UNCHANGED correlation => CorrelationInv'
BY DEF CorrelationInv, Correlation!TypeOK, TimeInv, StageInv, SourcesInv, Told, correlation,
       Correlation!Spent, Correlation!Wanted, Correlation!Due

\* What is left alone when time, client and sources are not touched.
Still == UNCHANGED <<elapsed, local, begun, client, occurrence>>

\* A source contributes: it is behind with what it gave, the next one is due.
LEMMA Contributed ==
  ASSUME CorrelationInv, pc = "enrich", Still,
         NEW value \in {"data", "failed", "skipped", "unwanted"},
         Correlation!Contribute(value),
         value = "skipped" => Correlation!Spent \/ client = "cancelled",
         value # "unwanted" <=> Correlation!Wanted(Correlation!Due)
  PROVE  /\ SourcesInv'
         /\ result' \in [Correlation!Kinds ->
                          {"none", "asked", "data", "failed", "skipped", "unwanted"}]
         /\ at \in 1 .. 4 /\ at' = at + 1
         /\ pc' = (IF at = 4 THEN "end" ELSE "enrich")
<1>. DEFINE due == Correlation!Due
<1>1. /\ at \in 1 .. 4 /\ at' = at + 1
      /\ pc' = (IF at = 4 THEN "end" ELSE "enrich")
  BY SourcesInOrder DEF CorrelationInv, StageInv, Correlation!Contribute
<1>2. /\ result \in [Correlation!Kinds -> {"none", "asked", "data", "failed", "skipped", "unwanted"}]
      /\ result' = [result EXCEPT ![due] = value]
  BY DEF CorrelationInv, Correlation!TypeOK, Correlation!Contribute
<1>3. /\ Correlation!Spent' <=> Correlation!Spent
      /\ (client = "cancelled")' <=> client = "cancelled"
  BY DEF Still, Correlation!Spent
<1>4. \A s : Correlation!Wanted(s)' <=> Correlation!Wanted(s)
  BY DEF Still, Correlation!Wanted
<1>5. SourcesInv
  BY DEF CorrelationInv
<1>. HIDE DEF due
<1>6. CASE at = 1
  <2>1. due = "logs"
    BY <1>6, SourcesInOrder DEF due
  <2>. QED
    BY <1>1, <1>2, <1>3, <1>4, <1>5, <1>6, <2>1 DEF SourcesInv, Told, Correlation!Kinds, due
<1>7. CASE at = 2
  <2>1. due = "trace"
    BY <1>7, SourcesInOrder DEF due
  <2>. QED
    BY <1>1, <1>2, <1>3, <1>4, <1>5, <1>7, <2>1 DEF SourcesInv, Told, Correlation!Kinds, due
<1>8. CASE at = 3
  <2>1. due = "metrics"
    BY <1>8, SourcesInOrder DEF due
  <2>. QED
    BY <1>1, <1>2, <1>3, <1>4, <1>5, <1>8, <2>1 DEF SourcesInv, Told, Correlation!Kinds, due
<1>9. CASE at = 4
  <2>1. due = "profile"
    BY <1>9, SourcesInOrder DEF due
  <2>. QED
    BY <1>1, <1>2, <1>3, <1>4, <1>5, <1>9, <2>1 DEF SourcesInv, Told, Correlation!Kinds, due
<1>. QED
  BY <1>1, <1>6, <1>7, <1>8, <1>9

\* The rest of the invariant, when a source has contributed.
LEMMA ContributedRest ==
  ASSUME CorrelationInv, pc = "enrich", Still,
         NEW value \in {"data", "failed", "skipped", "unwanted"},
         Correlation!Contribute(value),
         value = "skipped" => Correlation!Spent \/ client = "cancelled",
         value # "unwanted" <=> Correlation!Wanted(Correlation!Due),
         running' = None, UNCHANGED metrics
  PROVE  CorrelationInv'
<1>1. /\ SourcesInv'
      /\ result' \in [Correlation!Kinds -> {"none", "asked", "data", "failed", "skipped", "unwanted"}]
      /\ at \in 1 .. 4 /\ at' = at + 1
      /\ pc' = (IF at = 4 THEN "end" ELSE "enrich")
  BY Contributed
<1>2. Correlation!TypeOK'
  BY <1>1, SourcesInOrder DEF CorrelationInv, Correlation!TypeOK, Still, Correlation!Sources
<1>3. TimeInv'
  BY <1>1 DEF CorrelationInv, TimeInv, Still
<1>4. StageInv'
  BY <1>1, Durations DEF CorrelationInv, StageInv, Still
<1>. QED
  BY <1>1, <1>2, <1>3, <1>4 DEF CorrelationInv

\* While a source is asked it is the one that is due, and a call to it is due too.
LEMMA AskedIsDue ==
  ASSUME CorrelationInv, NEW s \in Correlation!Kinds, result[s] = "asked"
  PROVE  /\ pc = "enrich" /\ s = Correlation!Due /\ Correlation!Wanted(s)
         /\ s = "metrics" => at = 3
<1>1. at \in 1 .. 5
  BY SourcesInOrder DEF CorrelationInv, Correlation!TypeOK
<1>. QED
  BY <1>1, SourcesInOrder DEF CorrelationInv, SourcesInv, Told, Correlation!Kinds

\* While the sources are asked the client waits or has given up, and a budget
\* that is exhausted for another reason than time is that of a client gone.
LEMMA StillAsked ==
  ASSUME CorrelationInv, pc # "done"
  PROVE  /\ client \in {"waiting", "cancelled"}
         /\ Correlation!Exhausted => Correlation!Spent \/ client = "cancelled"
<1>1. client \in {"waiting", "cancelled"}
  BY DEF CorrelationInv, Correlation!TypeOK, StageInv
<1>. QED
  BY <1>1 DEF Correlation!Exhausted, Correlation!Cancelled

\* The checks and lookups before.
LEMMA LookupKeeps == CorrelationInv /\ Correlation!Lookup => CorrelationInv'
<1>. SUFFICES ASSUME CorrelationInv, Correlation!Lookup PROVE CorrelationInv'
  OBVIOUS
<1>1. Correlation!TypeOK'
  BY DEF CorrelationInv, Correlation!Lookup, Correlation!Finish, Correlation!TypeOK
<1>2. TimeInv'
  BY DEF CorrelationInv, Correlation!Lookup, Correlation!Finish, TimeInv
<1>3. StageInv'
  <2>1. client \in {"waiting", "cancelled"}
    BY StillAsked DEF Correlation!Lookup
  <2>. QED
    BY <2>1 DEF CorrelationInv, Correlation!Lookup, Correlation!Finish, StageInv, Correlation!Due,
                Correlation!Cancelled
<1>4. SourcesInv'
  <2>1. /\ at = 1 /\ UNCHANGED <<at, result, elapsed, begun, occurrence>> /\ pc # "enrich"
    BY DEF CorrelationInv, StageInv, Correlation!Lookup
  <2>. QED
    BY <2>1 DEF CorrelationInv, SourcesInv, Told
<1>. QED
  BY <1>1, <1>2, <1>3, <1>4 DEF CorrelationInv

\* The occurrence is found or not: nothing has been contributed yet.
LEMMA NthOccurrenceKeeps == CorrelationInv /\ Correlation!NthOccurrence => CorrelationInv'
<1>. SUFFICES ASSUME CorrelationInv, Correlation!NthOccurrence PROVE CorrelationInv'
  OBVIOUS
<1>0. /\ at = 1 /\ pc = "occurrence" /\ client \in {"waiting", "cancelled"}
      /\ UNCHANGED <<elapsed, local, at, running, result, metrics>>
  BY StillAsked DEF CorrelationInv, StageInv, Correlation!NthOccurrence
<1>1. Correlation!TypeOK'
  BY <1>0 DEF CorrelationInv, Correlation!NthOccurrence, Correlation!Finish, Correlation!TypeOK
<1>2. TimeInv'
  BY <1>0 DEF CorrelationInv, Correlation!NthOccurrence, Correlation!Finish, TimeInv
<1>3. StageInv'
  BY <1>0 DEF CorrelationInv, Correlation!NthOccurrence, Correlation!Finish, StageInv, Correlation!Due,
              Correlation!Cancelled
<1>4. SourcesInv'
  BY <1>0 DEF CorrelationInv, SourcesInv, Told
<1>. QED
  BY <1>1, <1>2, <1>3, <1>4 DEF CorrelationInv

\* A source is passed over, or asked.
LEMMA AskKeeps == CorrelationInv /\ Correlation!Ask => CorrelationInv'
<1>. SUFFICES ASSUME CorrelationInv, Correlation!Ask PROVE CorrelationInv'
  OBVIOUS
<1>0. /\ pc = "enrich" /\ result[Correlation!Due] = "none" /\ Still /\ UNCHANGED metrics
  BY DEF Correlation!Ask, Still
<1>1. running = None
  BY <1>0 DEF CorrelationInv, StageInv
<1>2. at \in 1 .. 4 /\ Correlation!Due \in Correlation!Kinds
  BY <1>0, SourcesInOrder DEF CorrelationInv, StageInv, Correlation!Kinds
<1>3. CASE ~Correlation!Wanted(Correlation!Due)
  BY <1>0, <1>1, <1>3, ContributedRest DEF Correlation!Ask
<1>4. CASE Correlation!Wanted(Correlation!Due) /\ Correlation!Stops
  <2>1. Correlation!Spent \/ client = "cancelled"
    BY <1>0, <1>4, StillAsked DEF Correlation!Stops
  <2>. QED
    BY <1>0, <1>1, <1>4, <2>1, ContributedRest DEF Correlation!Ask
<1>5. CASE Correlation!Wanted(Correlation!Due) /\ ~Correlation!Stops
  <2>1. /\ result' = [result EXCEPT ![Correlation!Due] = "asked"]
        /\ running' \in {None, "call"} /\ UNCHANGED <<at, pc>>
    BY <1>5 DEF Correlation!Ask
  <2>2. Correlation!TypeOK'
    BY <1>0, <1>2, <2>1 DEF CorrelationInv, Correlation!TypeOK, Still
  <2>3. TimeInv'
    BY <1>0, <2>1 DEF CorrelationInv, TimeInv, Still
  <2>4. StageInv'
    <3>1. result'[Correlation!Due] = "asked" /\ Correlation!Due' = Correlation!Due
      BY <1>2, <2>1 DEF CorrelationInv, Correlation!TypeOK, Correlation!Due
    <3>. QED
      BY <1>0, <2>1, <3>1 DEF CorrelationInv, StageInv, Still
  <2>5. SourcesInv'
    <3>1. /\ Correlation!Spent' <=> Correlation!Spent
          /\ \A s : Correlation!Wanted(s)' <=> Correlation!Wanted(s)
      BY <1>0 DEF Still, Correlation!Spent, Correlation!Wanted
    <3>2. result \in [Correlation!Kinds -> {"none", "asked", "data", "failed", "skipped", "unwanted"}]
      BY DEF CorrelationInv, Correlation!TypeOK
    <3>. DEFINE due == Correlation!Due
    <3>3. Correlation!Wanted(due) /\ result' = [result EXCEPT ![due] = "asked"]
      BY <1>5, <2>1
    <3>4. /\ at = 1 => due = "logs"
          /\ at = 2 => due = "trace"
          /\ at = 3 => due = "metrics"
          /\ at = 4 => due = "profile"
      BY SourcesInOrder
    <3>. HIDE DEF due
    <3>. QED
      BY <1>0, <1>2, <2>1, <3>1, <3>2, <3>3, <3>4 DEF CorrelationInv, SourcesInv, Told, Still, Correlation!Kinds
  <2>. QED
    BY <2>2, <2>3, <2>4, <2>5 DEF CorrelationInv
<1>. QED
  BY <1>3, <1>4, <1>5

\* A call ends.
LEMMA ReturnKeeps == CorrelationInv /\ Correlation!Return => CorrelationInv'
<1>. SUFFICES ASSUME CorrelationInv, Correlation!Return PROVE CorrelationInv'
  OBVIOUS
<1>1. /\ pc = "enrich" /\ at \in 1 .. 4 /\ result[Correlation!Due] = "asked"
      /\ running' = None /\ Still /\ UNCHANGED metrics
  BY Durations DEF CorrelationInv, StageInv, Correlation!Return, Still
<1>2. Correlation!Due \in Correlation!Kinds
  BY <1>1, SourcesInOrder DEF Correlation!Kinds
<1>3. Correlation!Wanted(Correlation!Due)
  BY <1>1, <1>2, AskedIsDue
<1>4. Correlation!Contribute("data") \/ Correlation!Contribute("failed")
  BY DEF Correlation!Return
<1>. QED
  BY <1>1, <1>3, <1>4, ContributedRest

\* All metrics are there.
LEMMA ReturnMetricsKeeps == CorrelationInv /\ Correlation!ReturnMetrics => CorrelationInv'
<1>. SUFFICES ASSUME CorrelationInv, Correlation!ReturnMetrics PROVE CorrelationInv'
  OBVIOUS
<1>1. /\ result["metrics"] = "asked" /\ running' = None /\ Still /\ UNCHANGED metrics
      /\ Correlation!Contribute("data")
  BY DEF Correlation!ReturnMetrics, Still
<1>2. pc = "enrich" /\ Correlation!Wanted(Correlation!Due)
  BY <1>1, AskedIsDue DEF Correlation!Kinds
<1>. QED
  BY <1>1, <1>2, ContributedRest

\* A query is made, or not for want of time, or answered.
LEMMA MetricKeeps ==
  ASSUME CorrelationInv, NEW m \in Metrics,
         Correlation!AskMetric(m) \/ Correlation!ReturnMetric(m)
  PROVE  CorrelationInv'
<1>1. /\ UNCHANGED <<elapsed, local, client, pc, occurrence, begun, at, result>>
      /\ running' = None \/ (running' = m /\ result["metrics"] = "asked") \/ running' = running
  BY DEF Correlation!AskMetric, Correlation!ReturnMetric
<1>2. metrics' \in [Metrics -> {"none", "value", "absent", "(error)", "(timeout)", "(ambiguous)"}]
  BY DEF CorrelationInv, Correlation!TypeOK, Correlation!AskMetric, Correlation!ReturnMetric
<1>3. result["metrics"] = "asked" => pc = "enrich" /\ result[Correlation!Due] = "asked"
  BY AskedIsDue DEF Correlation!Kinds
<1>4. Correlation!TypeOK'
  BY <1>1, <1>2 DEF CorrelationInv, Correlation!TypeOK
<1>5. TimeInv'
  BY <1>1 DEF CorrelationInv, TimeInv
<1>6. StageInv'
  BY <1>1, <1>3 DEF CorrelationInv, StageInv, Correlation!Due
<1>7. SourcesInv'
  BY <1>1 DEF CorrelationInv, SourcesInv, Told, Correlation!Spent, Correlation!Wanted
<1>. QED
  BY <1>4, <1>5, <1>6, <1>7 DEF CorrelationInv

\* The answer is written.
LEMMA AnswerKeeps == CorrelationInv /\ Correlation!Answer => CorrelationInv'
<1>. SUFFICES ASSUME CorrelationInv, Correlation!Answer PROVE CorrelationInv'
  OBVIOUS
<1>0. /\ pc = "end" /\ pc' = "done" /\ at \in {1, 5} /\ client \in {"waiting", "cancelled"}
      /\ client' \in {"answered", "cancelled"} /\ (client' = "cancelled" <=> client = "cancelled")
      /\ UNCHANGED <<elapsed, local, occurrence, begun, at, running, result, metrics>>
  BY StillAsked DEF CorrelationInv, StageInv, Correlation!Answer, Correlation!Finish, Correlation!Cancelled
<1>1. Correlation!TypeOK'
  BY <1>0 DEF CorrelationInv, Correlation!TypeOK
<1>2. TimeInv'
  BY <1>0 DEF CorrelationInv, TimeInv
<1>3. StageInv'
  BY <1>0 DEF CorrelationInv, StageInv
<1>4. SourcesInv'
  BY <1>0 DEF CorrelationInv, SourcesInv, Told, Correlation!Spent, Correlation!Wanted
<1>. QED
  BY <1>1, <1>2, <1>3, <1>4 DEF CorrelationInv

\* The client gives up.
LEMMA CancelKeeps == CorrelationInv /\ Correlation!Cancel => CorrelationInv'
<1>. SUFFICES ASSUME CorrelationInv, Correlation!Cancel PROVE CorrelationInv'
  OBVIOUS
<1>0. /\ client = "waiting" /\ client' = "cancelled"
      /\ UNCHANGED <<elapsed, local, pc, occurrence, begun, at, running, result, metrics>>
  BY DEF Correlation!Cancel
<1>1. Correlation!TypeOK'
  BY <1>0 DEF CorrelationInv, Correlation!TypeOK
<1>2. TimeInv'
  BY <1>0 DEF CorrelationInv, TimeInv
<1>3. StageInv'
  BY <1>0 DEF CorrelationInv, StageInv, Correlation!Due
<1>4. SourcesInv'
  BY <1>0 DEF CorrelationInv, SourcesInv, Told, Correlation!Spent, Correlation!Wanted
<1>. QED
  BY <1>1, <1>2, <1>3, <1>4 DEF CorrelationInv

\* The client never gives up for want of time: the answer is there before.
LEMMA NeverLate == CorrelationInv => ~Correlation!Late
<1>. SUFFICES ASSUME CorrelationInv PROVE ~(elapsed >= Deadline)
  BY DEF Correlation!Late
<1>1. elapsed \in Nat /\ local \in Nat /\ local <= MaxLocal /\ elapsed <= local + Budget + WaitDelay
  BY DEF CorrelationInv, TimeInv
<1>. QED
  BY <1>1, Durations

\* Time passes.
LEMMA TickKeeps == CorrelationInv /\ Correlation!Tick => CorrelationInv'
<1>. SUFFICES ASSUME CorrelationInv, Correlation!Tick PROVE CorrelationInv'
  OBVIOUS
<1>0. /\ client = "waiting" /\ elapsed <= Deadline /\ elapsed' = elapsed + 1
      /\ UNCHANGED <<client, pc, occurrence, begun, at, running, result, metrics>>
      /\ running = None => local < MaxLocal /\ local' = local + 1
      /\ running # None => local' = local
  BY DEF Correlation!Tick
<1>1. elapsed \in Nat /\ local \in Nat /\ begun \in Nat
  BY DEF CorrelationInv, TimeInv
<1>2. Correlation!TypeOK'
  BY <1>0, <1>1, Durations DEF CorrelationInv, Correlation!TypeOK, Correlation!Times
<1>3. TimeInv'
  <2>1. running # None => elapsed < begun + Budget + WaitDelay
    <3>. SUFFICES ASSUME running # None PROVE elapsed < begun + Budget + WaitDelay
      OBVIOUS
    <3>1. ~(elapsed >= begun + Budget /\ elapsed >= begun + Budget + Correlation!Lag)
      BY DEF Correlation!Tick, Correlation!Exhausted, Correlation!Spent
    <3>2. Correlation!Lag \in {0, WaitDelay}
      BY DEF Correlation!Lag
    <3>. QED
      BY <1>1, <3>1, <3>2, Durations
  <2>2. running # None => pc = "enrich"
    BY DEF CorrelationInv, StageInv
  <2>. QED
    BY <1>0, <1>1, <2>1, <2>2, Durations DEF CorrelationInv, TimeInv
<1>4. StageInv'
  BY <1>0 DEF CorrelationInv, StageInv, Correlation!Due
<1>5. SourcesInv'
  <2>1. Correlation!Spent => Correlation!Spent'
    BY <1>0, <1>1, Durations DEF Correlation!Spent
  <2>. QED
    BY <1>0, <2>1 DEF CorrelationInv, SourcesInv, Told, Correlation!Wanted
<1>. QED
  BY <1>2, <1>3, <1>4, <1>5 DEF CorrelationInv

\* Every step of a correlation keeps the invariant.
LEMMA CorrelationStep == CorrelationInv /\ Correlation!Next => CorrelationInv'
BY LookupKeeps, NthOccurrenceKeeps, AskKeeps, ReturnKeeps, ReturnMetricsKeeps, AnswerKeeps,
   MetricKeeps, CancelKeeps, NeverLate, TickKeeps DEF Correlation!Next, Correlation!Step

\* In every behaviour the correlation keeps it.
THEOREM CorrelationAlways == Spec => []CorrelationInv
<1>1. Init => CorrelationInv
  BY CorrelationBegins DEF Init
<1>2. CorrelationInv /\ [Next]_vars => CorrelationInv'
  BY CorrelationStep, CorrelationStays DEF Next, vars, correlation
<1>. QED
  BY <1>1, <1>2, PTL DEF Spec

\* An answer comes in time, whatever the sources do, and holds what every
\* applicable source had to say: Errors.Correlate with its own, shared budget.
THEOREM CorrelationInFull == Spec => []AnsweredInFull
<1>1. CorrelationInv => AnsweredInFull
  <2>. SUFFICES ASSUME CorrelationInv PROVE AnsweredInFull
    OBVIOUS
  <2>1. Correlation!TypeOK /\ Correlation!AnsweredInTime
    BY DEF CorrelationInv, StageInv, Correlation!AnsweredInTime
  <2>2. ASSUME client = "answered", at > 1, NEW s \in Correlation!Kinds
        PROVE  /\ result[s] \in {"data", "failed", "skipped", "unwanted"}
               /\ result[s] = "skipped" => Correlation!Spent
               /\ result[s] # "unwanted" <=> Correlation!Wanted(s)
    <3>1. at = 5
      BY <2>2 DEF CorrelationInv, StageInv
    <3>. QED
      BY <2>2, <3>1 DEF CorrelationInv, SourcesInv, Told, Correlation!Kinds
  <2>. QED
    BY <2>1, <2>2 DEF AnsweredInFull, Correlation!FailureIsOwn
<1>. QED
  BY <1>1, CorrelationAlways, PTL
-----------------------------------------------------------------------------
(* Targets: the inductive invariant                                        *)

\* A value that names a server: something is there, and it is a URL.
Named(url) == url \notin BadUrls \cup {None, "empty"}

\* A hint is the list command for the server that the last invocation asked.
HintInv ==
  hint # None =>
    /\ hint = [Target!Plain("list") EXCEPT !.server = did.at]
    /\ did = [does |-> "ask", at |-> did.at, file |-> None]
    /\ Named(did.at)

TargetInv == Target!TypeOK /\ HintInv

USE TargetAssumption
-----------------------------------------------------------------------------
(* Targets: what an invocation does                                        *)

\* An invocation that is not refused has no empty option.
LEMMA OptionsUsed ==
  ASSUME NEW a \in Target!Invocations, NEW e, ~Target!Refused(a, e)
  PROVE  /\ a.server \in Urls \cup BadUrls \cup {None} /\ a.addr \in Addresses \cup {None}
         /\ a.db \in Files \cup {None}
         /\ a.command \in {"serve", "restore", "list", "show"}
         /\ ~Target!Misplaced(a)
BY DEF Target!Invocations, Target!Refused, Target!Flag

\* A client that is not refused asks a server that is named.
LEMMA AskedIsNamed ==
  ASSUME NEW a \in Target!Invocations, NEW e \in Target!Environments,
         ~Target!Refused(a, e), a.command \in {"list", "show"}
  PROVE  /\ Named(Target!Target(a, e))
         /\ Target!Target(a, e) \in Urls \cup {Target!Url(x) : x \in Addresses \cup {Target!Loopback}}
<1>1. /\ a.server \in Urls \cup BadUrls \cup {None} /\ a.addr \in Addresses \cup {None}
      /\ Target!Target(a, e) \notin BadUrls
  BY OptionsUsed DEF Target!Refused
<1>2. e.server \in Urls \cup {None} /\ e.addr \in Addresses \cup {None}
  BY DEF Target!Environments
<1>3. CASE a.addr # None
  <2>1. Target!Target(a, e) = Target!Url(a.addr) /\ a.addr \in Addresses
    BY <1>1, <1>3 DEF Target!Target
  <2>. QED
    BY <2>1 DEF Named, Target!InvocationAssumption
<1>4. CASE a.addr = None /\ Target!Either(a.server, e.server) # None
  <2>1. /\ Target!Target(a, e) = Target!Either(a.server, e.server)
        /\ Target!Target(a, e) \in Urls \cup BadUrls
    BY <1>1, <1>2, <1>4 DEF Target!Target, Target!Either
  <2>. QED
    BY <1>1, <1>4, <2>1 DEF Named, Target!InvocationAssumption
<1>5. CASE a.addr = None /\ Target!Either(a.server, e.server) = None
  <2>1. PICK x \in Addresses \cup {Target!Loopback} : x = Target!Either(e.addr, Target!Loopback)
    BY <1>2 DEF Target!Either
  <2>2. Target!Target(a, e) = Target!Url(x)
    BY <1>5, <2>1 DEF Target!Target
  <2>. QED
    BY <2>2 DEF Named, Target!InvocationAssumption
<1>. QED
  BY <1>3, <1>4, <1>5

\* The hint does what the invocation that printed it did, wherever it is run.
LEMMA HintFollowed ==
  ASSUME NEW url, Named(url), NEW e
  PROVE  Target!Effect([Target!Plain("list") EXCEPT !.server = url], e)
           = [does |-> "ask", at |-> url, file |-> None]
<1>. DEFINE a == [Target!Plain("list") EXCEPT !.server = url]
<1>1. /\ a.server = url /\ a.addr = None /\ a.db = None /\ a.command = "list"
      /\ a.offline = FALSE /\ a.sound = TRUE
  BY DEF Target!Plain
<1>. HIDE DEF a
<1>2. Target!Target(a, e) = url
  BY <1>1 DEF Target!Target, Target!Either, Named
<1>3. ~Target!Refused(a, e)
  BY <1>1, <1>2 DEF Target!Refused, Target!Misplaced, Named, Target!InvocationAssumption
<1>4. Target!Effect(a, e) = [does |-> "ask", at |-> url, file |-> None]
  BY <1>1, <1>2, <1>3 DEF Target!Effect
<1>. QED
  BY <1>4 DEF a

\* What an invocation does is one of the things it can do.
LEMMA EffectTyped ==
  ASSUME NEW a \in Target!Invocations, NEW e \in Target!Environments
  PROVE  LET effect == Target!Effect(a, e) IN
         /\ effect.does \in {"refused", "serve", "restore", "ask"}
         /\ effect.at \in {None, Target!Loopback} \cup Addresses \cup Urls
                           \cup {Target!Url(x) : x \in Addresses \cup {Target!Loopback}}
         /\ effect.file \in Files \cup {None, Target!DefaultFile}
<1>1. e.addr \in Addresses \cup {None} /\ e.db \in Files \cup {None}
  BY DEF Target!Environments
<1>2. a.listen \in Addresses \cup {None, "empty"} /\ a.path \in Files \cup {None, "empty"}
  BY DEF Target!Invocations, Target!Flag
<1>3. CASE Target!Refused(a, e)
  BY <1>3 DEF Target!Effect
<1>4. CASE ~Target!Refused(a, e) /\ a.command = "serve"
  <2>1. a.listen # "empty" /\ a.path # "empty"
    BY <1>4 DEF Target!Refused, Target!EmptyPlace
  <2>. QED
    BY <1>1, <1>2, <1>4, <2>1, OptionsUsed DEF Target!Effect, Target!Either
<1>5. CASE ~Target!Refused(a, e) /\ a.command = "restore"
  <2>1. Target!Either(a.path, e.db) \notin {None, "empty"}
    BY <1>5 DEF Target!Refused
  <2>. QED
    BY <1>1, <1>2, <1>5, <2>1 DEF Target!Effect, Target!Either
<1>6. CASE ~Target!Refused(a, e) /\ a.command \in {"list", "show"}
  BY <1>6, AskedIsNamed DEF Target!Effect
<1>. QED
  BY <1>3, <1>4, <1>5, <1>6, OptionsUsed

\* What the command line names is used, or the invocation is refused.
LEMMA NamedUsed ==
  ASSUME NEW a \in Target!Invocations, NEW e, ~Target!Refused(a, e)
  PROVE  LET effect == Target!Effect(a, e) IN
         /\ a.server # None => effect.at = a.server
         /\ a.addr # None => effect.at \in {a.addr, a.listen, Target!Url(a.addr)}
         /\ a.db # None => effect.file \in {a.db, a.path}
BY OptionsUsed DEF Target!Effect, Target!Misplaced, Target!Either, Target!Target

\* serve and show, run in one environment without DRILLIP_SERVER, name the same
\* server.
LEMMA ServedIsAsked ==
  ASSUME NEW e \in Target!Environments, e.server = None
  PROVE  \E x \in Addresses \cup {Target!Loopback} :
           /\ Target!Effect(Target!Plain("serve"), e).at = x
           /\ Target!Effect(Target!Plain("show"), e).at = Target!Url(x)
<1>. DEFINE a == Target!Plain("serve")
            b == Target!Plain("show")
<1>1. PICK x \in Addresses \cup {Target!Loopback} : x = Target!Either(e.addr, Target!Loopback)
  BY DEF Target!Environments, Target!Either
<1>2. /\ a.server = None /\ a.addr = None /\ a.db = None /\ a.command = "serve"
      /\ a.offline = FALSE /\ a.sound = TRUE /\ a.listen = None /\ a.path = None
  BY DEF Target!Plain
<1>3. /\ b.server = None /\ b.addr = None /\ b.db = None /\ b.command = "show"
      /\ b.offline = FALSE /\ b.sound = TRUE
  BY DEF Target!Plain
<1>. HIDE DEF a, b
<1>4. ~Target!Refused(a, e)
  BY <1>2 DEF Target!Refused, Target!Misplaced, Target!EmptyPlace, Target!InvocationAssumption
<1>5. Target!Effect(a, e).at = x
  BY <1>1, <1>2, <1>4 DEF Target!Effect, Target!Either
<1>6. Target!Target(b, e) = Target!Url(x)
  BY <1>1, <1>3 DEF Target!Target, Target!Either
<1>7. ~Target!Refused(b, e)
  BY <1>3, <1>6 DEF Target!Refused, Target!Misplaced, Target!InvocationAssumption
<1>8. Target!Effect(b, e).at = Target!Url(x)
  BY <1>3, <1>6, <1>7 DEF Target!Effect
<1>. QED
  BY <1>5, <1>8 DEF a, b

\* In every behaviour of invocations the hint is the one that was meant.
THEOREM TargetAlways == Spec => [](only = "target" => TargetInv)
<1>1. Init => (only = "target" => TargetInv)
  BY DEF Init, Target!Init, TargetInv, HintInv, Target!TypeOK
<1>2. ASSUME TargetInv, NEW a \in Target!Invocations, Target!Invoke(a) PROVE TargetInv'
  <2>1. env \in Target!Environments /\ env' = env /\ did' = Target!Effect(a, env)
    BY <1>2 DEF TargetInv, Target!TypeOK, Target!Invoke
  <2>2. Target!TypeOK'
    BY <2>1, EffectTyped DEF Target!TypeOK
  <2>3. ASSUME hint' # None PROVE HintInv'
    <3>1. a.command = "list" /\ ~Target!Refused(a, env) /\ hint' = Target!NextPage(a, env)
      BY <1>2, <2>3 DEF Target!Invoke
    <3>2. did' = [does |-> "ask", at |-> Target!Target(a, env), file |-> None]
      BY <2>1, <3>1 DEF Target!Effect
    <3>3. Named(Target!Target(a, env))
      BY <2>1, <3>1, AskedIsNamed
    <3>. QED
      BY <3>1, <3>2, <3>3 DEF HintInv, Target!NextPage, Named
  <2>. QED
    BY <2>2, <2>3 DEF TargetInv, HintInv
<1>3. TargetInv /\ Target!Reconfigure => TargetInv'
  BY DEF TargetInv, HintInv, Target!TypeOK, Target!Reconfigure
<1>4. TargetInv /\ UNCHANGED target => TargetInv'
  BY DEF TargetInv, HintInv, Target!TypeOK, target
<1>5. (only = "target" => TargetInv) /\ [Next]_vars => (only = "target" => TargetInv)'
  BY <1>2, <1>3, <1>4 DEF Next, vars, Target!Next
<1>. QED
  BY <1>1, <1>5, PTL DEF Spec

\* An invocation reaches the server it names: the next page the server of the
\* first, a client the server of its environment, and an option before a
\* variable (serverURL, loadConfig, Parse and listPageCommand).
THEOREM TargetsAlwaysMeant == Spec => []TargetsAreMeant
<1>1. (only = "target" => TargetInv) => TargetsAreMeant
  <2>. SUFFICES ASSUME only = "target", TargetInv PROVE TargetsAreMeant
    BY DEF TargetsAreMeant
  <2>1. Target!TypeOK /\ env \in Target!Environments
    BY DEF TargetInv, Target!TypeOK
  <2>2. Target!NextPageStays
    BY HintFollowed DEF TargetInv, HintInv, Target!NextPageStays
  <2>3. Target!ClientFindsServer
    <3>. SUFFICES ASSUME env.server = None PROVE Target!ClientFindsServer
      BY DEF Target!ClientFindsServer
    <3>1. PICK x \in Addresses \cup {Target!Loopback} :
            /\ Target!Effect(Target!Plain("serve"), env).at = x
            /\ Target!Effect(Target!Plain("show"), env).at = Target!Url(x)
      BY <2>1, ServedIsAsked
    <3>. QED
      BY <3>1 DEF Target!ClientFindsServer, Target!Url
  <2>4. Target!NamedIsUsed
    <3>1. ASSUME NEW a \in Target!Invocations, Target!Effect(a, env).does # "refused"
          PROVE  ~Target!Refused(a, env)
      BY <3>1 DEF Target!Effect
    <3>. QED
      BY <3>1, NamedUsed DEF Target!NamedIsUsed
  <2>. QED
    BY <2>1, <2>2, <2>3, <2>4 DEF TargetsAreMeant
<1>. QED
  BY <1>1, TargetAlways, PTL
-----------------------------------------------------------------------------
(* Orders of finite sets                                                   *)

\* R is a strict order of all elements of M.
Orders(R, M) ==
  /\ \A x \in M : <<x, x>> \notin R
  /\ \A x, y, z \in M : <<x, y>> \in R /\ <<y, z>> \in R => <<x, z>> \in R
  /\ \A x, y \in M : x = y \/ <<x, y>> \in R \/ <<y, x>> \in R

\* The elements that come before x.
Preceding(R, M, x) == {y \in M : <<y, x>> \in R}

\* s is M, in order.
Lines(s, R, M) ==
  /\ s \in [1 .. Cardinality(M) -> M]
  /\ \A i, j \in 1 .. Cardinality(M) : i < j => <<s[i], s[j]>> \in R

\* What comes before an element leaves it out, and is more for what comes later.
LEMMA PrecedingGrows ==
  ASSUME NEW M, NEW R, Orders(R, M), IsFiniteSet(M), NEW x \in M
  PROVE  /\ IsFiniteSet(Preceding(R, M, x)) /\ Cardinality(Preceding(R, M, x)) \in Nat
         /\ Cardinality(Preceding(R, M, x)) < Cardinality(M)
         /\ \A y \in M : <<x, y>> \in R =>
              Cardinality(Preceding(R, M, x)) < Cardinality(Preceding(R, M, y))
<1>1. \A y \in M : /\ IsFiniteSet(Preceding(R, M, y)) /\ Cardinality(Preceding(R, M, y)) \in Nat
                   /\ Preceding(R, M, y) \subseteq M
  <2>. TAKE y \in M
  <2>1. Preceding(R, M, y) \in SUBSET M
    BY DEF Preceding
  <2>. QED
    BY <2>1, FS_Subset, FS_CardinalityType
<1>2. Cardinality(Preceding(R, M, x)) < Cardinality(M)
  <2>1. x \notin Preceding(R, M, x)
    BY DEF Preceding, Orders
  <2>2. Preceding(R, M, x) \in SUBSET (M \ {x})
    BY <2>1 DEF Preceding
  <2>3. /\ IsFiniteSet(M \ {x}) /\ Cardinality(M \ {x}) = Cardinality(M) - 1
        /\ Cardinality(M) \in Nat
    BY FS_RemoveElement, FS_CardinalityType
  <2>4. Cardinality(Preceding(R, M, x)) <= Cardinality(M \ {x})
    BY <2>2, <2>3, FS_Subset
  <2>. QED
    BY <1>1, <2>3, <2>4
<1>3. ASSUME NEW y \in M, <<x, y>> \in R
      PROVE  Cardinality(Preceding(R, M, x)) < Cardinality(Preceding(R, M, y))
  <2>1. Preceding(R, M, x) \in SUBSET Preceding(R, M, y)
    BY <1>3 DEF Preceding, Orders
  <2>2. x \in Preceding(R, M, y) /\ x \notin Preceding(R, M, x)
    BY <1>3 DEF Preceding, Orders
  <2>3. /\ Cardinality(Preceding(R, M, x)) <= Cardinality(Preceding(R, M, y))
        /\ Cardinality(Preceding(R, M, y)) = Cardinality(Preceding(R, M, x)) =>
             Preceding(R, M, y) = Preceding(R, M, x)
    BY <1>1, <2>1, FS_Subset
  <2>. QED
    BY <1>1, <2>2, <2>3
<1>. QED
  BY <1>1, <1>2, <1>3

\* A finite set that is ordered can be written down in order.
LEMMA LineExists ==
  ASSUME NEW M, NEW R, Orders(R, M), IsFiniteSet(M)
  PROVE  \E s : Lines(s, R, M)
<1>. DEFINE n == Cardinality(M)
            place == [x \in M |-> Cardinality(Preceding(R, M, x)) + 1]
<1>1. n \in Nat /\ IsFiniteSet(1 .. n) /\ Cardinality(1 .. n) = n
  BY FS_CardinalityType, FS_Interval
<1>2. \A x \in M : place[x] \in 1 .. n
  BY <1>1, PrecedingGrows
<1>3. \A x, y \in M : <<x, y>> \in R => place[x] < place[y]
  BY PrecedingGrows
<1>4. place \in [M -> 1 .. n]
  BY <1>2
<1>. HIDE DEF n, place
<1>5. \A x, y \in M : place[x] = place[y] => x = y
  <2>. SUFFICES ASSUME NEW x \in M, NEW y \in M, place[x] = place[y], x # y PROVE FALSE
    OBVIOUS
  <2>1. place[x] \in Int /\ place[y] \in Int
    BY <1>1, <1>2
  <2>2. ~(place[x] < place[y]) /\ ~(place[y] < place[x])
    BY <2>1
  <2>. QED
    BY <1>3, <2>2 DEF Orders
<1>6. place \in Injection(M, 1 .. n)
  BY <1>4, <1>5 DEF Injection, IsInjective
<1>7. place \in Surjection(M, 1 .. n)
  BY <1>1, <1>6, FS_Injection DEF n
<1>. DEFINE s == [i \in 1 .. n |-> CHOOSE x \in M : place[x] = i]
<1>8. \A i \in 1 .. n : s[i] \in M /\ place[s[i]] = i
  BY <1>7 DEF Surjection
<1>9. s \in [1 .. n -> M]
  BY <1>8
<1>. HIDE DEF s
<1>10. ASSUME NEW i \in 1 .. n, NEW j \in 1 .. n, i < j PROVE <<s[i], s[j]>> \in R
  <2>1. s[i] \in M /\ s[j] \in M /\ place[s[i]] = i /\ place[s[j]] = j
    BY <1>8
  <2>2. s[i] # s[j] /\ ~(place[s[j]] < place[s[i]])
    BY <1>1, <1>10, <2>1
  <2>. QED
    BY <1>3, <2>1, <2>2 DEF Orders
<1>. QED
  BY <1>9, <1>10 DEF Lines, n

\* In a set that is written down in order each element has one place, after as
\* many others as come before it.
LEMMA LinePlaces ==
  ASSUME NEW M, NEW R, Orders(R, M), IsFiniteSet(M), NEW s, Lines(s, R, M), NEW x \in M
  PROVE  \E i \in 1 .. Cardinality(M) : s[i] = x /\ Cardinality(Preceding(R, M, x)) = i - 1
<1>. DEFINE n == Cardinality(M)
<1>1. n \in Nat /\ IsFiniteSet(1 .. n) /\ Cardinality(1 .. n) = n
  BY FS_CardinalityType, FS_Interval
<1>2. s \in [1 .. n -> M] /\ \A i, j \in 1 .. n : i < j => <<s[i], s[j]>> \in R
  BY DEF Lines
<1>. HIDE DEF n
<1>3. \A i, j \in 1 .. n : s[i] = s[j] => i = j
  <2>. SUFFICES ASSUME NEW i \in 1 .. n, NEW j \in 1 .. n, s[i] = s[j], i # j PROVE FALSE
    OBVIOUS
  <2>1. i < j \/ j < i
    BY <1>1
  <2>2. <<s[i], s[i]>> \in R
    BY <1>2, <2>1
  <2>. QED
    BY <1>2, <2>2 DEF Orders
<1>4. s \in Injection(1 .. n, M)
  BY <1>2, <1>3 DEF Injection, IsInjective
<1>5. s \in Surjection(1 .. n, M)
  BY <1>1, <1>4, FS_Injection DEF n
<1>6. PICK i \in 1 .. n : s[i] = x
  BY <1>5 DEF Surjection
<1>7. Cardinality(Preceding(R, M, x)) = i - 1
  <2>. DEFINE front == [j \in 1 .. (i - 1) |-> s[j]]
              P == Preceding(R, M, x)
  <2>1. IsFiniteSet(1 .. (i - 1)) /\ Cardinality(1 .. (i - 1)) = i - 1
    BY <1>1, FS_Interval
  <2>2. \A j \in 1 .. (i - 1) : j \in 1 .. n /\ j < i
    BY <1>1
  <2>3. \A j \in 1 .. (i - 1) : s[j] \in P
    BY <1>2, <1>6, <2>2 DEF Preceding
  <2>4. \A y \in P : \E j \in 1 .. (i - 1) : s[j] = y
    <3>1. SUFFICES ASSUME NEW y \in P PROVE \E j \in 1 .. (i - 1) : s[j] = y
      OBVIOUS
    <3>2. y \in M /\ <<y, x>> \in R
      BY DEF Preceding
    <3>3. PICK j \in 1 .. n : s[j] = y
      BY <1>5, <3>2 DEF Surjection
    <3>4. j # i
      BY <1>6, <3>2, <3>3 DEF Orders
    <3>5. ~(i < j)
      <4>. SUFFICES ASSUME i < j PROVE FALSE
        OBVIOUS
      <4>1. <<x, y>> \in R
        BY <1>2, <1>6, <3>3
      <4>. QED
        BY <3>2, <4>1 DEF Orders
    <3>. QED
      BY <1>1, <3>3, <3>4, <3>5
  <2>. HIDE DEF P
  <2>5. front \in [1 .. (i - 1) -> P]
    BY <2>3
  <2>6. front \in Surjection(1 .. (i - 1), P)
    BY <2>4, <2>5 DEF Surjection
  <2>7. front \in Injection(1 .. (i - 1), P)
    BY <1>3, <2>2, <2>5 DEF Injection, IsInjective
  <2>. HIDE DEF front
  <2>8. Cardinality(P) = i - 1
    BY <2>1, <2>6, <2>7, FS_Surjection
  <2>. QED
    BY <2>8 DEF P
<1>. QED
  BY <1>6, <1>7 DEF n
-----------------------------------------------------------------------------
(* Listings: what a page is cut from                                       *)

USE ListingAssumption

\* The groups that a query lists, and those it lists ahead of g.
Matching(q) == Listing!Stored \cap q.matching
Ahead(q, g) == {h \in Matching(q) : Listing!Before(q, h, g)}

\* The order of a query, as a set of pairs.
Ranked(q) == {p \in Groups \X Groups : Listing!Before(q, p[1], p[2])}

RowsTyped == rows \in [Groups -> Listing!Row]

\* Browse counts with the same Cardinality.
LEMMA SameCardinality ==
  ASSUME NEW S
  PROVE  Listing!Cardinality(S) = Cardinality(S)
BY Zenon DEF Listing!Cardinality, Cardinality

\* And means the same by a finite set.
LEMMA SameFinite ==
  ASSUME NEW S
  PROVE  Listing!IsFiniteSet(S) = IsFiniteSet(S)
BY Zenon DEF Listing!IsFiniteSet, IsFiniteSet

\* Groups are numbers, finitely many, and bounds are numbers.
LEMMA Numbers ==
  /\ Groups \subseteq Nat /\ IsFiniteSet(Groups) /\ Cardinality(Groups) \in Nat
  /\ MaxTime \in Nat /\ MaxCount \in Nat /\ MaxLag \in Nat
  /\ Listing!Cardinality(Groups) = Cardinality(Groups)
<1>1. IsFiniteSet(Groups)
  BY SameFinite DEF Listing!BrowseAssumption
<1>. QED
  BY <1>1, SameCardinality, FS_CardinalityType DEF Listing!BrowseAssumption

\* What can be listed of a query.
LEMMA MatchingTyped ==
  ASSUME NEW q
  PROVE  /\ Matching(q) \subseteq Groups /\ IsFiniteSet(Matching(q))
         /\ Cardinality(Matching(q)) \in Nat /\ Cardinality(Matching(q)) <= Cardinality(Groups)
<1>1. Matching(q) \in SUBSET Groups
  BY DEF Matching, Listing!Stored
<1>. QED
  BY <1>1, Numbers, FS_Subset, FS_CardinalityType

\* The columns of a row are numbers.
LEMMA RowTyped ==
  ASSUME RowsTyped, NEW g \in Groups
  PROVE  /\ rows[g].count \in Nat /\ rows[g].first \in Nat /\ rows[g].last \in Nat
         /\ g \in Nat /\ rows[g].first <= MaxTime /\ rows[g].last <= MaxTime
<1>1. rows[g] \in Listing!Row
  BY DEF RowsTyped
<1>2. rows[g].count \in 0 .. MaxCount /\ rows[g].first \in 0 .. MaxTime /\ rows[g].last \in 0 .. MaxTime
  BY <1>1 DEF Listing!Row
<1>. QED
  BY <1>2, Numbers

\* ORDER BY with its tie-breaker leaves no two groups side by side.
LEMMA RankedOrders ==
  ASSUME RowsTyped, NEW q
  PROVE  Orders(Ranked(q), Matching(q))
<1>1. \A g, h \in Groups : <<g, h>> \in Ranked(q) <=> Listing!Before(q, g, h)
  BY DEF Ranked
<1>2. \A g \in Groups : ~Listing!Before(q, g, g)
  BY RowTyped DEF Listing!Before
<1>3. \A f, g, h \in Groups : Listing!Before(q, f, g) /\ Listing!Before(q, g, h) => Listing!Before(q, f, h)
  <2>. SUFFICES ASSUME NEW f \in Groups, NEW g \in Groups, NEW h \in Groups,
                       Listing!Before(q, f, g), Listing!Before(q, g, h)
                PROVE  Listing!Before(q, f, h)
    OBVIOUS
  <2>. QED
    BY RowTyped DEF Listing!Before
<1>4. \A g, h \in Groups : g = h \/ Listing!Before(q, g, h) \/ Listing!Before(q, h, g)
  BY RowTyped DEF Listing!Before
<1>. QED
  BY <1>1, <1>2, <1>3, <1>4, MatchingTyped DEF Orders

\* A listing holds each group it lists in one place, after as many others as are
\* ahead of it.
LEMMA ListingPlaces ==
  ASSUME RowsTyped, NEW q
  PROVE  LET s == Listing!Listing(q)
             n == Cardinality(Matching(q))
         IN /\ s \in [1 .. n -> Matching(q)] /\ s \in Seq(Groups) /\ Len(s) = n
            /\ \A g \in Matching(q) :
                 \E i \in 1 .. n : s[i] = g /\ Cardinality(Ahead(q, g)) = i - 1
<1>. DEFINE M == Matching(q)
            n == Cardinality(M)
            Sorted(s) == \A i, j \in 1 .. n : i < j => Listing!Before(q, s[i], s[j])
            s == Listing!Listing(q)
<1>1. Orders(Ranked(q), M) /\ IsFiniteSet(M) /\ M \subseteq Groups /\ n \in Nat
  BY RankedOrders, MatchingTyped
<1>2. s = CHOOSE t \in [1 .. n -> M] : Sorted(t)
  BY SameCardinality DEF Listing!Listing, Matching
<1>3. ASSUME NEW t \in [1 .. n -> M] PROVE Lines(t, Ranked(q), M) <=> Sorted(t)
  <2>1. \A i \in 1 .. n : t[i] \in Groups
    BY <1>1
  <2>. QED
    BY <2>1 DEF Lines, Ranked
<1>. HIDE DEF s, Sorted
<1>4. \E t \in [1 .. n -> M] : Sorted(t)
  BY <1>1, <1>3, LineExists DEF Lines
<1>5. s \in [1 .. n -> M] /\ Sorted(s)
  BY <1>2, <1>4
<1>6. Lines(s, Ranked(q), M)
  BY <1>3, <1>5
<1>7. ASSUME NEW g \in M
      PROVE  \E i \in 1 .. n : s[i] = g /\ Cardinality(Ahead(q, g)) = i - 1
  <2>1. Preceding(Ranked(q), M, g) = Ahead(q, g)
    BY <1>1, <1>7 DEF Preceding, Ahead, Ranked
  <2>. QED
    BY <1>1, <1>6, <1>7, <2>1, LinePlaces
<1>8. s \in Seq(Groups) /\ Len(s) = n
  BY <1>1, <1>5
<1>. QED
  BY <1>5, <1>7, <1>8 DEF s

\* The groups that are ahead are finitely many.
LEMMA AheadTyped ==
  ASSUME NEW q, NEW g
  PROVE  IsFiniteSet(Ahead(q, g)) /\ Cardinality(Ahead(q, g)) \in Nat
<1>1. Ahead(q, g) \in SUBSET Matching(q)
  BY DEF Ahead
<1>. QED
  BY <1>1, MatchingTyped, FS_Subset, FS_CardinalityType

\* A page of a listing L from an offset: as many rows as there are, up to limit.
Cut(page, L, offset, limit) ==
  /\ page.errors \in Seq(Groups) /\ Len(page.errors) <= limit
  /\ offset >= Len(L) => page.errors = << >> /\ page.more = FALSE
  /\ offset < Len(L) =>
       /\ offset + Len(page.errors) <= Len(L)
       /\ page.errors = SubSeq(L, offset + 1, offset + Len(page.errors))
       /\ \A i \in 1 .. Len(page.errors) : page.errors[i] = L[offset + i]
       /\ page.more => Len(page.errors) = limit
       /\ ~page.more => offset + Len(page.errors) = Len(L)

\* What the List of the store answers is such a page.
LEMMA PageCut ==
  ASSUME RowsTyped, NEW q \in Queries, NEW offset \in Nat
  PROVE  LET page == Listing!Page(q, offset)
         IN Cut(page, Listing!Listing(q), offset, q.limit) /\ Listing!Consistent(q, page)
<1>0. PICK page : page = Listing!Page(q, offset)
  OBVIOUS
<1>. DEFINE left == Len(Listing!Listing(q)) - offset
            shown == IF left > q.limit THEN q.limit ELSE left
<1>1. PICK L \in Seq(Groups) : L = Listing!Listing(q)
  BY ListingPlaces
<1>2. q.limit \in Nat /\ q.limit > 0
  BY DEF Listing!BrowseAssumption
<1>3. CASE left <= 0
  <2>1. page.errors = << >> /\ page.more = FALSE
    BY <1>0, <1>3 DEF Listing!Page
  <2>2. << >> \in Seq(Groups) /\ Len(<< >>) = 0
    OBVIOUS
  <2>3. ~(offset < Len(L))
    BY <1>1, <1>3
  <2>. QED
    BY <1>0, <1>1, <1>2, <2>1, <2>2, <2>3 DEF Cut, Listing!Consistent
<1>4. CASE ~(left <= 0)
  <2>1. page.errors = SubSeq(L, offset + 1, offset + shown) /\ page.more = (left > q.limit)
    BY <1>0, <1>1, <1>4 DEF Listing!Page
  <2>2. shown \in Nat /\ shown > 0 /\ shown <= q.limit /\ offset + shown <= Len(L) /\ offset < Len(L)
        /\ (left > q.limit => shown = q.limit) /\ (~(left > q.limit) => offset + shown = Len(L))
    BY <1>1, <1>2, <1>4
  <2>. HIDE DEF shown, left
  <2>3. /\ page.errors \in Seq(Groups) /\ Len(page.errors) = shown
        /\ \A i \in 1 .. shown : page.errors[i] = L[offset + i]
    BY <2>1, <2>2
  <2>4. /\ page.more => shown = q.limit
        /\ ~page.more => offset + shown = Len(L)
    BY <2>1, <2>2
  <2>5. ~(offset >= Len(L))
    BY <1>1, <2>2
  <2>6. Cut(page, L, offset, q.limit)
    BY <2>1, <2>2, <2>3, <2>4, <2>5 DEF Cut
  <2>7. Listing!Consistent(q, page)
    BY <2>2, <2>3, <2>4 DEF Listing!Consistent
  <2>. QED
    BY <1>0, <1>1, <2>6, <2>7
<1>. QED
  BY <1>3, <1>4
-----------------------------------------------------------------------------
(* A walk through the pages: the inductive invariant                       *)

\* last_seen has been taken back, in the order that it decides.
Disordered == lowered /\ walk.query.sort = "last_seen"

\* A group that was listed and has had no event since has been shown, or as many
\* others as pages have passed are ahead of it.
Awaited(g) ==
  \/ g \in Listing!ToSet(walk.shown)
  \/ walk.pc = "reading" /\ walk.offset <= Cardinality(Ahead(walk.query, g))

\* What has been shown while nothing came is a front of the listing.
Exact ==
  /\ walk.before = Listing!Listing(walk.query)
  /\ walk.offset <= Len(walk.before)
  /\ walk.shown = SubSeq(walk.before, 1, walk.offset)
  /\ walk.pc = "done" => walk.offset = Len(walk.before)

WalkInv ==
  /\ walk.pc = "none" \/ stats.pc = Listing!Never
  /\ walk.pc # "failed"
  /\ walk.pc = "idle" => walk.offset = 0 /\ walk.shown = << >>
  /\ walk.pc \in {"reading", "done"} =>
       /\ Listing!ToSet(walk.before) \subseteq Matching(walk.query)
       /\ ~Disordered => \A g \in Listing!ToSet(walk.before) \ changed : Awaited(g)
       /\ changed = {} => Exact

\* What the statements of the statistics have found so far.
StatsInv ==
  /\ stats.unique <= Cardinality(Listing!Stored)
  /\ stats.unique > 0 /\ stats.pc \in {3, 4} =>
       stats.first # Listing!Never \/ "first" \in stats.untold
  /\ stats.unique > 0 /\ stats.pc = 4 => stats.last # Listing!Never \/ "last" \in stats.untold
  /\ stats.pc \in 0 .. 3 => stats.last = Listing!Never
  /\ walk.pc = "none" /\ ~lowered =>
       /\ \A g \in Listing!Stored : rows[g].first <= rows[g].last
       /\ stats.first # Listing!Never => \E g \in Listing!Stored : rows[g].first = stats.first
       /\ stats.first # Listing!Never /\ stats.last # Listing!Never /\ stats.pc = 4 =>
            stats.first <= stats.last

ListingInv == Listing!TypeOK /\ WalkInv /\ StatsInv
-----------------------------------------------------------------------------
(* Reading: the steps                                                      *)

\* The walk and the statistics have the fields that their types give them.
LEMMA ReadersTyped ==
  ASSUME Listing!TypeOK
  PROVE  /\ RowsTyped
         /\ walk.pc \in {"none", "idle", "reading", "done", "failed"} /\ walk.query \in Queries
         /\ walk.offset \in Nat /\ walk.offset <= Cardinality(Groups)
         /\ walk.shown \in Seq(Groups) /\ walk.before \in Seq(Groups)
         /\ stats.pc \in {Listing!Never, 0, 1, 2, 3, 4, 5} /\ stats.unique \in Nat
         /\ stats.first \in {Listing!Never} \cup Nat /\ stats.last \in {Listing!Never} \cup Nat
         /\ Listing!Never = -1
<1>1. /\ rows \in [Groups -> Listing!Row] /\ walk \in Listing!Walk /\ stats \in Listing!Stats
  BY DEF Listing!TypeOK
<1>2. /\ walk.pc \in {"none", "idle", "reading", "done", "failed"} /\ walk.query \in Queries
      /\ walk.offset \in Nat /\ walk.offset <= Cardinality(Groups)
      /\ walk.shown \in Seq(Groups) /\ walk.before \in Seq(Groups)
  BY <1>1, Numbers DEF Listing!Walk
<1>3. /\ stats.pc \in {Listing!Never, 0, 1, 2, 3, 4, 5} /\ stats.unique \in Nat
      /\ stats.first \in {Listing!Never} \cup Nat /\ stats.last \in {Listing!Never} \cup Nat
      /\ Listing!Never = -1
  BY <1>1 DEF Listing!Stats, Listing!Never
<1>. QED
  BY <1>1, <1>2, <1>3 DEF RowsTyped

\* The groups that are stored are finitely many.
LEMMA StoredTyped ==
  /\ Listing!Stored \subseteq Groups /\ IsFiniteSet(Listing!Stored)
  /\ Cardinality(Listing!Stored) \in Nat
<1>1. Listing!Stored \in SUBSET Groups
  BY DEF Listing!Stored
<1>. QED
  BY <1>1, Numbers, FS_Subset, FS_CardinalityType

\* Before anything is read.
LEMMA ListingBegins == Listing!Init => ListingInv
<1>. SUFFICES ASSUME Listing!Init PROVE ListingInv
  OBVIOUS
<1>1. PICK q \in Queries, command \in {"list", "stats"} :
        /\ walk = [pc |-> IF command = "list" THEN "idle" ELSE "none", query |-> q,
                   offset |-> 0, shown |-> << >>, before |-> << >>]
        /\ stats = [pc |-> IF command = "stats" THEN 0 ELSE Listing!Never,
                    unique |-> 0, first |-> Listing!Never, last |-> Listing!Never, untold |-> {}]
  BY DEF Listing!Init
<1>2. /\ clock = 0 /\ rows = [g \in Groups |-> Listing!NoRow] /\ changed = {} /\ lowered = FALSE
  BY DEF Listing!Init
<1>3. << >> \in Seq(Groups) /\ 0 \in 0 .. Cardinality(Groups)
  BY Numbers
<1>4. Listing!TypeOK
  <2>1. walk \in Listing!Walk
    BY <1>1, <1>3, Numbers DEF Listing!Walk
  <2>2. stats \in Listing!Stats
    BY <1>1 DEF Listing!Stats, Listing!Never
  <2>3. rows \in [Groups -> Listing!Row]
    BY <1>2, Numbers DEF Listing!Row, Listing!NoRow
  <2>4. clock \in 0 .. MaxTime /\ changed \subseteq Groups
    BY <1>2, Numbers
  <2>5. lowered \in BOOLEAN
    BY <1>2
  <2>. QED
    BY <2>1, <2>2, <2>3, <2>4, <2>5 DEF Listing!TypeOK
<1>5. Listing!Stored = {}
  BY <1>2 DEF Listing!Stored, Listing!NoRow
<1>6. WalkInv
  BY <1>1 DEF WalkInv
<1>7. StatsInv
  BY <1>1, <1>2, <1>5, FS_EmptySet DEF StatsInv, Listing!Never
<1>. QED
  BY <1>4, <1>6, <1>7 DEF ListingInv

\* A front of a sequence and what follows it are a longer front.
LEMMA FrontGrows ==
  ASSUME NEW L \in Seq(Groups), NEW m \in Nat, NEW k \in Nat, m + k <= Len(L)
  PROVE  SubSeq(L, 1, m) \o SubSeq(L, m + 1, m + k) = SubSeq(L, 1, m + k)
<1>1. /\ SubSeq(L, 1, m) \in Seq(Groups) /\ Len(SubSeq(L, 1, m)) = m
      /\ SubSeq(L, m + 1, m + k) \in Seq(Groups) /\ Len(SubSeq(L, m + 1, m + k)) = k
      /\ SubSeq(L, 1, m + k) \in Seq(Groups) /\ Len(SubSeq(L, 1, m + k)) = m + k
  OBVIOUS
<1>2. /\ \A i \in 1 .. m : SubSeq(L, 1, m)[i] = L[i]
      /\ \A i \in 1 .. k : SubSeq(L, m + 1, m + k)[i] = L[m + i]
      /\ \A i \in 1 .. (m + k) : SubSeq(L, 1, m + k)[i] = L[i]
  OBVIOUS
<1>. DEFINE a == SubSeq(L, 1, m)
            b == SubSeq(L, m + 1, m + k)
            c == SubSeq(L, 1, m + k)
<1>. HIDE DEF a, b, c
<1>3. /\ a \in Seq(Groups) /\ Len(a) = m /\ b \in Seq(Groups) /\ Len(b) = k
      /\ c \in Seq(Groups) /\ Len(c) = m + k
      /\ \A i \in 1 .. m : a[i] = L[i]
      /\ \A i \in 1 .. k : b[i] = L[m + i]
      /\ \A i \in 1 .. (m + k) : c[i] = L[i]
  BY <1>1, <1>2 DEF a, b, c
<1>4. (a \o b) \in Seq(Groups) /\ Len(a \o b) = m + k
  BY <1>3
<1>5. ASSUME NEW i \in 1 .. (m + k) PROVE (a \o b)[i] = c[i]
  <2>1. CASE i <= m
    BY <1>3, <2>1
  <2>2. CASE ~(i <= m)
    <3>1. i - m \in 1 .. k /\ m + (i - m) = i
      BY <2>2
    <3>2. (a \o b)[i] = b[i - m]
      BY <1>3, <2>2
    <3>. QED
      BY <1>3, <3>1, <3>2
  <2>. QED
    BY <2>1, <2>2
<1>6. a \o b = c
  <2>. DEFINE ab == a \o b
  <2>1. ab \in Seq(Groups) /\ Len(ab) = m + k /\ \A i \in 1 .. (m + k) : ab[i] = c[i]
    BY <1>4, <1>5
  <2>. HIDE DEF ab
  <2>2. ab = c
    BY <1>3, <2>1, SeqEqual
  <2>. QED
    BY <2>2 DEF ab
<1>. QED
  BY <1>6 DEF a, b, c

\* A step that touches none of the tables and readers.
LEMMA ListingStays ==
  ListingInv /\ (Listing!Tick \/ UNCHANGED listing) => ListingInv'
<1>. SUFFICES ASSUME ListingInv, Listing!Tick \/ UNCHANGED listing PROVE ListingInv'
  OBVIOUS
<1>1. /\ rows' = rows /\ walk' = walk /\ changed' = changed /\ lowered' = lowered /\ stats' = stats
      /\ clock' \in 0 .. MaxTime
  BY Numbers DEF ListingInv, Listing!TypeOK, Listing!Tick, Listing!history, listing
<1>2. Listing!TypeOK'
  BY <1>1 DEF ListingInv, Listing!TypeOK
<1>3. WalkInv'
  BY <1>1 DEF ListingInv, WalkInv, Disordered, Awaited, Exact, Matching, Ahead,
              Listing!Listing, Listing!Stored, Listing!Before
<1>4. StatsInv'
  BY <1>1 DEF ListingInv, StatsInv, Listing!Stored
<1>. QED
  BY <1>2, <1>3, <1>4 DEF ListingInv

\* What an event does to the row of its group, and to no other.
LEMMA IngestRow ==
  ASSUME Listing!TypeOK, NEW g \in Groups, Listing!Ingest(g)
  PROVE  /\ RowsTyped'
         /\ \A h \in Groups \ {g} : rows'[h] = rows[h]
         /\ rows'[g].count = rows[g].count + 1
         /\ rows[g].count > 0 => rows'[g].first = rows[g].first
         /\ rows[g].count = 0 => rows'[g].first = rows'[g].last
         /\ lowered' = (lowered \/ rows[g].last > rows'[g].last)
         /\ changed' = changed \cup {g} /\ UNCHANGED <<clock, walk, stats>>
<1>1. RowsTyped
  BY ReadersTyped
<1>2. PICK now \in 0 .. clock :
        /\ rows' = [rows EXCEPT ![g] = [count |-> rows[g].count + 1, last |-> now,
                                        first |-> IF rows[g].count = 0 THEN now ELSE rows[g].first]]
        /\ lowered' = (lowered \/ rows[g].last > now)
  BY DEF Listing!Ingest
<1>3. rows[g].count < MaxCount /\ changed' = changed \cup {g} /\ UNCHANGED <<clock, walk, stats>>
  BY DEF Listing!Ingest
<1>4. now \in 0 .. MaxTime
  BY Numbers DEF Listing!TypeOK
<1>5. rows'[g] = [count |-> rows[g].count + 1, last |-> now,
                  first |-> IF rows[g].count = 0 THEN now ELSE rows[g].first]
  BY <1>1, <1>2 DEF RowsTyped
<1>6. \A h \in Groups \ {g} : rows'[h] = rows[h]
  BY <1>1, <1>2 DEF RowsTyped
<1>7. RowsTyped'
  <2>1. rows'[g] \in Listing!Row
    BY <1>1, <1>3, <1>4, <1>5, RowTyped, Numbers DEF Listing!Row
  <2>2. DOMAIN rows' = Groups /\ rows' = [h \in Groups |-> rows'[h]]
    BY <1>1, <1>2 DEF RowsTyped
  <2>3. \A h \in Groups : rows'[h] \in Listing!Row
    BY <1>1, <1>6, <2>1 DEF RowsTyped
  <2>. QED
    BY <2>2, <2>3 DEF RowsTyped
<1>. QED
  BY <1>2, <1>3, <1>5, <1>6, <1>7

\* While events arrive, nothing that is stored goes away.
LEMMA IngestStores ==
  ASSUME Listing!TypeOK, NEW g \in Groups, Listing!Ingest(g)
  PROVE  /\ Listing!Stored \subseteq Listing!Stored'
         /\ Cardinality(Listing!Stored) <= Cardinality(Listing!Stored')
<1>1. RowsTyped /\ RowsTyped'
  BY ReadersTyped, IngestRow
<1>2. ASSUME NEW h \in Listing!Stored PROVE h \in Listing!Stored'
  <2>1. h \in Groups /\ rows[h].count > 0 /\ rows[h].count \in Nat
    BY <1>1, RowTyped DEF Listing!Stored
  <2>2. rows'[h].count > 0
    BY <2>1, IngestRow
  <2>. QED
    BY <2>1, <2>2 DEF Listing!Stored
<1>3. Listing!Stored' \in SUBSET Groups
  BY DEF Listing!Stored
<1>4. IsFiniteSet(Listing!Stored')
  BY <1>3, Numbers, FS_Subset
<1>. QED
  BY <1>2, <1>4, FS_Subset

\* An event of one group moves no group ahead of it back behind another: what
\* was ahead of g stays ahead, unless last_seen is taken back.
LEMMA IngestAhead ==
  ASSUME Listing!TypeOK, NEW f \in Groups, Listing!Ingest(f),
         NEW q \in Queries, NEW g \in Matching(q), g # f, ~(lowered' /\ q.sort = "last_seen")
  PROVE  Cardinality(Ahead(q, g)) <= Cardinality(Ahead(q, g)')
<1>1. RowsTyped /\ g \in Groups /\ rows'[g] = rows[g]
  BY ReadersTyped, MatchingTyped, IngestRow
<1>2. ASSUME NEW h \in Ahead(q, g) PROVE h \in Ahead(q, g)'
  <2>1. h \in Matching(q) /\ Listing!Before(q, h, g) /\ h \in Groups
    BY MatchingTyped DEF Ahead
  <2>2. h \in Matching(q)'
    BY <2>1, IngestStores DEF Matching
  <2>3. CASE h # f
    <3>1. rows'[h] = rows[h]
      BY <2>1, <2>3, IngestRow
    <3>2. Listing!Before(q, h, g)'
      BY <1>1, <2>1, <3>1 DEF Listing!Before
    <3>. QED
      BY <2>2, <3>2 DEF Ahead
  <2>4. CASE h = f
    <3>1. q.sort \in {"last_seen", "count"}
      BY DEF Listing!BrowseAssumption
    <3>2. /\ rows'[h].count = rows[h].count + 1
          /\ ~lowered' => ~(rows[h].last > rows'[h].last)
      BY <2>4, IngestRow
    <3>3. /\ rows[h].count \in Nat /\ rows[g].count \in Nat /\ rows[h].last \in Nat /\ rows[g].last \in Nat
          /\ rows'[h].last \in Nat /\ h \in Nat /\ g \in Nat
      <4>1. rows'[h] \in Listing!Row
        BY <2>1, IngestRow DEF RowsTyped
      <4>2. rows'[h].last \in Nat
        BY <4>1, Numbers DEF Listing!Row
      <4>3. \A x \in Groups : rows[x].count \in Nat /\ rows[x].last \in Nat /\ x \in Nat
        BY <1>1, RowTyped
      <4>. QED
        BY <1>1, <2>1, <4>2, <4>3
    <3>4. CASE q.sort = "count"
      <4>1. rows[h].count >= rows[g].count
        BY <2>1, <3>3, <3>4 DEF Listing!Before
      <4>2. rows'[h].count > rows'[g].count
        BY <1>1, <3>2, <3>3, <4>1
      <4>. QED
        BY <2>2, <3>4, <4>2 DEF Ahead, Listing!Before
    <3>5. CASE q.sort = "last_seen"
      <4>1. rows[h].last <= rows'[h].last
        BY <3>2, <3>3, <3>5
      <4>2. rows[h].last > rows[g].last \/ (rows[h].last = rows[g].last /\ h < g)
        BY <2>1, <3>5 DEF Listing!Before
      <4>3. rows'[h].last > rows'[g].last \/ (rows'[h].last = rows'[g].last /\ h < g)
        BY <1>1, <3>3, <4>1, <4>2
      <4>. QED
        BY <2>2, <3>5, <4>3 DEF Ahead, Listing!Before
    <3>. QED
      BY <3>1, <3>4, <3>5
  <2>. QED
    BY <2>3, <2>4
<1>3. Ahead(q, g)' \in SUBSET Groups
  BY DEF Ahead, Matching, Listing!Stored
<1>4. IsFiniteSet(Ahead(q, g)')
  BY <1>3, Numbers, FS_Subset
<1>. QED
  BY <1>2, <1>4, FS_Subset

\* The least and the greatest of some times.
LEMMA Extremes ==
  ASSUME NEW S, S \subseteq 0 .. MaxTime, S # {}
  PROVE  /\ Listing!Least(S) \in S /\ \A x \in S : Listing!Least(S) <= x
         /\ Listing!Greatest(S) \in S /\ \A x \in S : x <= Listing!Greatest(S)
<1>. DEFINE R == {p \in S \X S : p[1] < p[2]}
            n == Cardinality(S)
<1>1. S \subseteq Int /\ IsFiniteSet(S) /\ n \in Nat /\ n # 0
  <2>1. IsFiniteSet(0 .. MaxTime) /\ S \in SUBSET (0 .. MaxTime)
    BY Numbers, FS_Interval
  <2>. QED
    <3>1. IsFiniteSet(S)
      BY <2>1, FS_Subset
    <3>2. n \in Nat /\ n # 0
      BY <3>1, FS_CardinalityType, FS_EmptySet
    <3>. QED
      BY <3>1, <3>2, Numbers
<1>2. \A x, y \in S : <<x, y>> \in R <=> x < y
  OBVIOUS
<1>. HIDE DEF R
<1>3. Orders(R, S)
  BY <1>1, <1>2 DEF Orders
<1>4. PICK s : Lines(s, R, S)
  BY <1>1, <1>3, LineExists
<1>. HIDE DEF n
<1>5. s \in [1 .. n -> S] /\ \A i, j \in 1 .. n : i < j => s[i] < s[j]
  BY <1>2, <1>4 DEF Lines, n
<1>6. \A x \in S : \E i \in 1 .. n : s[i] = x
  BY <1>1, <1>3, <1>4, LinePlaces DEF n
<1>7. 1 \in 1 .. n /\ n \in 1 .. n
  BY <1>1
<1>8. ASSUME NEW i \in 1 .. n PROVE s[1] <= s[i] /\ s[i] <= s[n]
  <2>1. s[i] \in Int /\ s[1] \in Int /\ s[n] \in Int
    BY <1>1, <1>5, <1>7
  <2>2. i = 1 \/ 1 < i
    BY <1>1
  <2>3. i = n \/ i < n
    BY <1>1
  <2>. QED
    BY <1>5, <1>7, <2>1, <2>2, <2>3
<1>9. s[1] \in S /\ s[n] \in S /\ \A x \in S : s[1] <= x /\ x <= s[n]
  BY <1>5, <1>6, <1>7, <1>8
<1>10. /\ Listing!Least(S) = CHOOSE x \in S : \A y \in S : x <= y
       /\ Listing!Greatest(S) = CHOOSE x \in S : \A y \in S : x >= y
  BY DEF Listing!Least, Listing!Greatest
<1>11. Listing!Least(S) \in S /\ \A x \in S : Listing!Least(S) <= x
  BY <1>9, <1>10
<1>12. Listing!Greatest(S) \in S /\ \A x \in S : Listing!Greatest(S) >= x
  <2>1. \A x \in S : s[n] >= x
    BY <1>1, <1>9
  <2>. QED
    BY <1>9, <1>10, <2>1
<1>. QED
  BY <1>1, <1>11, <1>12

\* An event arrives.
LEMMA IngestKeeps ==
  ASSUME ListingInv, NEW f \in Groups, Listing!Ingest(f)
  PROVE  ListingInv'
<1>0. Listing!TypeOK /\ WalkInv /\ StatsInv
  BY DEF ListingInv
<1>1. /\ RowsTyped' /\ changed' = changed \cup {f} /\ UNCHANGED <<clock, walk, stats>>
      /\ lowered' = (lowered \/ rows[f].last > rows'[f].last)
  BY <1>0, IngestRow
<1>2. Listing!TypeOK'
  <2>1. changed' \subseteq Groups /\ lowered' \in BOOLEAN
    BY <1>0, <1>1 DEF Listing!TypeOK
  <2>. QED
    BY <1>0, <1>1, <2>1 DEF Listing!TypeOK, RowsTyped
<1>3. WalkInv'
  <2>1. /\ walk.pc = "none" \/ stats.pc = Listing!Never
        /\ walk.pc # "failed"
        /\ walk.pc = "idle" => walk.offset = 0 /\ walk.shown = << >>
    BY <1>0 DEF WalkInv
  <2>2. ASSUME walk.pc \in {"reading", "done"}
        PROVE  /\ Listing!ToSet(walk.before) \subseteq Matching(walk.query)'
               /\ ~Disordered' => \A g \in Listing!ToSet(walk.before) \ changed' : Awaited(g)'
    <3>1. PICK q \in Queries : q = walk.query
      BY <1>0, ReadersTyped
    <3>2. Matching(q) \subseteq Matching(q)'
      BY <1>0, IngestStores DEF Matching
    <3>3. Listing!ToSet(walk.before) \subseteq Matching(q)
      BY <1>0, <2>2, <3>1 DEF WalkInv
    <3>4. ASSUME ~Disordered', NEW g \in Listing!ToSet(walk.before) \ changed'
          PROVE  Awaited(g)'
      <4>1. ~(lowered' /\ q.sort = "last_seen") /\ ~Disordered
        BY <1>0, <1>1, <3>1, <3>4 DEF Disordered, Listing!TypeOK
      <4>2. g # f /\ g \in Listing!ToSet(walk.before) \ changed /\ g \in Matching(q)
        BY <1>1, <3>3, <3>4
      <4>3. Awaited(g)
        BY <1>0, <2>2, <4>1, <4>2 DEF WalkInv
      <4>4. Cardinality(Ahead(q, g)) <= Cardinality(Ahead(q, g)')
        BY <1>0, <4>1, <4>2, IngestAhead
      <4>5. Cardinality(Ahead(q, g)) \in Nat
        BY AheadTyped
      <4>6. Cardinality(Ahead(q, g)') \in Nat
        <5>1. Ahead(q, g)' \in SUBSET Groups
          BY DEF Ahead, Matching, Listing!Stored
        <5>. QED
          BY <5>1, Numbers, FS_Subset, FS_CardinalityType
      <4>7. walk.offset \in Nat
        BY <1>0, ReadersTyped
      <4>8. CASE g \in Listing!ToSet(walk.shown)
        BY <1>1, <4>8 DEF Awaited
      <4>9. CASE walk.pc = "reading" /\ walk.offset <= Cardinality(Ahead(q, g))
        <5>1. walk.offset <= Cardinality(Ahead(q, g)')
          BY <4>4, <4>5, <4>6, <4>7, <4>9
        <5>2. walk'.query = q /\ walk'.offset = walk.offset /\ walk'.pc = "reading"
          BY <1>1, <3>1, <4>9
        <5>3. Ahead(walk.query, g)' = Ahead(q, g)'
          BY <5>2 DEF Ahead, Matching, Listing!Before
        <5>. QED
          BY <5>1, <5>2, <5>3 DEF Awaited
      <4>. QED
        BY <3>1, <4>3, <4>8, <4>9 DEF Awaited
    <3>5. Matching(walk.query)' = Matching(q)'
      BY <1>1, <3>1 DEF Matching
    <3>. QED
      BY <3>2, <3>3, <3>4, <3>5
  <2>3. changed' # {}
    BY <1>1
  <2>. QED
    BY <1>1, <2>1, <2>2, <2>3 DEF WalkInv, Listing!Never
<1>4. StatsInv'
  <2>1. /\ Listing!Stored \subseteq Listing!Stored'
        /\ Cardinality(Listing!Stored) <= Cardinality(Listing!Stored')
    BY <1>0, IngestStores
  <2>2. Cardinality(Listing!Stored) \in Nat /\ Cardinality(Listing!Stored') \in Nat
    <3>1. Listing!Stored' \in SUBSET Groups
      BY DEF Listing!Stored
    <3>. QED
      BY <3>1, StoredTyped, Numbers, FS_Subset, FS_CardinalityType
  <2>3. stats.unique <= Cardinality(Listing!Stored')
    BY <1>0, <2>1, <2>2, ReadersTyped DEF StatsInv
  <2>4. ASSUME walk.pc = "none", ~lowered'
        PROVE  /\ \A g \in Listing!Stored' : rows'[g].first <= rows'[g].last
               /\ stats.first # Listing!Never => \E g \in Listing!Stored' : rows'[g].first = stats.first
               /\ stats.first # Listing!Never /\ stats.last # Listing!Never /\ stats.pc = 4 =>
                    stats.first <= stats.last
    <3>1. ~lowered /\ ~(rows[f].last > rows'[f].last)
      BY <1>0, <1>1, <2>4 DEF Listing!TypeOK
    <3>2. /\ \A g \in Listing!Stored : rows[g].first <= rows[g].last
          /\ stats.first # Listing!Never => \E g \in Listing!Stored : rows[g].first = stats.first
          /\ stats.first # Listing!Never /\ stats.last # Listing!Never /\ stats.pc = 4 =>
               stats.first <= stats.last
      BY <1>0, <2>4, <3>1 DEF StatsInv
    <3>3. \A g \in Groups : rows[g].count \in Nat /\ rows[g].first \in Nat /\ rows[g].last \in Nat
      BY <1>0, ReadersTyped, RowTyped
    <3>4. rows'[f].first \in Nat /\ rows'[f].last \in Nat
      <4>1. rows'[f] \in Listing!Row
        BY <1>1 DEF RowsTyped
      <4>. QED
        BY <4>1, Numbers DEF Listing!Row
    <3>5. ASSUME NEW g \in Listing!Stored PROVE rows'[g].first = rows[g].first
      <4>1. g \in Groups /\ rows[g].count > 0
        BY DEF Listing!Stored
      <4>. QED
        BY <1>0, <4>1, IngestRow
    <3>6. ASSUME NEW g \in Listing!Stored' PROVE rows'[g].first <= rows'[g].last
      <4>1. g \in Groups /\ rows'[g].count > 0
        BY DEF Listing!Stored
      <4>2. CASE g # f
        <5>1. rows'[g] = rows[g]
          BY <1>0, <4>1, <4>2, IngestRow
        <5>. QED
          BY <3>2, <4>1, <5>1 DEF Listing!Stored
      <4>3. CASE g = f /\ rows[f].count > 0
        <5>1. f \in Listing!Stored
          BY <4>3 DEF Listing!Stored
        <5>2. rows[f].first <= rows[f].last /\ rows'[f].first = rows[f].first
          BY <3>2, <3>5, <5>1
        <5>. QED
          BY <3>1, <3>3, <3>4, <4>3, <5>2
      <4>4. CASE g = f /\ rows[f].count = 0
        <5>1. rows'[f].first = rows'[f].last
          BY <1>0, <4>4, IngestRow
        <5>. QED
          BY <3>4, <4>4, <5>1
      <4>. QED
        BY <3>3, <4>1, <4>2, <4>3, <4>4
    <3>. QED
      BY <2>1, <3>2, <3>5, <3>6
  <2>. QED
    BY <1>0, <1>1, <2>3, <2>4 DEF StatsInv, Listing!Never
<1>. QED
  BY <1>2, <1>3, <1>4 DEF ListingInv

\* The walk begins.
LEMMA StartKeeps ==
  ASSUME ListingInv, Listing!Start
  PROVE  ListingInv'
<1>0. Listing!TypeOK /\ WalkInv /\ StatsInv /\ RowsTyped
  BY ReadersTyped DEF ListingInv
<1>1. PICK q \in Queries : q = walk.query
  BY <1>0, ReadersTyped
<1>2. PICK L \in Seq(Groups) :
        /\ L = Listing!Listing(q) /\ L \in [1 .. Cardinality(Matching(q)) -> Matching(q)]
        /\ Len(L) = Cardinality(Matching(q))
  BY <1>0, ListingPlaces
<1>3. /\ walk.pc = "idle" /\ changed' = {} /\ lowered' = FALSE
      /\ rows' = rows /\ clock' = clock /\ stats' = stats
      /\ walk' = [[walk EXCEPT !.pc = "reading"] EXCEPT !.before = L]
  BY <1>0, <1>1, <1>2 DEF Listing!Start, Listing!TypeOK, Listing!Walk
<1>4. /\ walk'.pc = "reading" /\ walk'.before = L /\ walk'.query = q
      /\ walk'.offset = 0 /\ walk'.shown = << >>
  BY <1>0, <1>1, <1>3 DEF WalkInv, Listing!TypeOK, Listing!Walk
<1>5. Listing!TypeOK'
  <2>1. walk' \in Listing!Walk
    BY <1>0, <1>2, <1>3 DEF Listing!TypeOK, Listing!Walk
  <2>2. changed' \subseteq Groups /\ lowered' \in BOOLEAN
    BY <1>3
  <2>. QED
    BY <1>0, <1>3, <2>1, <2>2 DEF Listing!TypeOK
<1>6. Listing!Listing(q)' = L /\ Matching(q)' = Matching(q)
  <2>1. rows' = rows
    BY <1>3
  <2>2. Listing!Listing(q)' = Listing!Listing(q)
    BY <2>1 DEF Listing!Listing, Listing!Stored, Listing!Before
  <2>. QED
    BY <1>2, <2>1, <2>2 DEF Matching, Listing!Stored
<1>7. WalkInv'
  <2>1. stats.pc = Listing!Never
    BY <1>0, <1>3 DEF WalkInv
  <2>2. Listing!ToSet(L) \subseteq Matching(q)
    BY <1>2 DEF Listing!ToSet
  <2>3. ASSUME NEW g PROVE Awaited(g)'
    <3>1. Cardinality(Ahead(walk.query, g)') \in Nat
      <4>1. Ahead(walk.query, g)' \in SUBSET Groups
        BY DEF Ahead, Matching, Listing!Stored
      <4>. QED
        BY <4>1, Numbers, FS_Subset, FS_CardinalityType
    <3>. QED
      BY <1>4, <3>1 DEF Awaited
  <2>4. Exact'
    <3>1. SubSeq(L, 1, 0) = << >> /\ 0 <= Len(L)
      BY <1>2, SubSeqEmpty
    <3>2. Listing!Listing(walk.query)' = L
      <4>1. walk'.query = q
        BY <1>4
      <4>2. Listing!Listing(walk.query)' = Listing!Listing(q)'
        BY <4>1 DEF Listing!Listing, Listing!Before
      <4>. QED
        BY <1>6, <4>2
    <3>. QED
      BY <1>4, <3>1, <3>2 DEF Exact
  <2>5. Matching(walk.query)' = Matching(q)
    BY <1>4, <1>6 DEF Matching
  <2>. QED
    BY <1>3, <1>4, <2>1, <2>2, <2>3, <2>4, <2>5 DEF WalkInv, Listing!Never
<1>8. StatsInv'
  <2>1. Listing!Stored' = Listing!Stored
    BY <1>3 DEF Listing!Stored
  <2>. QED
    BY <1>0, <1>3, <1>4, <2>1 DEF StatsInv, Listing!Never
<1>. QED
  BY <1>5, <1>7, <1>8 DEF ListingInv

\* A group whose place lies behind the offset is on the page or still awaited.
LEMMA PageShows ==
  ASSUME RowsTyped, NEW q \in Queries, NEW offset \in Nat, NEW page,
         Cut(page, Listing!Listing(q), offset, q.limit),
         NEW g \in Matching(q), offset <= Cardinality(Ahead(q, g))
  PROVE  \/ g \in Listing!ToSet(page.errors)
         \/ page.more /\ offset + Len(page.errors) <= Cardinality(Ahead(q, g))
<1>1. PICK L \in Seq(Groups) : L = Listing!Listing(q) /\ Len(L) = Cardinality(Matching(q))
  BY ListingPlaces
<1>2. PICK i \in 1 .. Len(L) : L[i] = g /\ Cardinality(Ahead(q, g)) = i - 1
  BY <1>1, ListingPlaces
<1>3. offset < Len(L)
  BY <1>1, <1>2
<1>4. PICK k \in Nat : k = Len(page.errors)
  BY DEF Cut
<1>5. /\ \A j \in 1 .. k : page.errors[j] = L[offset + j]
      /\ ~page.more => offset + k = Len(L)
      /\ page.errors \in Seq(Groups)
  BY <1>1, <1>3, <1>4 DEF Cut
<1>6. CASE i <= offset + k
  <2>1. i - offset \in 1 .. k /\ offset + (i - offset) = i
    BY <1>2, <1>6
  <2>2. page.errors[i - offset] = g
    BY <1>2, <1>5, <2>1
  <2>3. i - offset \in DOMAIN page.errors
    BY <1>4, <1>5, <2>1
  <2>. QED
    BY <2>2, <2>3 DEF Listing!ToSet
<1>7. CASE ~(i <= offset + k)
  <2>1. offset + k # Len(L) /\ offset + k <= i - 1
    BY <1>1, <1>2, <1>7
  <2>. QED
    BY <1>2, <1>4, <1>5, <2>1
<1>. QED
  BY <1>6, <1>7

\* What is shown stays shown when a page is added, and the page is shown too.
LEMMA ShownGrows ==
  ASSUME NEW a \in Seq(Groups), NEW b \in Seq(Groups)
  PROVE  Listing!ToSet(a) \cup Listing!ToSet(b) \subseteq Listing!ToSet(a \o b)
<1>1. ASSUME NEW i \in DOMAIN a PROVE i \in DOMAIN (a \o b) /\ (a \o b)[i] = a[i]
  BY <1>1
<1>2. ASSUME NEW i \in DOMAIN b PROVE Len(a) + i \in DOMAIN (a \o b) /\ (a \o b)[Len(a) + i] = b[i]
  BY <1>2
<1>. QED
  BY <1>1, <1>2 DEF Listing!ToSet

\* A page is read.
LEMMA ReadPageKeeps ==
  ASSUME ListingInv, Listing!ReadPage
  PROVE  ListingInv'
<1>0. Listing!TypeOK /\ WalkInv /\ StatsInv /\ RowsTyped
  BY ReadersTyped DEF ListingInv
<1>1. PICK q \in Queries, offset \in Nat : q = walk.query /\ offset = walk.offset
  BY <1>0, ReadersTyped
<1>2. PICK L \in Seq(Groups) :
        L = Listing!Listing(q) /\ Len(L) = Cardinality(Matching(q)) /\ Len(L) <= Cardinality(Groups)
  BY <1>0, ListingPlaces, MatchingTyped
<1>3. PICK page : page = Listing!Page(q, offset)
  OBVIOUS
<1>4. Cut(page, L, offset, q.limit) /\ Listing!Consistent(q, page)
  BY <1>0, <1>2, <1>3, PageCut
<1>5. PICK k \in Nat : k = Len(page.errors) /\ page.errors \in Seq(Groups)
  BY <1>4 DEF Cut
<1>6. /\ walk.pc = "reading" /\ UNCHANGED <<clock, rows, changed, lowered, stats>>
      /\ walk' = [[[walk EXCEPT !.pc = IF page.more THEN "reading" ELSE "done"]
                         EXCEPT !.offset = offset + k]
                         EXCEPT !.shown = walk.shown \o page.errors]
  <2>1. /\ walk.pc = "reading" /\ UNCHANGED <<clock, rows, changed, lowered, stats>>
        /\ walk' = [walk EXCEPT !.pc = IF page.more THEN walk.pc ELSE "done",
                               !.offset = offset + k, !.shown = walk.shown \o page.errors]
    BY <1>1, <1>3, <1>4, <1>5 DEF Listing!ReadPage, Listing!NextOffset, Listing!history
  <2>. QED
    BY <1>0, <2>1 DEF Listing!TypeOK, Listing!Walk
<1>7. /\ walk'.pc = (IF page.more THEN "reading" ELSE "done") /\ walk'.offset = offset + k
      /\ walk'.shown = walk.shown \o page.errors
      /\ walk'.query = q /\ walk'.before = walk.before
  BY <1>0, <1>1, <1>6 DEF Listing!TypeOK, Listing!Walk
<1>8. offset + k <= Cardinality(Groups) /\ (offset <= Len(L) => offset + k <= Len(L))
  <2>1. offset <= Cardinality(Groups)
    BY <1>0, <1>1, ReadersTyped
  <2>2. CASE offset >= Len(L)
    <3>1. k = 0
      BY <1>4, <1>5, <2>2 DEF Cut
    <3>. QED
      BY <1>2, <2>1, <3>1
  <2>3. CASE offset < Len(L)
    <3>1. offset + k <= Len(L)
      BY <1>4, <1>5, <2>3 DEF Cut
    <3>. QED
      BY <1>2, <1>5, <3>1, Numbers
  <2>. QED
    BY <1>2, <2>2, <2>3
<1>9. walk.shown \in Seq(Groups) /\ walk.before \in Seq(Groups)
  BY <1>0, ReadersTyped
<1>10. Listing!TypeOK'
  <2>1. walk' \in Listing!Walk
    <3>1. (walk.shown \o page.errors) \in Seq(Groups)
      BY <1>5, <1>9
    <3>2. offset + k \in 0 .. Listing!Cardinality(Groups)
      BY <1>8, Numbers
    <3>. QED
      BY <1>0, <1>6, <3>1, <3>2 DEF Listing!TypeOK, Listing!Walk
  <2>. QED
    BY <1>0, <1>6, <2>1 DEF Listing!TypeOK
<1>11. Listing!Listing(walk.query)' = L /\ Matching(walk.query)' = Matching(q)
  <2>1. rows' = rows
    BY <1>6
  <2>2. Listing!Listing(q)' = Listing!Listing(q)
    BY <2>1 DEF Listing!Listing, Listing!Stored, Listing!Before
  <2>3. walk'.query = q
    BY <1>7
  <2>4. Listing!Listing(walk.query)' = Listing!Listing(q)'
    BY <2>3 DEF Listing!Listing, Listing!Before
  <2>. QED
    BY <1>2, <2>1, <2>2, <2>3, <2>4 DEF Matching, Listing!Stored
<1>12. WalkInv'
  <2>1. stats.pc = Listing!Never /\ Listing!ToSet(walk.before) \subseteq Matching(q)
    BY <1>0, <1>1, <1>6 DEF WalkInv
  <2>2. ASSUME ~Disordered', NEW g \in Listing!ToSet(walk.before) \ changed PROVE Awaited(g)'
    <3>1. ~Disordered
      BY <1>1, <1>6, <1>7, <2>2 DEF Disordered
    <3>2. Awaited(g) /\ g \in Matching(q)
      BY <1>0, <1>6, <2>1, <2>2, <3>1 DEF WalkInv
    <3>3. Listing!ToSet(walk.shown) \cup Listing!ToSet(page.errors) \subseteq Listing!ToSet(walk'.shown)
      BY <1>5, <1>7, <1>9, ShownGrows
    <3>4. CASE g \in Listing!ToSet(walk.shown)
      BY <3>3, <3>4 DEF Awaited
    <3>5. CASE offset <= Cardinality(Ahead(q, g))
      <4>1. \/ g \in Listing!ToSet(page.errors)
            \/ page.more /\ offset + k <= Cardinality(Ahead(q, g))
        BY <1>0, <1>2, <1>4, <1>5, <3>2, <3>5, PageShows
      <4>2. Ahead(walk.query, g)' = Ahead(q, g)
        <5>1. rows' = rows /\ walk'.query = q
          BY <1>6, <1>7
        <5>. QED
          BY <5>1 DEF Ahead, Matching, Listing!Stored, Listing!Before
      <4>. QED
        BY <1>7, <3>3, <4>1, <4>2 DEF Awaited
    <3>. QED
      BY <1>1, <3>2, <3>4, <3>5 DEF Awaited
  <2>3. ASSUME changed = {} PROVE Exact'
    <3>1. walk.before = L /\ offset <= Len(L) /\ walk.shown = SubSeq(L, 1, offset)
      BY <1>0, <1>1, <1>2, <1>6, <2>3 DEF WalkInv, Exact
    <3>2. offset + k <= Len(L)
      BY <1>8, <3>1
    <3>3. walk'.shown = SubSeq(L, 1, offset + k)
      <4>1. page.errors = SubSeq(L, offset + 1, offset + k)
        <5>1. CASE offset >= Len(L)
          <6>1. k = 0 /\ page.errors = << >>
            BY <1>4, <1>5, <5>1 DEF Cut
          <6>2. SubSeq(L, offset + 1, offset) = << >>
            BY SubSeqEmpty
          <6>. QED
            BY <6>1, <6>2
        <5>2. CASE offset < Len(L)
          BY <1>4, <1>5, <5>2 DEF Cut
        <5>. QED
          BY <1>2, <5>1, <5>2
      <4>. QED
        BY <1>7, <3>1, <3>2, <4>1, FrontGrows
    <3>4. ~page.more => offset + k = Len(L)
      <4>1. CASE offset >= Len(L)
        BY <1>2, <3>1, <3>2, <4>1
      <4>2. CASE offset < Len(L)
        BY <1>4, <1>5, <4>2 DEF Cut
      <4>. QED
        BY <1>2, <4>1, <4>2
    <3>. QED
      BY <1>7, <1>11, <3>1, <3>2, <3>3, <3>4 DEF Exact
  <2>. QED
    BY <1>6, <1>7, <1>11, <2>1, <2>2, <2>3 DEF WalkInv, Listing!Never
<1>13. StatsInv'
  <2>1. Listing!Stored' = Listing!Stored
    BY <1>6 DEF Listing!Stored
  <2>. QED
    BY <1>0, <1>6, <1>7, <2>1 DEF StatsInv, Listing!Never
<1>. QED
  BY <1>10, <1>12, <1>13 DEF ListingInv

\* The next statement of the statistics succeeds.
StatementDone == stats' = [Listing!Statement EXCEPT !.pc = Listing!Statement.pc + 1]

\* What a statement that succeeds finds: how many groups there are, the earliest first_seen
\* and the latest last_seen.
LEMMA StatementFinds ==
  ASSUME Listing!TypeOK, stats.pc \in 0 .. 3, StatementDone
  PROVE  /\ stats' \in Listing!Stats /\ stats'.pc = stats.pc + 1 /\ stats'.untold = stats.untold
         /\ stats'.unique = IF stats.pc = 0 THEN Cardinality(Listing!Stored) ELSE stats.unique
         /\ stats'.first = IF stats.pc = 2 THEN Listing!Least(Listing!Values("first")) ELSE stats.first
         /\ stats'.last = IF stats.pc = 3 THEN Listing!Greatest(Listing!Values("last")) ELSE stats.last
<1>0. /\ stats.pc \in 0 .. 3
      /\ stats' = [Listing!Statement EXCEPT !.pc = Listing!Statement.pc + 1]
  BY DEF StatementDone
<1>1. stats = [pc |-> stats.pc, unique |-> stats.unique, first |-> stats.first, last |-> stats.last,
              untold |-> stats.untold]
  BY DEF Listing!TypeOK, Listing!Stats
<1>2. /\ stats.unique \in Nat /\ stats.first \in {Listing!Never} \cup Nat
      /\ stats.last \in {Listing!Never} \cup Nat /\ stats.untold \in SUBSET {"first", "last"}
  BY ReadersTyped DEF Listing!TypeOK, Listing!Stats
<1>. DEFINE least == Listing!Least(Listing!Values("first"))
            greatest == Listing!Greatest(Listing!Values("last"))
<1>3. least \in {Listing!Never} \cup Nat /\ greatest \in {Listing!Never} \cup Nat
  <2>1. /\ Listing!Values("first") \subseteq 0 .. MaxTime
        /\ Listing!Values("last") \subseteq 0 .. MaxTime
    <3>1. ASSUME NEW g \in Listing!Stored
          PROVE  rows[g].first \in 0 .. MaxTime /\ rows[g].last \in 0 .. MaxTime
      <4>1. g \in Groups
        BY DEF Listing!Stored
      <4>2. rows[g] \in Listing!Row
        BY <4>1 DEF Listing!TypeOK
      <4>. QED
        BY <4>2 DEF Listing!Row
    <3>. QED
      BY <3>1 DEF Listing!Values
  <2>2. Listing!Values("first") # {} => least \in Nat
    BY <2>1, Extremes, Numbers
  <2>3. Listing!Values("last") # {} => greatest \in Nat
    BY <2>1, Extremes, Numbers
  <2>4. /\ Listing!Values("first") = {} => least = Listing!Never
        /\ Listing!Values("last") = {} => greatest = Listing!Never
    BY DEF Listing!Least, Listing!Greatest
  <2>. QED
    BY <2>2, <2>3, <2>4
<1>. HIDE DEF least, greatest
<1>4. stats' = [pc |-> stats.pc + 1,
               unique |-> IF stats.pc = 0 THEN Cardinality(Listing!Stored) ELSE stats.unique,
               first |-> IF stats.pc = 2 THEN least ELSE stats.first,
               last |-> IF stats.pc = 3 THEN greatest ELSE stats.last,
               untold |-> stats.untold]
  <2>. DEFINE found == [pc |-> stats.pc,
                        unique |-> IF stats.pc = 0 THEN Cardinality(Listing!Stored) ELSE stats.unique,
                        first |-> IF stats.pc = 2 THEN least ELSE stats.first,
                        last |-> IF stats.pc = 3 THEN greatest ELSE stats.last,
                        untold |-> stats.untold]
  <2>0. Listing!Statement = CASE stats.pc = 0 -> [stats EXCEPT !.unique = Cardinality(Listing!Stored)]
                              [] stats.pc = 1 -> stats
                              [] stats.pc = 2 -> [stats EXCEPT !.first = least]
                              [] stats.pc = 3 -> [stats EXCEPT !.last = greatest]
    BY SameCardinality DEF Listing!Statement, least, greatest
  <2>1. CASE stats.pc = 0
    <3>1. Listing!Statement = [stats EXCEPT !.unique = Cardinality(Listing!Stored)]
      BY <2>0, <2>1
    <3>2. Listing!Statement = found
      BY <1>1, <2>1, <3>1
    <3>. QED
      BY <1>0, <3>2
  <2>2. CASE stats.pc = 1
    <3>1. Listing!Statement = found
      BY <1>1, <2>0, <2>2
    <3>. QED
      BY <1>0, <3>1
  <2>3. CASE stats.pc = 2
    <3>1. Listing!Statement = [stats EXCEPT !.first = least]
      BY <2>0, <2>3
    <3>2. Listing!Statement = found
      BY <1>1, <2>3, <3>1
    <3>. QED
      BY <1>0, <3>2
  <2>4. CASE stats.pc = 3
    <3>1. Listing!Statement = [stats EXCEPT !.last = greatest]
      BY <2>0, <2>4
    <3>2. Listing!Statement = found
      BY <1>1, <2>4, <3>1
    <3>. QED
      BY <1>0, <3>2
  <2>. QED
    BY <1>0, <2>1, <2>2, <2>3, <2>4
<1>5. stats' \in Listing!Stats
  <2>1. stats.pc + 1 \in Listing!Never .. 5
    BY <1>0 DEF Listing!Never
  <2>2. /\ (IF stats.pc = 0 THEN Cardinality(Listing!Stored) ELSE stats.unique) \in Nat
        /\ (IF stats.pc = 2 THEN least ELSE stats.first) \in {Listing!Never} \cup Nat
        /\ (IF stats.pc = 3 THEN greatest ELSE stats.last) \in {Listing!Never} \cup Nat
    BY <1>2, <1>3, StoredTyped
  <2>. QED
    BY <1>2, <1>4, <2>1, <2>2 DEF Listing!Stats
<1>. QED
  BY <1>0, <1>4, <1>5 DEF least, greatest

\* What is left of the statistics when a statement fails: what was found before,
\* and an error, or the time that is not told.
LEMMA StatementFailing ==
  ASSUME Listing!TypeOK, stats.pc \in 0 .. 3, stats' = Listing!StatementFails
  PROVE  /\ stats' \in Listing!Stats
         /\ stats'.unique = stats.unique /\ stats'.first = stats.first /\ stats'.last = stats.last
         /\ stats'.pc = IF stats.pc \in 0 .. 1 THEN 5 ELSE stats.pc + 1
         /\ stats'.untold = stats.untold \cup (CASE stats.pc = 2 -> {"first"}
                                              [] stats.pc = 3 -> {"last"}
                                              [] OTHER -> {})
<1>1. PICK done, unique, first, last, untold :
        /\ stats = [pc |-> done, unique |-> unique, first |-> first, last |-> last, untold |-> untold]
        /\ unique \in Nat /\ first \in {Listing!Never} \cup Nat /\ last \in {Listing!Never} \cup Nat
        /\ untold \in SUBSET {"first", "last"}
  BY DEF Listing!TypeOK, Listing!Stats
<1>2. done \in {0, 1, 2, 3} /\ stats.pc = done /\ 5 \in Listing!Never .. 5 /\ done + 1 \in Listing!Never .. 5
  BY <1>1 DEF Listing!Never
<1>3. CASE done \in 0 .. 1
  <2>1. stats' = [stats EXCEPT !.pc = 5]
    BY <1>2, <1>3 DEF Listing!StatementFails
  <2>2. stats' = [pc |-> 5, unique |-> unique, first |-> first, last |-> last, untold |-> untold]
    BY <1>1, <2>1
  <2>. QED
    BY <1>1, <1>2, <1>3, <2>2 DEF Listing!Stats
<1>4. CASE done = 2
  <2>1. stats' = [stats EXCEPT !.pc = 3, !.untold = stats.untold \cup {"first"}]
    BY <1>2, <1>4 DEF Listing!StatementFails
  <2>2. stats' = [pc |-> 3, unique |-> unique, first |-> first, last |-> last,
                  untold |-> untold \cup {"first"}]
    BY <1>1, <2>1
  <2>. QED
    BY <1>1, <1>2, <1>4, <2>2 DEF Listing!Stats
<1>5. CASE done = 3
  <2>1. stats' = [stats EXCEPT !.pc = 4, !.untold = stats.untold \cup {"last"}]
    BY <1>2, <1>5 DEF Listing!StatementFails
  <2>2. stats' = [pc |-> 4, unique |-> unique, first |-> first, last |-> last,
                  untold |-> untold \cup {"last"}]
    BY <1>1, <2>1
  <2>. QED
    BY <1>1, <1>2, <1>5, <2>2 DEF Listing!Stats
<1>. QED
  BY <1>2, <1>3, <1>4, <1>5

\* A statement of the statistics is run, or fails.
LEMMA GetStatsKeeps ==
  ASSUME ListingInv, Listing!GetStats
  PROVE  ListingInv'
<1>0. Listing!TypeOK /\ WalkInv /\ StatsInv /\ RowsTyped
  BY ReadersTyped DEF ListingInv
<1>1. /\ UNCHANGED <<clock, rows, walk, changed, lowered>> /\ stats.pc \in 0 .. 3
      /\ StatementDone \/ stats' = Listing!StatementFails
  BY DEF Listing!GetStats, Listing!history, StatementDone
<1>2. Listing!TypeOK'
  <2>1. stats' \in Listing!Stats
    BY <1>0, <1>1, StatementFinds, StatementFailing
  <2>. QED
    BY <1>0, <1>1, <2>1 DEF Listing!TypeOK
<1>3. WalkInv'
  <2>1. walk.pc = "none"
    BY <1>0, <1>1 DEF WalkInv, Listing!Never
  <2>2. walk' = walk
    BY <1>1
  <2>3. walk'.pc = "none"
    BY <2>1, <2>2
  <2>. QED
    BY <2>3 DEF WalkInv
<1>4. ASSUME StatementDone PROVE StatsInv'
  <2>8. /\ stats'.pc = stats.pc + 1 /\ stats'.untold = stats.untold
        /\ stats'.unique = IF stats.pc = 0 THEN Cardinality(Listing!Stored) ELSE stats.unique
        /\ stats'.first = IF stats.pc = 2 THEN Listing!Least(Listing!Values("first")) ELSE stats.first
        /\ stats'.last = IF stats.pc = 3 THEN Listing!Greatest(Listing!Values("last")) ELSE stats.last
    BY <1>0, <1>1, <1>4, StatementFinds
  <2>0. Listing!Stored' = Listing!Stored
    BY <1>1, <2>8 DEF Listing!Stored
  <2>1. /\ stats.unique \in Nat /\ stats.pc \in {0, 1, 2, 3} /\ Listing!Never = -1
        /\ Cardinality(Listing!Stored) \in Nat
    BY <1>0, <1>1, <2>8, ReadersTyped, StoredTyped
  <2>2. stats'.unique <= Cardinality(Listing!Stored)
    BY <1>0, <1>1, <2>8, <2>1 DEF StatsInv
  <2>3. stats'.unique > 0 => Listing!Stored # {}
    BY <1>1, <2>8, <2>1, <2>2, FS_EmptySet
  <2>4. ASSUME Listing!Stored # {}
        PROVE  LET least == Listing!Least(Listing!Values("first"))
                   greatest == Listing!Greatest(Listing!Values("last"))
               IN /\ least \in Nat /\ greatest \in Nat
                  /\ \E g \in Listing!Stored : rows[g].first = least
                  /\ \A g \in Listing!Stored : rows[g].last <= greatest
    <3>1. \A g \in Listing!Stored : rows[g].first \in 0 .. MaxTime /\ rows[g].last \in 0 .. MaxTime
      BY <1>0, RowTyped DEF Listing!Stored
    <3>2. /\ Listing!Values("first") \subseteq 0 .. MaxTime /\ Listing!Values("first") # {}
          /\ Listing!Values("last") \subseteq 0 .. MaxTime /\ Listing!Values("last") # {}
      BY <2>4, <3>1 DEF Listing!Values
    <3>3. /\ Listing!Least(Listing!Values("first")) \in Listing!Values("first")
          /\ Listing!Greatest(Listing!Values("last")) \in Listing!Values("last")
          /\ \A x \in Listing!Values("last") : x <= Listing!Greatest(Listing!Values("last"))
      BY <3>2, Extremes
    <3>4. /\ Listing!Least(Listing!Values("first")) \in Nat
          /\ Listing!Greatest(Listing!Values("last")) \in Nat
      BY <3>2, <3>3
    <3>5. \E g \in Listing!Stored : rows[g].first = Listing!Least(Listing!Values("first"))
      BY <3>3 DEF Listing!Values
    <3>6. \A g \in Listing!Stored : rows[g].last \in Listing!Values("last")
      BY DEF Listing!Values
    <3>. QED
      BY <3>3, <3>4, <3>5, <3>6
  <2>5. stats'.unique > 0 /\ stats'.pc \in {3, 4} =>
          stats'.first # Listing!Never \/ "first" \in stats'.untold
    BY <1>0, <1>1, <2>8, <2>1, <2>3, <2>4 DEF StatsInv
  <2>6. stats'.unique > 0 /\ stats'.pc = 4 => stats'.last # Listing!Never
    BY <1>1, <2>8, <2>1, <2>3, <2>4
  <2>7. ASSUME walk.pc = "none", ~lowered
        PROVE  /\ \A g \in Listing!Stored : rows[g].first <= rows[g].last
               /\ stats'.first # Listing!Never => \E g \in Listing!Stored : rows[g].first = stats'.first
               /\ stats'.first # Listing!Never /\ stats'.last # Listing!Never /\ stats'.pc = 4 =>
                    stats'.first <= stats'.last
    <3>1. /\ \A g \in Listing!Stored : rows[g].first <= rows[g].last
          /\ stats.first # Listing!Never => \E g \in Listing!Stored : rows[g].first = stats.first
      BY <1>0, <2>7 DEF StatsInv
    <3>2. Listing!Stored = {} => Listing!Least(Listing!Values("first")) = Listing!Never
      BY DEF Listing!Values, Listing!Least
    <3>3. ASSUME stats'.first # Listing!Never PROVE \E g \in Listing!Stored : rows[g].first = stats'.first
      <4>1. CASE stats.pc = 2
        BY <1>1, <2>8, <2>4, <3>2, <3>3, <4>1
      <4>2. CASE stats.pc # 2
        BY <1>1, <2>8, <3>1, <3>3, <4>2
      <4>. QED
        BY <4>1, <4>2
    <3>4. ASSUME stats'.first # Listing!Never, stats'.pc = 4 PROVE stats'.first <= stats'.last
      <4>1. PICK g \in Listing!Stored : rows[g].first = stats'.first
        BY <3>3, <3>4
      <4>2. rows[g].first <= rows[g].last
        BY <3>1
      <4>3. stats.pc = 3
        BY <1>1, <2>8, <2>1, <3>4
      <4>4. stats'.last \in Nat /\ rows[g].last <= stats'.last
        BY <1>1, <2>8, <2>4, <4>1, <4>3
      <4>5. rows[g].first \in Nat /\ rows[g].last \in Nat
        BY <1>0, RowTyped DEF Listing!Stored
      <4>. QED
        BY <4>1, <4>2, <4>4, <4>5
    <3>. QED
      BY <3>1, <3>3, <3>4
  <2>9. stats'.pc \in 0 .. 3 => stats'.last = Listing!Never
    BY <1>0, <1>1, <2>1, <2>8 DEF StatsInv
  <2>10. walk' = walk /\ lowered' = lowered /\ rows' = rows
    BY <1>1
  <2>11. ASSUME walk'.pc = "none", ~lowered'
         PROVE  /\ \A g \in Listing!Stored' : rows'[g].first <= rows'[g].last
                /\ stats'.first # Listing!Never => \E g \in Listing!Stored' : rows'[g].first = stats'.first
                /\ stats'.first # Listing!Never /\ stats'.last # Listing!Never /\ stats'.pc = 4 =>
                     stats'.first <= stats'.last
    BY <2>0, <2>7, <2>10, <2>11
  <2>. QED
    BY <2>0, <2>2, <2>5, <2>6, <2>9, <2>11 DEF StatsInv, Listing!Never
<1>5. ASSUME stats' = Listing!StatementFails PROVE StatsInv'
  <2>1. /\ stats'.unique = stats.unique /\ stats'.first = stats.first /\ stats'.last = stats.last
        /\ stats'.pc = IF stats.pc \in 0 .. 1 THEN 5 ELSE stats.pc + 1
        /\ stats'.untold = stats.untold \cup (CASE stats.pc = 2 -> {"first"}
                                             [] stats.pc = 3 -> {"last"}
                                             [] OTHER -> {})
    BY <1>0, <1>1, <1>5, StatementFailing
  <2>2. Listing!Stored' = Listing!Stored
    BY <1>1 DEF Listing!Stored
  <2>3. stats.pc \in {0, 1, 2, 3} /\ stats.last = Listing!Never
    BY <1>0, <1>1 DEF StatsInv
  <2>4. stats'.pc \in {3, 4} /\ "first" \notin stats'.untold => stats.pc = 3
    BY <2>1, <2>3
  <2>5. stats'.pc = 4 => "last" \in stats'.untold
    BY <2>1, <2>3
  <2>6. stats.untold \subseteq stats'.untold
    BY <2>1
  <2>7. stats'.unique > 0 /\ stats'.pc \in {3, 4} =>
          stats'.first # Listing!Never \/ "first" \in stats'.untold
    BY <1>0, <2>1, <2>4, <2>6 DEF StatsInv
  <2>8. walk' = walk /\ lowered' = lowered /\ rows' = rows
    BY <1>1
  <2>9. ASSUME walk'.pc = "none", ~lowered'
        PROVE  /\ \A g \in Listing!Stored' : rows'[g].first <= rows'[g].last
               /\ stats'.first # Listing!Never => \E g \in Listing!Stored' : rows'[g].first = stats'.first
               /\ stats'.last = Listing!Never
    BY <1>0, <2>1, <2>2, <2>3, <2>8, <2>9 DEF StatsInv
  <2>10. stats'.unique <= Cardinality(Listing!Stored')
    BY <1>0, <2>1, <2>2 DEF StatsInv
  <2>11. stats'.last = Listing!Never
    BY <2>1, <2>3
  <2>. QED
    BY <2>5, <2>7, <2>9, <2>10, <2>11 DEF StatsInv, Listing!Never
<1>. QED
  BY <1>1, <1>2, <1>3, <1>4, <1>5 DEF ListingInv

\* In every behaviour the walk and the statistics keep their invariants.
THEOREM ListingAlways == Spec => []ListingInv
<1>1. Init => ListingInv
  BY ListingBegins DEF Init
<1>2. ListingInv /\ [Next]_vars => ListingInv'
  BY ListingStays, IngestKeeps, StartKeeps, ReadPageKeeps, GetStatsKeeps
  DEF Next, vars, Listing!Next
<1>. QED
  BY <1>1, <1>2, PTL DEF Spec

\* A walk through the pages skips no group that had no event meanwhile and, when
\* nothing came, is the listing; the client takes no page for a broken one; and
\* the four statements of GetStats, though they share no snapshot, hang together.
THEOREM ReadingCoherent == Spec => []ReadsAreCoherent
<1>1. ListingInv => ReadsAreCoherent
  <2>. SUFFICES ASSUME ListingInv PROVE ReadsAreCoherent
    OBVIOUS
  <2>0. Listing!TypeOK /\ WalkInv /\ StatsInv
    BY DEF ListingInv
  <2>1. Listing!UntouchedIsShown
    BY <2>0 DEF Listing!UntouchedIsShown, WalkInv, Disordered, Awaited
  <2>2. Listing!UnchangedIsExact
    <3>. SUFFICES ASSUME walk.pc = "done", changed = {} PROVE walk.shown = walk.before
      BY DEF Listing!UnchangedIsExact
    <3>1. walk.shown = SubSeq(walk.before, 1, Len(walk.before))
      BY <2>0 DEF WalkInv, Exact
    <3>. QED
      BY <2>0, <3>1, ReadersTyped, SubSeqFull
  <2>3. Listing!PagesAccepted
    BY <2>0 DEF WalkInv, Listing!PagesAccepted
  <2>4. Listing!StatsHang
    <3>. SUFFICES ASSUME stats.pc = 4 PROVE Listing!StatsHang
      BY DEF Listing!StatsHang
    <3>1. walk.pc = "none" /\ Listing!Never = -1
      BY <2>0 DEF WalkInv, Listing!Never
    <3>2. stats.unique <= Listing!Cardinality(Listing!Stored)
      BY <2>0, SameCardinality DEF StatsInv
    <3>3. /\ stats.unique > 0 => /\ stats.first # Listing!Never \/ "first" \in stats.untold
                                 /\ stats.last # Listing!Never \/ "last" \in stats.untold
          /\ stats.first # Listing!Never /\ stats.last # Listing!Never /\ ~lowered =>
               stats.first <= stats.last
      BY <2>0, <3>1 DEF StatsInv
    <3>. QED
      BY <3>2, <3>3 DEF Listing!StatsHang
  <2>. QED
    BY <2>0, <2>1, <2>2, <2>3, <2>4 DEF ReadsAreCoherent
<1>. QED
  BY <1>1, ListingAlways, PTL
=============================================================================
