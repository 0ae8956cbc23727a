------------------------------ MODULE Correlate ------------------------------
(***************************************************************************)
(* `drillip correlate`: Errors.Correlate                                   *)
(* (internal/application/service/correlation.go) and its telemetry sources *)
(* (internal/adapter/out/observability/integrations.go), seen from the     *)
(* command with its ten seconds.                                           *)
(*                                                                         *)
(* A source answers, fails or stalls; a stalled one ends with the budget   *)
(* that all share.  Steps of the server that involve no source take time   *)
(* too, MaxLocal in all.                                                   *)
(***************************************************************************)
EXTENDS Naturals, Sequences

CONSTANTS
  Metrics,   \* the queries made of the metrics source
  Budget,    \* of all sources together: 5 s
  WaitDelay, \* what a killed journalctl may take to end
  Deadline,  \* of the command: 10 s
  MaxLocal,  \* bound: time taken by the check, the database, the answer
  None

CorrelateAssumption ==
  /\ Budget \in Nat \ {0} /\ WaitDelay \in Nat /\ MaxLocal \in Nat
  /\ Deadline \in Nat /\ MaxLocal + Budget + WaitDelay < Deadline
  /\ None \notin Metrics \cup {"call"}

VARIABLES
  elapsed, local,   \* time since the command began; how much of it was local
  client,
  pc,
  occurrence,     \* the occurrence found: None, or what is known of it
  begun,          \* when the budget began
  at,             \* the source that is due or running
  running,        \* a call to it is under way; of metrics: which query
  result, metrics \* what each source and query contributed

vars == <<elapsed, local, client, pc, occurrence, begun, at, running, result, metrics>>

Sources == <<"logs", "trace", "metrics", "profile">>
Kinds == {"logs", "trace", "metrics", "profile"}
Times == 0 .. Deadline + 1

TypeOK ==
  /\ elapsed \in Times /\ local \in 0 .. MaxLocal
  /\ client \in {"waiting", "answered", "refused", "cancelled", "late"}
  /\ pc \in {"check", "lookup", "detail", "occurrence", "enrich", "end", "done"}
  /\ occurrence \in {None} \cup [dated: BOOLEAN, traced: BOOLEAN]
  /\ begun \in Times
  /\ at \in 1 .. Len(Sources) + 1
  /\ running \in {None, "call"} \cup Metrics
  /\ result \in [Kinds -> {"none", "asked", "data", "failed", "skipped", "unwanted"}]
  /\ metrics \in [Metrics -> {"none", "value", "absent", "(error)", "(timeout)", "(ambiguous)"}]

Init ==
  /\ elapsed = 0 /\ local = 0 /\ client = "waiting" /\ pc = "check"
  /\ occurrence = None /\ begun = 0 /\ at = 1 /\ running = None
  /\ result = [s \in Kinds |-> "none"] /\ metrics = [m \in Metrics |-> "none"]
-----------------------------------------------------------------------------
Cancelled == client # "waiting"

Spent == elapsed >= begun + Budget

\* Mutant: the sources are called without a context.
ExhaustedNever == FALSE

\* enrichment.Err() # nil
Exhausted == Spent \/ Cancelled

Stops == Exhausted

Finish(outcome) ==
  /\ pc' = "done"
  /\ client' = IF Cancelled THEN client ELSE outcome

\* The check of the command API, then the handler up to the error's own data.
Lookup ==
  /\ pc \in {"check", "lookup", "detail"}
  /\ \/ /\ pc' = CASE pc = "check" -> "lookup" [] pc = "lookup" -> "detail" [] pc = "detail" -> "occurrence"
        /\ UNCHANGED client
     \/ Finish("refused")
  /\ UNCHANGED <<elapsed, local, occurrence, begun, at, running, result, metrics>>

\* No such occurrence, or no telemetry: the answer is what is stored.
NthOccurrence ==
  /\ pc = "occurrence"
  /\ \/ pc' = "end" /\ UNCHANGED <<client, occurrence, begun>>
     \/ /\ pc' \in {"end", "enrich"} /\ begun' = elapsed
        /\ occurrence' \in [dated: BOOLEAN, traced: BOOLEAN]
        /\ UNCHANGED client
     \/ Finish("refused") /\ UNCHANGED <<occurrence, begun>>
  /\ UNCHANGED <<elapsed, local, at, running, result, metrics>>

Due == Sources[at]
Wanted(s) == IF s = "trace" THEN occurrence.traced ELSE occurrence.dated

\* Mutant: a source that fails ends the enrichment.
ContributeOrEnd(value) ==
  /\ result' = [result EXCEPT ![Due] = value]
  /\ at' = at + 1
  /\ pc' = IF at = Len(Sources) \/ value = "failed" THEN "end" ELSE pc

Contribute(value) ==
  /\ result' = [result EXCEPT ![Due] = value]
  /\ at' = at + 1
  /\ pc' = IF at = Len(Sources) THEN "end" ELSE pc

\* The source is passed over, or asked.
Ask ==
  /\ pc = "enrich" /\ result[Due] = "none"
  /\ IF ~Wanted(Due) THEN Contribute("unwanted") /\ UNCHANGED running
     ELSE IF Stops THEN Contribute("skipped") /\ UNCHANGED running
     ELSE /\ result' = [result EXCEPT ![Due] = "asked"]
          /\ running' = IF Due = "metrics" THEN None ELSE "call"
          /\ UNCHANGED <<at, pc>>
  /\ UNCHANGED <<elapsed, local, client, occurrence, begun, metrics>>

\* Logs, a trace or a profile; with an exhausted budget the call fails.
Return ==
  /\ running = "call" /\ running' = None
  /\ (~Exhausted /\ Contribute("data")) \/ Contribute("failed")
  /\ UNCHANGED <<elapsed, local, client, occurrence, begun, metrics>>

\* The queries are made in no particular order.
AskMetric(m) ==
  /\ result["metrics"] = "asked" /\ running = None /\ metrics[m] = "none"
  /\ IF Exhausted THEN metrics' = [metrics EXCEPT ![m] = "(timeout)"] /\ UNCHANGED running
     ELSE running' = m /\ UNCHANGED metrics
  /\ UNCHANGED <<elapsed, local, client, pc, occurrence, begun, at, result>>

ReturnMetric(m) ==
  /\ running = m /\ running' = None
  /\ \E value \in IF Exhausted THEN {"(error)"} ELSE {"value", "absent", "(error)", "(ambiguous)"} :
       metrics' = [metrics EXCEPT ![m] = value]
  /\ UNCHANGED <<elapsed, local, client, pc, occurrence, begun, at, result>>

\* Whatever became of the queries, there is a snapshot.
ReturnMetrics ==
  /\ result["metrics"] = "asked" /\ running = None
  /\ \A m \in Metrics : metrics[m] # "none"
  /\ Contribute("data")
  /\ UNCHANGED <<elapsed, local, client, occurrence, begun, running, metrics>>

\* The handler writes what there is, for a caller that still listens.
Answer ==
  /\ pc = "end"
  /\ Finish("answered")
  /\ UNCHANGED <<elapsed, local, occurrence, begun, at, running, result, metrics>>

\* The user interrupts the command.
Cancel ==
  /\ client = "waiting" /\ client' = "cancelled"
  /\ UNCHANGED <<elapsed, local, pc, occurrence, begun, at, running, result, metrics>>

Late ==
  /\ client = "waiting" /\ elapsed >= Deadline /\ client' = "late"
  /\ UNCHANGED <<elapsed, local, pc, occurrence, begun, at, running, result, metrics>>

\* How long a call goes on after its context has ended.
Lag == IF running = "call" /\ Due = "logs" THEN WaitDelay ELSE 0

\* Time passes while the server works by itself or waits for a source.
Tick ==
  /\ pc # "done" /\ client = "waiting" /\ elapsed <= Deadline
  /\ elapsed' = elapsed + 1
  /\ IF running = None
     THEN local < MaxLocal /\ local' = local + 1
     ELSE ~(Exhausted /\ elapsed >= begun + Budget + Lag) /\ local' = local
  /\ UNCHANGED <<client, pc, occurrence, begun, at, running, result, metrics>>
-----------------------------------------------------------------------------
Step ==
  \/ Lookup \/ NthOccurrence \/ Ask \/ Return \/ ReturnMetrics \/ Answer
  \/ \E m \in Metrics : AskMetric(m) \/ ReturnMetric(m)
Next == Step \/ Cancel \/ Late \/ Tick

Spec == Init /\ [][Next]_vars

\* The server goes on, sources end when their context does, and time passes.
\* No source has to answer.
Fairness == WF_vars(Step /\ (running = None \/ Exhausted)) /\ WF_vars(Tick) /\ WF_vars(Late)

FairSpec == Spec /\ Fairness
-----------------------------------------------------------------------------
\* "A slow optional source must not consume the CLI's entire request deadline"
\* (correlation.go:48): whatever the sources do, what is stored arrives in time.
AnsweredInTime == client # "late"

\* An answer holds what every applicable source had to say: one that fails takes
\* nothing from those after it, and one is left out only for want of time.
FailureIsOwn ==
  client = "answered" /\ at > 1 =>
    \A s \in Kinds :
      /\ result[s] \in {"data", "failed", "skipped", "unwanted"}
      /\ result[s] = "skipped" => Spent
      /\ result[s] # "unwanted" <=> Wanted(s)

\* Every correlation ends, stalled sources or not.
CorrelationEnds == <>(pc = "done")
=============================================================================
