------------------------------ MODULE MCQueries ------------------------------
(***************************************************************************)
(* Reading: a walk through the list and the statistics (Browse), one       *)
(* correlation (Correlate), and which server an invocation asks            *)
(* (Invocation).  The three share no state, so a behaviour has one of them *)
(* move: `only` says which.                                                *)
(***************************************************************************)
EXTENDS Naturals, Sequences, FiniteSets

CONSTANTS
  None,
  Groups, Queries, MaxTime, MaxCount, MaxLag,
  Metrics, Budget, WaitDelay, Deadline, MaxLocal,
  Urls, BadUrls, Addresses, Wildcard, Files

VARIABLES
  only,
  clock, rows, walk, changed, lowered, stats,
  elapsed, local, client, pc, occurrence, begun, at, running, result, metrics,
  env, did, hint

listing == <<clock, rows, walk, changed, lowered, stats>>
correlation == <<elapsed, local, client, pc, occurrence, begun, at, running, result, metrics>>
target == <<env, did, hint>>

Listing == INSTANCE Browse
Correlation == INSTANCE Correlate
Target == INSTANCE Invocation

ASSUME ListingAssumption == Listing!BrowseAssumption
ASSUME CorrelationAssumption == Correlation!CorrelateAssumption
ASSUME TargetAssumption == Target!InvocationAssumption

\* Three groups, of which one query leaves out one, and pages of one and two.
MCQuerySet ==
  {[sort |-> "last_seen", limit |-> 1, matching |-> Groups],
   [sort |-> "count", limit |-> 2, matching |-> Groups],
   [sort |-> "count", limit |-> 1, matching |-> Groups \ {2}]}

\* Two servers and one address besides the wildcard.
MCUrls == {"https://s1", "http://a"}
MCBadUrls == {"ftp://s1"}

vars == <<only, listing, correlation, target>>

Init ==
  /\ only \in {"list", "correlate", "target"}
  /\ Listing!Init /\ Correlation!Init /\ Target!Init
  /\ only # "list" => walk.pc = "none"
  /\ only # "target" => env = [server |-> None, addr |-> None, db |-> None]

\* Once the command has its answer, what goes on in the store is of no interest.
Reads == walk.pc \in {"idle", "reading"} \/ stats.pc \in 0 .. 3

Next ==
  \/ only = "list" /\ Reads /\ Listing!Next /\ UNCHANGED <<only, correlation, target>>
  \/ only = "correlate" /\ Correlation!Next /\ UNCHANGED <<only, listing, target>>
  \/ only = "target" /\ Target!Next /\ UNCHANGED <<only, listing, correlation>>

Spec == Init /\ [][Next]_vars /\ (only = "correlate" => Correlation!Fairness)
-----------------------------------------------------------------------------
\* A reader sees no broken state while events commit: pages skip no group that
\* stayed as it was and are the listing when nothing came, the client accepts
\* them all, and the four answers of the statistics hang together.
ReadsAreCoherent ==
  only = "list" =>
    /\ Listing!TypeOK
    /\ Listing!UntouchedIsShown
    /\ Listing!UnchangedIsExact
    /\ Listing!PagesAccepted
    /\ Listing!StatsHang

\* "A slow optional source must not consume the CLI's entire request deadline"
\* (correlation.go:48): the answer arrives in time with what is stored, and one
\* source takes nothing from another but time.
AnsweredInFull ==
  only = "correlate" =>
    /\ Correlation!TypeOK
    /\ Correlation!AnsweredInTime
    /\ Correlation!FailureIsOwn

\* Every correlation ends, stalled sources or not.
CorrelationEnds == only = "correlate" => Correlation!CorrelationEnds

\* An invocation reaches the server it names: the hint for the next page the
\* server of the first, a client the one its environment starts, and what the
\* command line says comes before the environment.
TargetsAreMeant ==
  only = "target" =>
    /\ Target!TypeOK
    /\ Target!NextPageStays
    /\ Target!ClientFindsServer
    /\ Target!NamedIsUsed
=============================================================================
