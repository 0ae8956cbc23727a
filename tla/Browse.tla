-------------------------------- MODULE Browse --------------------------------
(***************************************************************************)
(* Reading while events arrive: the pages of `drillip list` (cli runList,  *)
(* httpclient List, api HandleList, sqlite List) and the four statements   *)
(* of GetStats (sqlite queries.go).  None of them share a snapshot.        *)
(*                                                                         *)
(* A group is reduced to the columns that lists are sorted by.  Events may *)
(* commit with a clock that was read a little earlier.                     *)
(***************************************************************************)
EXTENDS Integers, Sequences, FiniteSets, SequencesExt

CONSTANTS
  Groups,       \* fingerprints, which are numbers so that they are ordered
  Queries,      \* [sort, limit, matching]: what the user lists
  MaxTime,      \* bound: the clock stops here
  MaxCount,     \* bound: events per group
  MaxLag        \* an event may commit with a clock that old

BrowseAssumption ==
  /\ Groups \subseteq Nat /\ IsFiniteSet(Groups)
  /\ \A q \in Queries : /\ q.sort \in {"last_seen", "count"}
                        /\ q.limit \in Nat \ {0} /\ q.matching \subseteq Groups
  /\ MaxTime \in Nat /\ MaxCount \in Nat /\ MaxLag \in Nat

VARIABLES
  clock,
  rows,     \* the errors table
  walk,     \* the list command: its query, the pages so far
  changed,  \* history: groups with an event since the walk began
  lowered,  \* history: an event made the last_seen of its group earlier
  stats     \* GetStats: how many statements are done and what they found

history == <<changed, lowered>>
vars == <<clock, rows, walk, history, stats>>

Never == 0 - 1
Row == [count: 0 .. MaxCount, first: 0 .. MaxTime, last: 0 .. MaxTime]
NoRow == [count |-> 0, first |-> 0, last |-> 0]
Stored == {g \in Groups : rows[g].count > 0}

\* before (history): the listing as it was when the walk began.
Walk == [pc: {"none", "idle", "reading", "done", "failed"}, query: Queries, offset: 0 .. Cardinality(Groups),
         shown: Seq(Groups), before: Seq(Groups)]

\* pc: 4 once there is an answer, 5 once there is an error instead.
\* untold (history): the times whose statement failed.
Stats == [pc: Never .. 5, unique: Nat, first: {Never} \cup Nat, last: {Never} \cup Nat,
          untold: SUBSET {"first", "last"}]

TypeOK ==
  /\ clock \in 0 .. MaxTime
  /\ rows \in [Groups -> Row]
  /\ walk \in Walk
  /\ changed \subseteq Groups /\ lowered \in BOOLEAN
  /\ stats \in Stats

Init ==
  /\ clock = 0
  /\ rows = [g \in Groups |-> NoRow]
  /\ \E q \in Queries, command \in {"list", "stats"} :
       /\ walk = [pc |-> IF command = "list" THEN "idle" ELSE "none", query |-> q,
                  offset |-> 0, shown |-> << >>, before |-> << >>]
       /\ stats = [pc |-> IF command = "stats" THEN 0 ELSE Never,
                   unique |-> 0, first |-> Never, last |-> Never, untold |-> {}]
       /\ command = "stats" => q = CHOOSE r \in Queries : TRUE
  /\ changed = {} /\ lowered = FALSE
-----------------------------------------------------------------------------
(* What goes on meanwhile                                                  *)

Tick == clock < MaxTime /\ clock' = clock + 1 /\ UNCHANGED <<rows, walk, history, stats>>

Ingest(g) ==
  /\ rows[g].count < MaxCount
  /\ \E now \in {t \in 0 .. clock : t + MaxLag >= clock} :
       /\ rows' = [rows EXCEPT ![g] = [count |-> @.count + 1, last |-> now,
                                       first |-> IF @.count = 0 THEN now ELSE @.first]]
       /\ lowered' = (lowered \/ rows[g].last > now)
  /\ changed' = changed \cup {g}
  /\ UNCHANGED <<clock, walk, stats>>
-----------------------------------------------------------------------------
(* The list command                                                        *)

\* ORDER BY last_seen DESC, fingerprint, or count DESC first
Before(q, g, h) ==
  \/ q.sort = "count" /\ rows[g].count > rows[h].count
  \/ /\ q.sort = "count" => rows[g].count = rows[h].count
     /\ \/ rows[g].last > rows[h].last
        \/ rows[g].last = rows[h].last /\ g < h

Listing(q) ==
  LET matching == Stored \cap q.matching
      places == 1 .. Cardinality(matching)
  IN CHOOSE s \in [places -> matching] : \A i, j \in places : i < j => Before(q, s[i], s[j])

\* LIMIT one more than the page, OFFSET: the extra row tells of a next page.
Page(q, offset) ==
  LET left == Len(Listing(q)) - offset
      shown == IF left > q.limit THEN q.limit ELSE left
  IN IF left <= 0 THEN [errors |-> << >>, more |-> FALSE]
     ELSE [errors |-> SubSeq(Listing(q), offset + 1, offset + shown), more |-> left > q.limit]

\* What the client checks of a page
Consistent(q, page) ==
  /\ Len(page.errors) <= q.limit
  /\ page.more => Len(page.errors) = q.limit

Start ==
  /\ walk.pc = "idle"
  /\ walk' = [walk EXCEPT !.pc = "reading", !.before = Listing(walk.query)]
  /\ changed' = {} /\ lowered' = FALSE
  /\ UNCHANGED <<clock, rows, stats>>

\* Mutant: the next page begins one row late.
NextOffsetLate(page) == walk.offset + Len(page.errors) + 1

NextOffset(page) == walk.offset + Len(page.errors)

\* One command per page, run with the options the one before it printed.
ReadPage ==
  LET page == Page(walk.query, walk.offset)
  IN /\ walk.pc = "reading"
     /\ walk' = IF Consistent(walk.query, page)
                THEN [walk EXCEPT !.pc = IF page.more THEN @ ELSE "done",
                                  !.offset = NextOffset(page), !.shown = @ \o page.errors]
                ELSE [walk EXCEPT !.pc = "failed"]
     /\ UNCHANGED <<clock, rows, history, stats>>
-----------------------------------------------------------------------------
(* GetStats                                                                *)

Values(column) == {rows[g][column] : g \in Stored}
Least(S) == IF S = {} THEN Never ELSE CHOOSE x \in S : \A y \in S : x <= y
Greatest(S) == IF S = {} THEN Never ELSE CHOOSE x \in S : \A y \in S : x >= y

\* The second counts the occurrences: how many are retained is left out.
Statement ==
  CASE stats.pc = 0 -> [stats EXCEPT !.unique = Cardinality(Stored)]
    [] stats.pc = 1 -> stats
    [] stats.pc = 2 -> [stats EXCEPT !.first = Least(Values("first"))]
    [] stats.pc = 3 -> [stats EXCEPT !.last = Greatest(Values("last"))]

\* The errors of the first two are returned, those of the others are dropped.
StatementFails ==
  CASE stats.pc \in 0 .. 1 -> [stats EXCEPT !.pc = 5]
    [] stats.pc = 2 -> [stats EXCEPT !.pc = 3, !.untold = @ \cup {"first"}]
    [] stats.pc = 3 -> [stats EXCEPT !.pc = 4, !.untold = @ \cup {"last"}]

GetStats ==
  /\ stats.pc \in 0 .. 3
  /\ \/ stats' = [Statement EXCEPT !.pc = @ + 1]
     \/ stats' = StatementFails
  /\ UNCHANGED <<clock, rows, walk, history>>
-----------------------------------------------------------------------------
Next ==
  \/ Tick \/ (\E g \in Groups : Ingest(g))
  \/ Start \/ ReadPage \/ GetStats

Spec == Init /\ [][Next]_vars
-----------------------------------------------------------------------------
\* A group without events during the walk is never skipped, however many others
\* arrive or move: they can only move ahead of it, and an offset then shows it
\* again.  The exception is a late commit that takes last_seen back.
UntouchedIsShown ==
  walk.pc = "done" /\ ~(lowered /\ walk.query.sort = "last_seen") =>
    ToSet(walk.before) \ changed \subseteq ToSet(walk.shown)

\* "a fingerprint tie-breaker so unchanged data has stable page boundaries"
\* (sqlite/list.go:9-10): without events the pages are the listing, in one piece.
UnchangedIsExact == walk.pc = "done" /\ changed = {} => walk.shown = walk.before

\* The client never takes a page of this server for a broken one.
PagesAccepted == walk.pc # "failed"

\* The four answers hang together, though events commit between them: groups
\* that are counted have each time told, unless its own statement failed, and
\* the range of the times is one.  The exception to the latter is a late commit
\* that takes a last_seen back.
StatsHang ==
  stats.pc = 4 =>
    /\ stats.unique > 0 => /\ stats.first # Never \/ "first" \in stats.untold
                           /\ stats.last # Never \/ "last" \in stats.untold
    /\ stats.unique <= Cardinality(Stored)
    /\ stats.first # Never /\ stats.last # Never /\ ~lowered => stats.first <= stats.last
=============================================================================
