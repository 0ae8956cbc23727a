----------------------------- MODULE Retention ------------------------------
(***************************************************************************)
(* How long occurrences are kept: durations as they are parsed             *)
(* (internal/domain/event.go), DRILLIP_RETAIN (bootstrap/config.go), the   *)
(* hourly chore (application/service/maintenance.go), `drillip gc` and     *)
(* POST /api/0/gc/ down to Store.GCOccurrences.                            *)
(*                                                                         *)
(* Instants are kept as ages: an age grows with every tick of time, up to  *)
(* MaxAge, where nothing distinguishes it from an older one.  A tick is a  *)
(* fraction of the second to which the database keeps its timestamps.      *)
(***************************************************************************)
EXTENDS Integers

CONSTANTS
  Occurrences,  \* bound: rows kept at one time
  Texts,        \* durations people ask for: [number, unit], or None for garbage
  Settings,     \* the same, of DRILLIP_RETAIN
  Default,      \* of DRILLIP_RETAIN
  Hours,        \* per unit, "h", "d" or "w": how many hours it has
  Second, Hour, \* in ticks
  Word,         \* 2^64 in the code: time.Duration counts modulo it
  MaxAge,       \* bound: ages from which on time does not matter
  Ahead,        \* bound: by how many ticks a client's clock may be ahead
  MaxFlight,    \* bound: ticks a request or a deletion waits
  MaxRestarts,  \* bound: of the server
  None

RetentionAssumption ==
  /\ Second \in Nat \ {0} /\ Hour \in Nat \ {0} /\ Word \in Nat \ {0} /\ Word % 2 = 0
  /\ MaxAge \in Nat /\ MaxFlight \in Nat /\ MaxRestarts \in Nat /\ Ahead \subseteq Nat
  /\ Default \in 1 .. (Word \div 2) - 1
  /\ \A text \in (Texts \cup Settings) \ {None} : text.number \in Int /\ Hours[text.unit] \in Nat
  /\ None \notin 0 .. MaxAge

VARIABLES
  age,        \* per row: None, or how old the occurrence is
  phase,      \* ticks since the last whole second
  retain,     \* DRILLIP_RETAIN as it is set, and as it is understood
  sinceTick,  \* ticks since the hourly ticker fired
  due,        \* the ticker has fired and the loop has not looked yet
  query,      \* a gc request under way: None, or its parameters
  cutting,    \* per caller of GCOccurrences: None, or its cutoff
  restarts

vars == <<age, phase, retain, sinceTick, due, query, cutting, restarts>>

Callers == {"loop", "handler"}
Durations == -(Word \div 2) .. (Word \div 2) - 1
-----------------------------------------------------------------------------
\* ParseDuration multiplies without looking for an overflow.

Wrap(n) == ((n + Word \div 2) % Word) - Word \div 2

Meant(text) == text.number * Hours[text.unit] * Hour
ParseDuration(text) == Wrap(Meant(text))
Representable(text) == ParseDuration(text) = Meant(text)

\* loadConfig: garbage and nothing leave the default.
RetainFor(text) == IF text = None THEN Default ELSE ParseDuration(text)

\* Mutant: the duration is converted twice.
AgoTwice(duration) == -Wrap(-duration * Hour)

\* The age of the instant `duration` ago; Go negates before it adds.
Ago(duration) == -Wrap(-duration)

\* Instants are written as RFC 3339 with whole seconds, cut off.
WholeSeconds(a) == a + ((phase - a) % Second)

\* Mutant: the cutoff is rounded to the next second.
ThresholdUp(cut) == WholeSeconds(cut) - Second

Threshold(cut) == WholeSeconds(cut)
-----------------------------------------------------------------------------
\* A cutoff, for the reader with what the caller wanted of it.
Cutoff(cut, meant, sound) == [cut |-> cut, meant |-> meant, sound |-> sound, waited |-> 0]

Cutoffs == [cut: Int, meant: Int, sound: BOOLEAN, waited: 0 .. MaxFlight]

TypeOK ==
  /\ age \in [Occurrences -> {None} \cup 0 .. MaxAge]
  /\ phase \in 0 .. Second - 1
  /\ retain.text \in Settings /\ retain.for \in Durations
  /\ sinceTick \in 0 .. Hour - 1 /\ due \in BOOLEAN
  /\ query = None \/ (query.before \in {None} \cup Cutoffs /\ query.olderThan \in Texts)
  /\ cutting \in [Callers -> {None} \cup Cutoffs]
  /\ restarts \in 0 .. MaxRestarts

Init ==
  /\ age = [o \in Occurrences |-> None]
  /\ phase = 0
  /\ \E text \in Settings : retain = [text |-> text, for |-> RetainFor(text)]
  /\ sinceTick = 0 /\ due = FALSE
  /\ query = None /\ cutting = [c \in Callers |-> None]
  /\ restarts = 0

StoreEvent(o) ==
  /\ age[o] = None
  /\ age' = [age EXCEPT ![o] = 0]
  /\ UNCHANGED <<phase, retain, sinceTick, due, query, cutting, restarts>>
-----------------------------------------------------------------------------
\* Requests.

NoQuery == [before |-> None, olderThan |-> None, waited |-> 0]

\* `drillip gc`: the client's clock decides.
RunGC(text, ahead) ==
  /\ query = None /\ text # None
  /\ query' = [NoQuery EXCEPT !.before =
       Cutoff(Ago(ParseDuration(text)) - ahead, Meant(text) - ahead, Representable(text))]
  /\ UNCHANGED <<age, phase, retain, sinceTick, due, cutting, restarts>>

\* Anyone else gives a duration, and possibly a cutoff too.
Ask(text, before) ==
  /\ query = None
  /\ query' = [NoQuery EXCEPT !.olderThan = text, !.before = before]
  /\ UNCHANGED <<age, phase, retain, sinceTick, due, cutting, restarts>>

\* HandleGC: one of the two, and not both.
HandleGC ==
  /\ query # None /\ cutting["handler"] = None
  /\ query' = None
  /\ IF query.before # None /\ query.olderThan = None
     THEN cutting' = [cutting EXCEPT !["handler"] = [query.before EXCEPT !.waited = 0]]
     ELSE IF query.before = None /\ query.olderThan # None
     THEN cutting' = [cutting EXCEPT !["handler"] =
            LET text == query.olderThan
            IN Cutoff(Ago(ParseDuration(text)), Meant(text), Representable(text))]
     ELSE UNCHANGED cutting
  /\ UNCHANGED <<age, phase, retain, sinceTick, due, restarts>>
-----------------------------------------------------------------------------
\* The chore.

Retained ==
  IF retain.text = None THEN Cutoff(Ago(Default), Default, TRUE)
  ELSE Cutoff(Ago(retain.for), Meant(retain.text), Representable(retain.text))

\* A retention of nothing, or of less, disables it.
GcOccurrences ==
  /\ due /\ cutting["loop"] = None
  /\ due' = FALSE
  /\ IF retain.for > 0
     THEN cutting' = [cutting EXCEPT !["loop"] = Retained]
     ELSE UNCHANGED cutting
  /\ UNCHANGED <<age, phase, retain, sinceTick, query, restarts>>

\* runTask recovers from a task that panics.
Panic ==
  /\ due /\ cutting["loop"] = None
  /\ due' = FALSE
  /\ UNCHANGED <<age, phase, retain, sinceTick, query, cutting, restarts>>
-----------------------------------------------------------------------------
\* Store.GCOccurrences, which may fail.

Old(o, cut) == age[o] # None /\ WholeSeconds(age[o]) > Threshold(cut)

GCOccurrences(c) ==
  /\ cutting[c] # None
  /\ age' = [o \in Occurrences |-> IF Old(o, cutting[c].cut) THEN None ELSE age[o]]
  /\ cutting' = [cutting EXCEPT ![c] = None]
  /\ UNCHANGED <<phase, retain, sinceTick, due, query, restarts>>

Fail(c) ==
  /\ cutting[c] # None
  /\ cutting' = [cutting EXCEPT ![c] = None]
  /\ UNCHANGED <<age, phase, retain, sinceTick, due, query, restarts>>

\* A new process has a new ticker.
Restart ==
  /\ restarts < MaxRestarts
  /\ restarts' = restarts + 1
  /\ sinceTick' = 0 /\ due' = FALSE
  /\ cutting' = [c \in Callers |-> None]
  /\ UNCHANGED <<age, phase, retain, query>>

Later(cutoff) ==
  IF cutoff = None THEN None
  ELSE [cutoff EXCEPT !.cut = @ + 1, !.meant = @ + 1, !.waited = @ + 1]

OnTime == \A c \in Callers : cutting[c] # None => cutting[c].waited < MaxFlight

Tick ==
  /\ OnTime /\ (query # None => query.waited < MaxFlight)
  /\ age' = [o \in Occurrences |->
       IF age[o] \in {None, MaxAge} THEN age[o] ELSE age[o] + 1]
  /\ phase' = (phase + 1) % Second
  /\ sinceTick' = (sinceTick + 1) % Hour
  /\ due' = (due \/ sinceTick' = 0)
  /\ query' = IF query = None THEN None
              ELSE [query EXCEPT !.before = Later(@), !.waited = @ + 1]
  /\ cutting' = [c \in Callers |-> Later(cutting[c])]
  /\ UNCHANGED <<retain, restarts>>

Next ==
  \/ \E o \in Occurrences : StoreEvent(o)
  \/ \E text \in Texts, ahead \in Ahead : RunGC(text, ahead)
  \/ \E text \in Texts, before \in {None, Cutoff(0, 0, TRUE)} : Ask(text, before)
  \/ HandleGC \/ GcOccurrences \/ Panic
  \/ \E c \in Callers : GCOccurrences(c) \/ Fail(c)
  \/ Restart \/ Tick

\* Time passes, the loop runs, and neither a panic nor a failure lasts for ever.
Fairness ==
  /\ WF_vars(Tick) /\ WF_vars(HandleGC)
  /\ SF_vars(GcOccurrences) /\ SF_vars(GCOccurrences("loop")) /\ WF_vars(GCOccurrences("handler"))

Spec == Init /\ [][Next]_vars /\ Fairness
-----------------------------------------------------------------------------
Deleted(o) == age[o] # None /\ age'[o] = None
By(c) == cutting[c] # None /\ cutting'[c] = None

\* What the caller wanted, if it can be represented; and in any case the chore
\* goes by a duration longer than nothing, whatever DRILLIP_RETAIN wraps to.
Due(c, a) ==
  /\ cutting[c].sound => a > cutting[c].meant
  /\ c = "loop" => retain.for > 0 /\ a > retain.for

\* Whoever deletes, on whatever clock, across the delays of the request and of
\* the database and the rounding of both instants: an occurrence goes only when
\* it is older than the duration that was asked for.
OnlyOldDeleted ==
  [][\A o \in Occurrences : Deleted(o) => \E c \in Callers : By(c) /\ Due(c, age[o])]_vars

\* Retention keeps up: an occurrence past it goes, whatever fails or panics and
\* although a restart begins the hour anew.
OldGoes ==
  \A o \in Occurrences :
    retain.for > 0 /\ age[o] = MaxAge ~> age[o] # MaxAge
=============================================================================
