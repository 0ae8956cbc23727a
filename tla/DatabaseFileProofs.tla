------------------------- MODULE DatabaseFileProofs -------------------------
(***************************************************************************)
(* Theorems about DatabaseFile, for any number of restores and servers,    *)
(* any inputs, and any number of kills and failing statements.             *)
(***************************************************************************)
EXTENDS DatabaseFile, TLAPS

USE DatabaseFileAssumption

\* The fields of a file have the types of its record.
LEMMA ContentFields ==
  ASSUME NEW f \in Content
  PROVE  /\ f.sound \in BOOLEAN /\ f.tables \in SUBSET Tables /\ f.columns \in SUBSET Columns
         /\ f.format \in {"none", "1", "2"} /\ f.history \in History
BY DEF Content

\* An empty file and one without history are well formed.
LEMMA EmptyTyped == Empty \in Content /\ NoHistory \in History
BY DEF Empty, Content, NoHistory, History

\* The metadata table changes nothing but a missing format.
LEMMA MetadataKeeps ==
  ASSUME NEW f \in Content
  PROVE  /\ WithMetadata(f) \in Content
         /\ WithMetadata(f).sound = f.sound
         /\ WithMetadata(f).tables = f.tables
         /\ WithMetadata(f).columns = f.columns
         /\ WithMetadata(f).history = f.history
         /\ WithMetadata(f).format = IF f.format = "none" THEN "1" ELSE f.format
BY DEF WithMetadata, Content

\* A file g is f after some statements of Open.
Grown(f, g) ==
  /\ g.sound = f.sound /\ g.history = f.history
  /\ f.tables \subseteq g.tables /\ f.columns \subseteq g.columns
  /\ g.format = f.format \/ (f.format = "none" /\ g.format = "1")

\* The statements of Open, by kind.
Statements == {"format", "idx_level", "metadata"} \cup Tables \cup Columns

\* A statement only adds, and what it is to add is there afterwards.
LEMMA ExecutedGrows ==
  ASSUME NEW f \in Content, NEW s \in Statements
  PROVE  /\ Executed(f, s) \in Content /\ Grown(f, Executed(f, s))
         /\ s \in Tables => s \in Executed(f, s).tables
         /\ s \in Columns => s \in Executed(f, s).columns
         /\ s = "metadata" => Executed(f, s).format # "none"
<1>. DEFINE g == Executed(f, s)
<1>0. /\ s \in Tables => s \notin Columns /\ s \notin {"format", "idx_level", "metadata"}
      /\ s \in Columns => s \notin {"format", "idx_level", "metadata"}
  BY DEF Tables, Columns
<1>1. CASE s \in Tables \ f.tables
  <2>1. g = [f EXCEPT !.tables = f.tables \cup {s}, !.columns = f.columns \cup NewColumns(s)]
    BY <1>0, <1>1 DEF Executed
  <2>2. NewColumns(s) \subseteq Columns
    BY DEF NewColumns, Columns
  <2>3. /\ g \in Content /\ g.sound = f.sound /\ g.history = f.history /\ g.format = f.format
        /\ g.tables = f.tables \cup {s} /\ g.columns = f.columns \cup NewColumns(s)
    <3>. HIDE DEF g
    <3>. QED
      BY <1>1, <2>1, <2>2 DEF Content
  <2>. QED
    BY <1>0, <1>1, <2>3 DEF Grown
<1>2. CASE s \in Columns
  <2>1. g = [f EXCEPT !.columns = f.columns \cup {s}]
    BY <1>0, <1>2 DEF Executed
  <2>2. /\ g \in Content /\ g.sound = f.sound /\ g.history = f.history /\ g.format = f.format
        /\ g.tables = f.tables /\ g.columns = f.columns \cup {s}
    <3>. HIDE DEF g
    <3>. QED
      BY <1>2, <2>1 DEF Content
  <2>. QED
    BY <1>0, <1>2, <2>2 DEF Grown
<1>3. CASE s = "metadata"
  <2>1. g = WithMetadata(f)
    BY <1>0, <1>3 DEF Executed
  <2>. QED
    BY <1>0, <1>3, <2>1, MetadataKeeps DEF Grown
<1>4. CASE s \in {"format", "idx_level"} \cup (Tables \cap f.tables)
  <2>1. s # "metadata" /\ s \notin Columns
    BY <1>0, <1>4
  <2>2. g = f
    BY <1>4, <2>1, <1>0 DEF Executed
  <2>. QED
    BY <1>0, <1>4, <2>1, <2>2 DEF Grown
<1>. QED
  BY <1>1, <1>2, <1>3, <1>4 DEF Statements

\* Open's statements, one by one.
LEMMA ScriptSteps ==
  /\ Len(Script) = 10
  /\ Script[1] = "format" /\ Script[2] = "errors" /\ Script[3] = "idx_level"
  /\ Script[4] = "occurrences" /\ Script[5] = "silences" /\ Script[6] = "level"
  /\ Script[7] = "tags" /\ Script[8] = "resolved_at" /\ Script[9] = "notified_at"
  /\ Script[10] = "metadata"
  /\ \A i \in 1 .. 10 : Script[i] \in Statements
<1>1. /\ Len(Script) = 10
      /\ Script[1] = "format" /\ Script[2] = "errors" /\ Script[3] = "idx_level"
      /\ Script[4] = "occurrences" /\ Script[5] = "silences" /\ Script[6] = "level"
      /\ Script[7] = "tags" /\ Script[8] = "resolved_at" /\ Script[9] = "notified_at"
      /\ Script[10] = "metadata"
  BY DEF Script
<1>2. ASSUME NEW i \in 1 .. 10 PROVE Script[i] \in Statements
  <2>1. i \in {1, 2, 3, 4, 5, 6, 7, 8, 9, 10}
    OBVIOUS
  <2>. QED
    BY <1>1, <2>1 DEF Statements, Tables, Columns
<1>. QED
  BY <1>1, <1>2
-----------------------------------------------------------------------------
(* Types, and how far Open has come                                        *)

\* What is done of Open's script before its statement k.
Passed(f, k) ==
  /\ k > 1 => KnownFormat(f)
  /\ k > 2 => "errors" \in f.tables
  /\ k > 4 => "occurrences" \in f.tables
  /\ k > 5 => "silences" \in f.tables
  /\ k > 6 => "level" \in f.columns
  /\ k > 7 => "tags" \in f.columns
  /\ k > 8 => "resolved_at" \in f.columns
  /\ k > 9 => "notified_at" \in f.columns

Complete(f) ==
  /\ f.sound /\ f.format = "1"
  /\ f.tables = Tables /\ f.columns = Columns

\* A server at work has a file, and has done with it what its place in the
\* script says, whatever others did to the file meanwhile.
OpenInv ==
  \A o \in Servers :
    opener[o].pc \in {"opening", "open"} =>
      /\ dest # None
      /\ Passed(dest.file, opener[o].step)
      /\ opener[o].pc = "open" => Complete(dest.file)

\* What is done stays done.
LEMMA GrownKeeps ==
  ASSUME NEW f \in Content, NEW g \in Content, Grown(f, g)
  PROVE  /\ \A k \in 1 .. 10 : Passed(f, k) => Passed(g, k)
         /\ Complete(f) => Complete(g)
         /\ Restorable(f) => Restorable(g)
<1>1. KnownFormat(f) => KnownFormat(g)
  BY DEF KnownFormat, Grown
<1>2. /\ f.tables \subseteq g.tables /\ g.tables \subseteq Tables
      /\ f.columns \subseteq g.columns /\ g.columns \subseteq Columns
  BY ContentFields DEF Grown
<1>3. Complete(f) => Complete(g)
  BY <1>2 DEF Complete, Grown
<1>4. Restorable(f) => Restorable(g)
  BY <1>1, <1>2 DEF Restorable, Grown
<1>. QED
  BY <1>1, <1>2, <1>3, <1>4 DEF Passed

\* A statement that was executed brings the script one further, and the last
\* one completes the file.
LEMMA StatementDone ==
  ASSUME NEW f \in Content, NEW k \in 1 .. 10,
         Passed(f, k), Executable(f, Script[k])
  PROVE  LET g == Executed(f, Script[k])
         IN  /\ g \in Content /\ Grown(f, g)
             /\ k < 10 => Passed(g, k + 1)
             /\ k = 10 => Passed(g, k) /\ Complete(g)
<1>. DEFINE s == Script[k]
            g == Executed(f, s)
<1>1. s \in Statements
  BY ScriptSteps
<1>2. /\ g \in Content /\ Grown(f, g)
      /\ s \in Tables => s \in g.tables
      /\ s \in Columns => s \in g.columns
      /\ s = "metadata" => g.format # "none"
  BY <1>1, ExecutedGrows
<1>3. s = "format" => KnownFormat(f)
  BY DEF Executable
<1>. HIDE DEF g
<1>4. Passed(g, k)
  BY <1>2, GrownKeeps
<1>5. KnownFormat(f) => KnownFormat(g)
  BY <1>2 DEF KnownFormat, Grown
<1>6. k < 10 => Passed(g, k + 1)
  <2>1. k \in {1, 2, 3, 4, 5, 6, 7, 8, 9, 10}
    OBVIOUS
  <2>2. /\ k = 1 => KnownFormat(g)
        /\ k = 2 => "errors" \in g.tables
        /\ k = 4 => "occurrences" \in g.tables
        /\ k = 5 => "silences" \in g.tables
        /\ k = 6 => "level" \in g.columns
        /\ k = 7 => "tags" \in g.columns
        /\ k = 8 => "resolved_at" \in g.columns
        /\ k = 9 => "notified_at" \in g.columns
    BY <1>2, <1>3, <1>5, ScriptSteps DEF Tables, Columns
  <2>. HIDE DEF s
  <2>. QED
    BY <1>4, <2>1, <2>2 DEF Passed
<1>7. k = 10 => Complete(g)
  <2>. SUFFICES ASSUME k = 10 PROVE Complete(g)
    OBVIOUS
  <2>1. KnownFormat(g) /\ g.format # "none"
    BY <1>2, <1>4, ScriptSteps DEF Passed
  <2>2. Tables \subseteq g.tables /\ Columns \subseteq g.columns
    BY <1>4 DEF Passed, Tables, Columns
  <2>3. g.tables \subseteq Tables /\ g.columns \subseteq Columns
    BY <1>2, ContentFields
  <2>. QED
    BY <2>1, <2>2, <2>3 DEF Complete, KnownFormat
<1>. QED
  BY <1>2, <1>4, <1>6, <1>7 DEF g

\* A column that is there needs no migration.
LEMMA ColumnThere ==
  ASSUME NEW f \in Content, NEW k \in 1 .. 10, Passed(f, k),
         Script[k] \in Columns, Script[k] \in f.columns
  PROVE  k < 10 /\ Passed(f, k + 1)
<1>1. k \in 6 .. 9
  <2>1. k \in {1, 2, 3, 4, 5, 6, 7, 8, 9, 10}
    OBVIOUS
  <2>2. k \notin {1, 2, 3, 4, 5, 10}
    BY ScriptSteps DEF Columns
  <2>. QED
    BY <2>1, <2>2
<1>2. /\ k = 6 => "level" \in f.columns
      /\ k = 7 => "tags" \in f.columns
      /\ k = 8 => "resolved_at" \in f.columns
      /\ k = 9 => "notified_at" \in f.columns
  BY ScriptSteps
<1>. QED
  BY <1>1, <1>2 DEF Passed

\* The fields of a restore's record have the types of the record.
LEMMA RestorerFields ==
  ASSUME NEW x \in Restorer
  PROVE  x.stage \in Content /\ x.snapshot \in {None, "then"}
BY DEF Restorer

\* The fields of a server's record have the types of the record.
LEMMA OpenerFields ==
  ASSUME NEW x \in Opener
  PROVE  /\ x.pc \in {"closed", "opening", "open", "refused"}
         /\ x.step \in 1 .. 10 /\ x.missing \in BOOLEAN
BY ScriptSteps DEF Opener

\* A change of where a restore stands keeps the types.
LEMMA GotoTyped ==
  ASSUME TypeOK, NEW r \in Restorers,
         NEW pc \in {"idle", "checked", "staged", "verified", "prepared", "dated", "synced",
                     "published", "failing", "ok", "failed", "killed"},
         Goto(r, pc)
  PROVE  restorer' \in [Restorers -> Restorer]
BY DEF TypeOK, Goto, Restorer

\* So does a change of its stage.
LEMMA StagedTyped ==
  ASSUME TypeOK, NEW r \in Restorers,
         NEW pc \in {"staged", "prepared", "dated"}, NEW f \in Content,
         restorer' = [restorer EXCEPT ![r].pc = pc, ![r].stage = f]
  PROVE  restorer' \in [Restorers -> Restorer]
<1>1. restorer[r] \in Restorer
  BY DEF TypeOK
<1>2. restorer'[r] = [[restorer[r] EXCEPT !.pc = pc] EXCEPT !.stage = f]
  BY DEF TypeOK
<1>3. restorer'[r] \in Restorer
  BY <1>1, <1>2 DEF Restorer
<1>4. /\ restorer' = [q \in Restorers |-> restorer'[q]]
      /\ \A q \in Restorers \ {r} : restorer'[q] = restorer[q]
  BY DEF TypeOK
<1>. QED
  BY <1>3, <1>4 DEF TypeOK

\* A restore's steps keep the types, leave the servers alone, and change the
\* destination only by creating it.
LEMMA RunTyped ==
  ASSUME TypeOK, NEW r \in Restorers, Run(r)
  PROVE  /\ TypeOK' /\ UNCHANGED <<opener, sidecar>>
         /\ dest' = dest \/ dest = None
<1>1. CASE CheckPaths(r)
  BY <1>1, GotoTyped DEF CheckPaths, TypeOK, opening
<1>2. CASE Stage(r)
  <2>1. PICK file \in Inputs :
          restorer' = [restorer EXCEPT ![r].pc = "staged", ![r].stage = file]
    BY <1>2 DEF Stage
  <2>2. restorer' \in [Restorers -> Restorer]
    <3>1. file \in Content
      BY <2>1
    <3>. QED
      BY <2>1, <3>1, StagedTyped
  <2>. QED
    BY <1>2, <2>2 DEF Stage, TypeOK, opening
<1>3. CASE Verify(r)
  <2>1. restorer[r].stage.history.snapshot \in {None, "then"}
    <3>1. restorer[r].stage.history \in History
      BY RestorerFields, ContentFields DEF TypeOK
    <3>. QED
      BY <1>3, <3>1 DEF Verify, Checked, Restorable, History
  <2>2. restorer' \in [Restorers -> Restorer]
    <3>1. restorer'[r] \in Restorer
      BY <1>3, <2>1 DEF Verify, Checked, TypeOK, Restorer
    <3>. QED
      BY <1>3, <3>1 DEF Verify, TypeOK
  <2>. QED
    BY <1>3, <2>2 DEF Verify, TypeOK, opening
<1>4. CASE Prepare(r)
  <2>1. WithMetadata(restorer[r].stage) \in Content
    BY RestorerFields, MetadataKeeps DEF TypeOK
  <2>2. restorer' \in [Restorers -> Restorer]
    <3>1. restorer' = [restorer EXCEPT ![r].pc = "prepared",
                                       ![r].stage = WithMetadata(restorer[r].stage)]
      BY <1>4 DEF Prepare, TypeOK, Restorer
    <3>. QED
      BY <2>1, <3>1, StagedTyped
  <2>. QED
    BY <1>4, <2>2 DEF Prepare, TypeOK, opening
<1>5. CASE Date(r)
  <2>1. [restorer[r].stage EXCEPT !.history =
           [NoHistory EXCEPT !.restored = r, !.ofSnapshot = restorer[r].snapshot]] \in Content
    <3>1. [NoHistory EXCEPT !.restored = r, !.ofSnapshot = restorer[r].snapshot] \in History
      BY RestorerFields DEF TypeOK, NoHistory, History
    <3>. QED
      BY <3>1, RestorerFields DEF TypeOK, Content
  <2>2. restorer' \in [Restorers -> Restorer]
    <3>1. restorer' = [restorer EXCEPT ![r].pc = "dated",
             ![r].stage = [restorer[r].stage EXCEPT !.history =
               [NoHistory EXCEPT !.restored = r, !.ofSnapshot = restorer[r].snapshot]]]
      BY <1>5 DEF Date, TypeOK, Restorer
    <3>. QED
      BY <2>1, <3>1, StagedTyped
  <2>. QED
    BY <1>5, <2>2 DEF Date, TypeOK, opening
<1>6. CASE Sync(r)
  BY <1>6, GotoTyped DEF Sync, TypeOK, opening
<1>7. CASE Publish(r)
  <2>1. CASE LinkAllowed
    <3>1. restorer' \in [Restorers -> Restorer]
      BY <1>7, <2>1, GotoTyped DEF Publish
    <3>2. dest' \in Destination
      <4>1. restorer[r].stage \in Content
        BY RestorerFields DEF TypeOK
      <4>2. dest' = [file |-> restorer[r].stage, by |-> r, durable |-> TRUE]
        BY <1>7, <2>1 DEF Publish
      <4>. QED
        BY <4>1, <4>2 DEF Destination
    <3>. QED
      BY <1>7, <2>1, <3>1, <3>2 DEF Publish, LinkAllowed, TypeOK, opening
  <2>2. CASE ~LinkAllowed
    BY <1>7, <2>2, GotoTyped DEF Publish, PublishFails, TypeOK, opening
  <2>. QED
    BY <2>1, <2>2
<1>8. CASE Return(r)
  <2>1. restorer' \in [Restorers -> Restorer]
    BY <1>8, GotoTyped DEF Return
  <2>. QED
    BY <1>8, <2>1 DEF Return, TypeOK, opening
<1>9. CASE Fail(r)
  BY <1>9, GotoTyped DEF Fail, TypeOK, opening
<1>10. CASE Kill(r)
  BY <1>10, GotoTyped DEF Kill, TypeOK, opening
<1>. QED
  BY <1>1, <1>2, <1>3, <1>4, <1>5, <1>6, <1>7, <1>8, <1>9, <1>10 DEF Run

\* Open's next place in the script, for one server.
LEMMA Advanced ==
  ASSUME TypeOK, NEW o \in Servers, opener' = Advance(o)
  PROVE  /\ opener' \in [Servers -> Opener]
         /\ \A p \in Servers \ {o} : opener'[p] = opener[p]
         /\ opener[o].step < 10 =>
              opener'[o].pc = opener[o].pc /\ opener'[o].step = opener[o].step + 1
         /\ opener[o].step = 10 => opener'[o].pc = "open" /\ opener'[o].step = 10
<1>1. opener[o] \in Opener /\ opener[o].step \in 1 .. 10
  BY OpenerFields DEF TypeOK
<1>2. /\ opener'[o].pc = IF opener[o].step = 10 THEN "open" ELSE opener[o].pc
      /\ opener'[o].step = IF opener[o].step = 10 THEN 10 ELSE opener[o].step + 1
      /\ \A p \in Servers \ {o} : opener'[p] = opener[p]
      /\ opener' = [p \in Servers |-> opener'[p]]
  BY <1>1, ScriptSteps DEF TypeOK, Advance, Opener
<1>3. opener'[o] \in Opener
  <2>1. opener'[o].missing = FALSE
    BY <1>1 DEF TypeOK, Advance, Opener
  <2>2. opener'[o] = [pc |-> opener'[o].pc, step |-> opener'[o].step, missing |-> opener'[o].missing]
    BY <1>1 DEF TypeOK, Advance, Opener
  <2>3. opener'[o].pc \in {"closed", "opening", "open", "refused"} /\ opener'[o].step \in 1 .. 10
    BY <1>1, <1>2, OpenerFields
  <2>. QED
    BY <2>1, <2>2, <2>3, ScriptSteps DEF Opener
<1>. QED
  BY <1>1, <1>2, <1>3 DEF TypeOK

\* What a server's step may do to a destination that exists.
DestGrown ==
  /\ dest' \in Destination /\ dest'.by = dest.by /\ dest'.durable = dest.durable
  /\ Grown(dest.file, dest'.file)

\* The fields of a destination have the types of its record.
LEMMA DestFields ==
  ASSUME NEW d \in Destination
  PROVE  d.file \in Content /\ d.by \in Restorers \cup Servers /\ d.durable \in BOOLEAN
BY DEF Destination

\* Doing nothing to the destination keeps it in this sense.
LEMMA DestUnchanged ==
  ASSUME dest \in Destination, UNCHANGED dest
  PROVE  DestGrown
BY DEF DestGrown, Grown

\* An executed statement adds to the destination and brings its server further.
LEMMA ExecuteEffect ==
  ASSUME TypeOK, OpenInv, NEW o \in Servers, Execute(o)
  PROVE  /\ opener' \in [Servers -> Opener] /\ DestGrown
         /\ \A p \in Servers \ {o} : opener'[p] = opener[p]
         /\ opener'[o].pc \in {"opening", "open"} =>
              /\ Passed(dest'.file, opener'[o].step)
              /\ opener'[o].pc = "open" => Complete(dest'.file)
<1>. DEFINE k == opener[o].step
            g == Executed(dest.file, Script[k])
<1>1. /\ opener[o].pc = "opening" /\ k \in 1 .. 10
      /\ dest \in Destination /\ dest.file \in Content
      /\ Passed(dest.file, k)
  <2>1. opener[o].pc = "opening"
    BY DEF Execute
  <2>2. dest # None /\ Passed(dest.file, k)
    BY <2>1 DEF OpenInv
  <2>. QED
    BY <2>1, <2>2, OpenerFields, DestFields DEF TypeOK
<1>2. CASE Executable(dest.file, Script[k])
  <2>1. /\ dest' = [dest EXCEPT !.file = Executed(dest.file, Script[k])]
        /\ opener' = Advance(o)
    BY <1>2 DEF Execute, Statement
  <2>2. /\ g \in Content /\ Grown(dest.file, g)
        /\ k < 10 => Passed(g, k + 1)
        /\ k = 10 => Passed(g, k) /\ Complete(g)
    BY <1>1, <1>2, StatementDone
  <2>. HIDE DEF g
  <2>3. /\ dest' \in Destination /\ dest'.by = dest.by /\ dest'.durable = dest.durable
        /\ dest'.file = g
    BY <1>1, <2>1, <2>2 DEF Destination, g
  <2>4. /\ opener' \in [Servers -> Opener]
        /\ \A p \in Servers \ {o} : opener'[p] = opener[p]
        /\ k < 10 => opener'[o].pc = "opening" /\ opener'[o].step = k + 1
        /\ k = 10 => opener'[o].pc = "open" /\ opener'[o].step = 10
    BY <1>1, <2>1, Advanced
  <2>. HIDE DEF k
  <2>. QED
    BY <1>1, <2>2, <2>3, <2>4 DEF DestGrown
<1>3. CASE ~Executable(dest.file, Script[k])
  <2>1. /\ opener' = [opener EXCEPT ![o].pc = "refused"] /\ UNCHANGED dest
    BY <1>3 DEF Execute, Statement
  <2>2. /\ opener' \in [Servers -> Opener]
        /\ \A p \in Servers \ {o} : opener'[p] = opener[p]
        /\ opener'[o].pc = "refused"
    BY <2>1 DEF TypeOK, Opener
  <2>. QED
    BY <1>1, <2>1, <2>2, DestUnchanged
<1>. QED
  BY <1>2, <1>3

\* A server's steps keep the types and what Open has done; they leave restores
\* alone, only add to a destination, and touch no sidecar of a missing one.
LEMMA ServerStep ==
  ASSUME TypeOK, OpenInv, NEW o \in Servers,
         OpenFile(o) \/ Opening(o) \/ Mishap(o) \/ Close(o)
  PROVE  /\ TypeOK' /\ OpenInv' /\ UNCHANGED <<restorer, leftovers>>
         /\ dest # None => DestGrown
         /\ dest = None => /\ UNCHANGED sidecar
                           /\ dest' = None \/ dest' = [file |-> Empty, by |-> o, durable |-> TRUE]
<1>0. /\ dest # None => dest \in Destination
      /\ opener[o] \in Opener
  BY DEF TypeOK
<1>1. CASE OpenFile(o)
  <2>1. /\ opener' \in [Servers -> Opener]
        /\ \A p \in Servers \ {o} : opener'[p] = opener[p]
        /\ opener'[o].pc = "opening" /\ opener'[o].step = 1
    BY <1>1, ScriptSteps DEF OpenFile, TypeOK, Opener
  <2>2. /\ dest = None => dest' = [file |-> Empty, by |-> o, durable |-> TRUE]
        /\ dest # None => UNCHANGED dest
        /\ UNCHANGED <<input, restorer, leftovers, sidecar, mishaps>>
    BY <1>1 DEF OpenFile, restoring
  <2>3. dest' \in Destination
    <3>1. CASE dest = None
      <4>1. dest' = [file |-> Empty, by |-> o, durable |-> TRUE]
        BY <2>2, <3>1
      <4>. QED
        BY <4>1, EmptyTyped DEF Destination
    <3>2. CASE dest # None
      BY <1>0, <2>2, <3>2
    <3>. QED
      BY <3>1, <3>2
  <2>4. TypeOK'
    BY <2>1, <2>2, <2>3 DEF TypeOK
  <2>5. OpenInv'
    BY <2>1, <2>2, <2>3 DEF OpenInv, Passed
  <2>. QED
    BY <1>0, <2>2, <2>4, <2>5, DestUnchanged
<1>2. CASE ColumnExists(o)
  <2>1. /\ opener[o].pc = "opening" /\ UNCHANGED <<input, restorer, leftovers, dest, sidecar, mishaps>>
        /\ Script[opener[o].step] \in Columns
    BY <1>2 DEF ColumnExists, restoring, Statement
  <2>2. /\ dest # None /\ Passed(dest.file, opener[o].step)
        /\ dest.file \in Content /\ opener[o].step \in 1 .. 10
    BY <1>0, <2>1, OpenerFields, DestFields DEF OpenInv
  <2>3. CASE Missing(o)
    <3>1. /\ opener' \in [Servers -> Opener]
          /\ \A p \in Servers \ {o} : opener'[p] = opener[p]
          /\ opener'[o].pc = "opening" /\ opener'[o].step = opener[o].step
      BY <1>2, <2>1, <2>3 DEF ColumnExists, TypeOK, Opener
    <3>2. OpenInv'
      BY <2>1, <2>2, <3>1 DEF OpenInv
    <3>. QED
      BY <1>0, <2>1, <2>2, <3>1, <3>2, DestUnchanged DEF TypeOK
  <2>4. CASE ~Missing(o)
    <3>1. opener' = Advance(o) /\ Script[opener[o].step] \in dest.file.columns
      BY <1>2, <2>4 DEF ColumnExists, Missing, Statement
    <3>2. opener[o].step < 10 /\ Passed(dest.file, opener[o].step + 1)
      BY <2>1, <2>2, <3>1, ColumnThere
    <3>3. /\ opener' \in [Servers -> Opener]
          /\ \A p \in Servers \ {o} : opener'[p] = opener[p]
          /\ opener'[o].pc = "opening" /\ opener'[o].step = opener[o].step + 1
      BY <2>1, <3>1, <3>2, Advanced
    <3>4. OpenInv'
      BY <2>1, <2>2, <3>2, <3>3 DEF OpenInv
    <3>. QED
      BY <1>0, <2>1, <2>2, <3>3, <3>4, DestUnchanged DEF TypeOK
  <2>. QED
    BY <2>3, <2>4
<1>3. CASE Execute(o)
  <2>1. /\ opener' \in [Servers -> Opener] /\ DestGrown
        /\ \A p \in Servers \ {o} : opener'[p] = opener[p]
        /\ opener'[o].pc \in {"opening", "open"} =>
             /\ Passed(dest'.file, opener'[o].step)
             /\ opener'[o].pc = "open" => Complete(dest'.file)
    BY <1>3, ExecuteEffect
  <2>2. /\ dest # None /\ dest' \in Destination /\ dest' # None
        /\ UNCHANGED <<input, restorer, leftovers, mishaps>> /\ sidecar' \in BOOLEAN
    BY <1>3, <2>1 DEF Execute, OpenInv, DestGrown, restoring, TypeOK
  <2>3. ASSUME NEW p \in Servers \ {o}, opener[p].pc \in {"opening", "open"}
        PROVE  /\ Passed(dest'.file, opener[p].step)
               /\ opener[p].pc = "open" => Complete(dest'.file)
    <3>1. /\ dest.file \in Content /\ dest'.file \in Content /\ Grown(dest.file, dest'.file)
      BY <1>0, <2>1, <2>2, DestFields DEF DestGrown
    <3>2. /\ Passed(dest.file, opener[p].step) /\ opener[p].step \in 1 .. 10
          /\ opener[p].pc = "open" => Complete(dest.file)
      BY <2>3, OpenerFields DEF OpenInv, TypeOK
    <3>. QED
      BY <3>1, <3>2, GrownKeeps
  <2>4. OpenInv'
    BY <2>1, <2>2, <2>3 DEF OpenInv
  <2>. QED
    BY <2>1, <2>2, <2>4 DEF TypeOK
<1>4. CASE Mishap(o)
  <2>1. /\ opener' \in [Servers -> Opener]
        /\ \A p \in Servers \ {o} : opener'[p] = opener[p]
        /\ opener'[o].pc = "closed"
    BY <1>4 DEF Mishap, TypeOK, Opener
  <2>2. UNCHANGED <<input, restorer, leftovers, dest, sidecar>> /\ mishaps' \in 0 .. MaxMishaps
    BY <1>4 DEF Mishap, TypeOK, restoring
  <2>3. OpenInv'
    BY <2>1, <2>2 DEF OpenInv
  <2>. QED
    BY <1>0, <2>1, <2>2, <2>3, DestUnchanged DEF TypeOK
<1>5. CASE Close(o)
  <2>1. /\ opener' \in [Servers -> Opener]
        /\ \A p \in Servers \ {o} : opener'[p] = opener[p]
        /\ opener'[o].pc = "closed"
    BY <1>5 DEF Close, TypeOK, Opener
  <2>2. /\ UNCHANGED <<input, restorer, leftovers, dest, mishaps>> /\ sidecar' \in BOOLEAN
        /\ dest # None
    BY <1>5 DEF Close, TypeOK, OpenInv, restoring
  <2>3. OpenInv'
    BY <2>1, <2>2 DEF OpenInv
  <2>. QED
    BY <1>0, <2>1, <2>2, <2>3, DestUnchanged DEF TypeOK
<1>. QED
  BY <1>1, <1>2, <1>3, <1>4, <1>5 DEF Opening

\* The types and Open's progress are inductive together.
LEMMA OpenInductive ==
  /\ Init => TypeOK /\ OpenInv
  /\ TypeOK /\ OpenInv /\ [Next]_vars => TypeOK' /\ OpenInv'
<1>1. Init => TypeOK /\ OpenInv
  BY EmptyTyped, ScriptSteps DEF Init, TypeOK, OpenInv, Restorer, Opener
<1>2. ASSUME TypeOK, OpenInv, [Next]_vars PROVE TypeOK' /\ OpenInv'
  <2>1. CASE UNCHANGED vars
    BY <1>2, <2>1 DEF vars, restoring, opening, TypeOK, OpenInv
  <2>2. CASE Rewrite
    BY <1>2, <2>2 DEF Rewrite, restoring, opening, TypeOK, OpenInv
  <2>3. ASSUME NEW r \in Restorers, Run(r) PROVE TypeOK' /\ OpenInv'
    BY <1>2, <2>3, RunTyped DEF OpenInv
  <2>4. ASSUME NEW o \in Servers, OpenFile(o) \/ Opening(o) \/ Mishap(o) \/ Close(o)
        PROVE  TypeOK' /\ OpenInv'
    BY <1>2, <2>4, ServerStep
  <2>. QED
    BY <1>2, <2>1, <2>2, <2>3, <2>4 DEF Next
<1>. QED
  BY <1>1, <1>2

\* The variables keep their types, and a server has done with the file what its
\* place in Open's script says.
THEOREM OpenAlwaysInPlace == Spec => [](TypeOK /\ OpenInv)
<1>1. Init => TypeOK /\ OpenInv
  BY OpenInductive
<1>2. TypeOK /\ OpenInv /\ [Next]_vars => (TypeOK /\ OpenInv)'
  BY OpenInductive
<1>. QED
  BY <1>1, <1>2, PTL DEF Spec

\* A database that Open returned is complete, whatever file it found, however
\* often upgrades were interrupted and however many servers upgrade at once.
THEOREM OpenAlwaysComplete == Spec => []OpenIsComplete
<1>1. TypeOK /\ OpenInv => OpenIsComplete
  BY DEF OpenInv, OpenIsComplete, Complete
<1>. QED
  BY <1>1, OpenAlwaysInPlace, PTL
-----------------------------------------------------------------------------
(* What restores publish                                                   *)

\* A stage that was verified stays restorable until it is published, and the
\* date found then is the one its new history tells.
StageInv ==
  \A r \in Restorers :
    /\ restorer[r].pc \in {"verified", "prepared", "dated", "synced"} =>
         Restorable(restorer[r].stage)
    /\ restorer[r].pc \in {"dated", "synced"} =>
         restorer[r].stage.history =
           [NoHistory EXCEPT !.restored = r, !.ofSnapshot = restorer[r].snapshot]

\* A restored destination belongs to the restore that has published it, which
\* changes no more; and no sidecar lies where a restore may yet publish.
PublishedInv ==
  /\ PublishedIsChecked
  /\ Restored => restorer[dest.by].pc \in {"published", "ok", "failed", "killed"}
  /\ \A r \in Restorers : restorer[r].pc = "published" => dest # None /\ dest.by = r
  /\ OutcomeTold
  /\ dest = None => \A r \in Restorers : Staging(r) => ~sidecar

RestoreInv == TypeOK /\ OpenInv /\ StageInv /\ PublishedInv

\* The fields that a step of a restore writes.
LEMMA GotoFields ==
  ASSUME TypeOK, NEW r \in Restorers, NEW pc, Goto(r, pc)
  PROVE  /\ \A q \in Restorers \ {r} : restorer'[q] = restorer[q]
         /\ restorer'[r].pc = pc
         /\ restorer'[r].stage = restorer[r].stage
         /\ restorer'[r].snapshot = restorer[r].snapshot
BY DEF TypeOK, Goto, Restorer

\* A step of restore r, as the invariants see it.
LEMMA RunEffect ==
  ASSUME TypeOK, StageInv, NEW r \in Restorers, Run(r)
  PROVE  /\ \A q \in Restorers \ {r} : restorer'[q] = restorer[q]
         /\ restorer'[r].pc \in {"verified", "prepared", "dated", "synced"} =>
              Restorable(restorer'[r].stage)
         /\ restorer'[r].pc \in {"dated", "synced"} =>
              restorer'[r].stage.history =
                [NoHistory EXCEPT !.restored = r, !.ofSnapshot = restorer'[r].snapshot]
<1>0. restorer[r] \in Restorer /\ restorer[r].stage \in Content
  BY RestorerFields DEF TypeOK
<1>1. CASE \E pc \in {"checked", "published", "failing", "ok", "failed", "killed"} : Goto(r, pc)
  BY <1>1, GotoFields
<1>2. CASE Stage(r)
  BY <1>2 DEF Stage, TypeOK, Restorer
<1>3. CASE Verify(r)
  BY <1>3 DEF Verify, Checked, TypeOK, Restorer
<1>4. CASE Prepare(r)
  <2>1. Restorable(WithMetadata(restorer[r].stage))
    <3>1. Restorable(restorer[r].stage)
      BY <1>4 DEF Prepare, StageInv
    <3>. QED
      BY <1>0, <3>1, MetadataKeeps DEF Restorable, KnownFormat
  <2>2. /\ restorer'[r].stage = WithMetadata(restorer[r].stage) /\ restorer'[r].pc = "prepared"
        /\ \A q \in Restorers \ {r} : restorer'[q] = restorer[q]
    BY <1>4 DEF Prepare, TypeOK, Restorer
  <2>. QED
    BY <2>1, <2>2
<1>5. CASE Date(r)
  <2>. DEFINE h == [NoHistory EXCEPT !.restored = r, !.ofSnapshot = restorer[r].snapshot]
              f == [restorer[r].stage EXCEPT !.history = h]
  <2>1. /\ restorer'[r].stage = f /\ restorer'[r].pc = "dated"
        /\ restorer'[r].snapshot = restorer[r].snapshot
        /\ \A q \in Restorers \ {r} : restorer'[q] = restorer[q]
    BY <1>5 DEF Date, TypeOK, Restorer
  <2>2. h.snapshot # "garbled"
    BY DEF NoHistory
  <2>3. Restorable(restorer[r].stage)
    BY <1>5 DEF Date, StageInv
  <2>. HIDE DEF h
  <2>4. Restorable(f) /\ f.history = h
    BY <1>0, <2>2, <2>3 DEF Restorable, KnownFormat, Content
  <2>. QED
    BY <2>1, <2>4 DEF h
<1>6. CASE Sync(r)
  <2>1. Goto(r, "synced") /\ restorer[r].pc = "dated"
    BY <1>6 DEF Sync
  <2>. QED
    BY <2>1, GotoFields DEF StageInv
<1>7. CASE CheckPaths(r) \/ Publish(r) \/ Return(r) \/ Fail(r) \/ Kill(r)
  BY <1>1, <1>7 DEF CheckPaths, Publish, PublishFails, Return, Fail, Kill
<1>. QED
  BY <1>2, <1>3, <1>4, <1>5, <1>6, <1>7 DEF Run

\* A step of a restore other than its publication leaves the destination, and
\* what became of the restore that published it.
LEMMA RunQuiet ==
  ASSUME RestoreInv, NEW r \in Restorers, Run(r), UNCHANGED <<dest, sidecar>>
  PROVE  PublishedInv'
<1>1. /\ TypeOK /\ StageInv /\ PublishedInv
  BY DEF RestoreInv
<1>2. \A q \in Restorers \ {r} : restorer'[q] = restorer[q]
  BY <1>1, RunEffect
<1>3. CASE Staging(r) \/ restorer[r].pc = "idle"
  <2>1. ~(Restored /\ dest.by = r)
    BY <1>1, <1>3 DEF PublishedInv, Staging
  <2>2. /\ restorer'[r].pc \in {"checked", "staged", "verified", "prepared", "dated", "synced",
                               "failing", "failed", "killed"}
        /\ Staging(r)' => Staging(r) \/ DestinationFree
    <3>1. CASE Stage(r)
      BY <1>1, <1>3, <3>1 DEF Stage, TypeOK, Restorer, Staging
    <3>2. CASE Verify(r)
      BY <1>1, <1>3, <3>2 DEF Verify, TypeOK, Restorer, Staging
    <3>3. CASE Prepare(r)
      BY <1>1, <1>3, <3>3 DEF Prepare, TypeOK, Restorer, Staging
    <3>4. CASE Date(r)
      BY <1>1, <1>3, <3>4 DEF Date, TypeOK, Restorer, Staging
    <3>5. CASE CheckPaths(r)
      BY <1>1, <3>5, GotoFields DEF CheckPaths, Staging
    <3>6. CASE Sync(r)
      BY <1>1, <3>6, GotoFields DEF Sync, Staging
    <3>7. CASE Publish(r)
      <4>1. Goto(r, "failing") \/ dest' = [file |-> restorer[r].stage, by |-> r, durable |-> TRUE]
        BY <3>7 DEF Publish, PublishFails
      <4>2. Goto(r, "failing")
        <5>1. CASE dest' = [file |-> restorer[r].stage, by |-> r, durable |-> TRUE]
          <6>1. dest.by = r
            BY <5>1
          <6>2. dest' \in Destination
            BY <1>1, <5>1, RestorerFields DEF TypeOK, Destination
          <6>. QED
            BY <2>1, <6>1, <6>2 DEF Restored
        <5>. QED
          BY <4>1, <5>1
      <4>. QED
        BY <1>1, <4>2, GotoFields DEF Staging
    <3>8. CASE Fail(r) \/ Kill(r)
      BY <1>1, <3>8, GotoFields DEF Fail, Kill, Staging
    <3>9. ~Return(r)
      BY <1>3 DEF Return, Staging
    <3>. QED
      BY <3>1, <3>2, <3>3, <3>4, <3>5, <3>6, <3>7, <3>8, <3>9 DEF Run
  <2>3. leftovers' = leftovers \/ leftovers' = leftovers \cup {r}
    BY <1>3 DEF Run, CheckPaths, Stage, Verify, Prepare, Date, Sync, Publish, Return, Fail, Kill
  <2>4. PublishedIsChecked' /\ Restored' = Restored
    BY <1>1, <1>2, <2>1 DEF PublishedInv, PublishedIsChecked, Restored
  <2>5. OutcomeTold'
    BY <1>1, <1>2, <2>1, <2>2, <2>3 DEF PublishedInv, OutcomeTold, Restored
  <2>6. dest' = None => \A q \in Restorers : Staging(q)' => ~sidecar'
    BY <1>1, <1>2, <2>2 DEF PublishedInv, Staging, DestinationFree
  <2>. QED
    BY <1>1, <1>2, <2>1, <2>2, <2>4, <2>5, <2>6 DEF PublishedInv, Restored
<1>4. CASE Return(r) \/ Kill(r)
  <2>1. PICK pc \in {"ok", "failed", "killed"} :
          /\ Goto(r, pc)
          /\ pc = "ok" => restorer[r].pc = "published"
          /\ pc = "failed" /\ restorer[r].pc = "published" => r \in leftovers'
          /\ leftovers' = leftovers \/ leftovers' = leftovers \cup {r}
    BY <1>4 DEF Return, Kill
  <2>2. /\ restorer'[r].pc = pc /\ restorer'[r].snapshot = restorer[r].snapshot
    BY <1>1, <2>1, GotoFields
  <2>3. ~Staging(r)'
    BY <2>2 DEF Staging
  <2>4. PublishedIsChecked' /\ Restored' = Restored
    BY <1>1, <1>2, <2>2 DEF PublishedInv, PublishedIsChecked, Restored
  <2>5. restorer[r].pc = "published" \/ ~(Restored /\ dest.by = r)
    BY <1>1, <1>4 DEF PublishedInv, Return, Kill, Staging
  <2>6. OutcomeTold'
    BY <1>1, <1>2, <2>1, <2>2, <2>5 DEF PublishedInv, OutcomeTold, Restored
  <2>7. dest' = None => \A q \in Restorers : Staging(q)' => ~sidecar'
    BY <1>1, <1>2, <2>3 DEF PublishedInv, Staging
  <2>. QED
    BY <1>1, <1>2, <2>2, <2>4, <2>6, <2>7 DEF PublishedInv, Restored
<1>. QED
  BY <1>3, <1>4 DEF Run, CheckPaths, Stage, Verify, Prepare, Date, Sync, Publish, Fail, Kill, Staging

\* Publication, and the steps that leave the destination alone.
LEMMA RunKeeps ==
  ASSUME RestoreInv, NEW r \in Restorers, Run(r)
  PROVE  PublishedInv'
<1>1. /\ TypeOK /\ StageInv /\ PublishedInv
      /\ TypeOK' /\ UNCHANGED sidecar
  BY RunTyped DEF RestoreInv
<1>2. CASE UNCHANGED dest
  BY <1>1, <1>2, RunQuiet
<1>3. CASE ~UNCHANGED dest
  <2>1. /\ restorer[r].pc = "synced" /\ dest = None
        /\ dest' = [file |-> restorer[r].stage, by |-> r, durable |-> TRUE]
        /\ Goto(r, "published") /\ UNCHANGED leftovers
    BY <1>3 DEF Run, CheckPaths, Stage, Verify, Prepare, Date, Sync, Publish, PublishFails,
                LinkAllowed, Return, Fail, Kill
  <2>2. /\ \A q \in Restorers \ {r} : restorer'[q] = restorer[q]
        /\ restorer'[r].pc = "published" /\ restorer'[r].snapshot = restorer[r].snapshot
    BY <1>1, <2>1, GotoFields
  <2>3. dest' # None
    <3>1. dest' \in Destination
      BY <1>1, <2>1, RestorerFields DEF TypeOK, Destination
    <3>. QED
      BY <3>1
  <2>4. dest'.file = restorer[r].stage /\ dest'.by = r /\ dest'.durable
    BY <2>1
  <2>5. PublishedIsChecked'
    <3>1. /\ Restorable(restorer[r].stage)
          /\ restorer[r].stage.history =
               [NoHistory EXCEPT !.restored = r, !.ofSnapshot = restorer[r].snapshot]
      BY <1>1, <2>1 DEF StageInv
    <3>. QED
      BY <2>2, <2>4, <3>1 DEF PublishedIsChecked
  <2>6. OutcomeTold'
    <3>1. \A q \in Restorers : restorer[q].pc # "ok"
      BY <1>1, <2>1 DEF PublishedInv, OutcomeTold
    <3>. QED
      BY <2>1, <2>2, <2>4, <3>1 DEF OutcomeTold
  <2>7. \A q \in Restorers : restorer'[q].pc = "published" => dest' # None /\ dest'.by = q
    BY <1>1, <2>1, <2>2, <2>3, <2>4 DEF PublishedInv
  <2>. QED
    BY <2>2, <2>3, <2>4, <2>5, <2>6, <2>7 DEF PublishedInv, Restored
<1>. QED
  BY <1>2, <1>3

\* Servers add to a restored destination, and never restore one.
LEMMA ServerKeeps ==
  ASSUME RestoreInv, NEW o \in Servers,
         OpenFile(o) \/ Opening(o) \/ Mishap(o) \/ Close(o)
  PROVE  PublishedInv'
<1>1. /\ TypeOK /\ OpenInv /\ PublishedInv
  BY DEF RestoreInv
<1>2. /\ TypeOK' /\ UNCHANGED <<restorer, leftovers>>
      /\ dest # None => DestGrown
      /\ dest = None => /\ UNCHANGED sidecar
                        /\ dest' = None \/ dest' = [file |-> Empty, by |-> o, durable |-> TRUE]
  BY <1>1, ServerStep
<1>3. CASE dest # None
  <2>1. /\ dest' # None /\ dest'.by = dest.by /\ dest'.durable = dest.durable
        /\ dest.file \in Content /\ dest'.file \in Content /\ Grown(dest.file, dest'.file)
    BY <1>1, <1>2, <1>3, DestFields DEF DestGrown, TypeOK
  <2>2. Restorable(dest.file) => Restorable(dest'.file)
    BY <2>1, GrownKeeps
  <2>3. PublishedIsChecked'
    BY <1>1, <1>2, <1>3, <2>1, <2>2 DEF PublishedInv, PublishedIsChecked, Restored, Grown
  <2>. QED
    BY <1>1, <1>2, <1>3, <2>1, <2>3 DEF PublishedInv, OutcomeTold, Restored
<1>4. CASE dest = None
  <2>1. ~Restored'
    BY <1>2, <1>4 DEF Restored
  <2>2. \A r \in Restorers : restorer[r].pc \notin {"published", "ok"}
    BY <1>1, <1>4 DEF PublishedInv, OutcomeTold
  <2>3. OutcomeTold'
    BY <1>2, <2>1, <2>2 DEF OutcomeTold, Restored
  <2>4. dest' = None => \A r \in Restorers : Staging(r)' => ~sidecar'
    BY <1>1, <1>2, <1>4 DEF PublishedInv, Staging
  <2>. QED
    BY <1>2, <2>1, <2>2, <2>3, <2>4 DEF PublishedInv, PublishedIsChecked
<1>. QED
  BY <1>3, <1>4

\* The invariants about restores are inductive, given those about Open.
LEMMA RestoreInductive ==
  /\ Init => RestoreInv
  /\ RestoreInv /\ [Next]_vars => RestoreInv'
<1>1. Init => RestoreInv
  <2>. SUFFICES ASSUME Init PROVE RestoreInv
    OBVIOUS
  <2>1. dest = None /\ \A r \in Restorers : restorer[r].pc = "idle"
    BY DEF Init
  <2>. QED
    BY <2>1, OpenInductive DEF RestoreInv, StageInv, PublishedInv, PublishedIsChecked,
       Restored, OutcomeTold, Staging
<1>2. ASSUME RestoreInv, [Next]_vars PROVE RestoreInv'
  <2>0. TypeOK' /\ OpenInv'
    BY <1>2, OpenInductive DEF RestoreInv
  <2>1. CASE UNCHANGED vars \/ Rewrite
    <3>1. UNCHANGED <<restorer, leftovers, dest, sidecar>>
      BY <2>1 DEF vars, Rewrite, restoring
    <3>. QED
      BY <1>2, <2>0, <3>1 DEF RestoreInv, StageInv, PublishedInv, PublishedIsChecked,
         Restored, OutcomeTold, Staging
  <2>2. ASSUME NEW r \in Restorers, Run(r) PROVE StageInv' /\ PublishedInv'
    <3>1. StageInv'
      BY <1>2, <2>2, RunEffect DEF RestoreInv, StageInv
    <3>. QED
      BY <1>2, <2>2, <3>1, RunKeeps
  <2>3. ASSUME NEW o \in Servers, OpenFile(o) \/ Opening(o) \/ Mishap(o) \/ Close(o)
        PROVE  StageInv' /\ PublishedInv'
    <3>1. UNCHANGED restorer
      BY <1>2, <2>3, ServerStep DEF RestoreInv
    <3>2. StageInv'
      BY <1>2, <3>1 DEF RestoreInv, StageInv
    <3>. QED
      BY <1>2, <2>3, <3>2, ServerKeeps
  <2>. QED
    BY <1>2, <2>0, <2>1, <2>2, <2>3 DEF Next, RestoreInv
<1>. QED
  BY <1>1, <1>2

\* What a restore publishes is what it has checked, dated as it found it, and a
\* restore reports success only of a destination of its own, whatever servers,
\* other restores, kills and changes of the input come between its steps.
THEOREM RestoreAlwaysSound == Spec => []RestoreIsSound
<1>1. RestoreInv => RestoreIsSound
  BY DEF RestoreInv, PublishedInv, RestoreIsSound
<1>. QED
  BY <1>1, RestoreInductive, PTL DEF Spec

\* No restore and no server ever replaces a destination or takes from it, and no
\* restored database appears beside the sidecar of another.
THEOREM DestinationNeverReplaced == Spec => NeverReplaced
<1>1. ASSUME RestoreInv, [Next]_vars
      PROVE  [/\ dest # None =>
                   /\ dest' # None /\ dest'.by = dest.by
                   /\ dest.file.tables \subseteq dest'.file.tables
                   /\ dest.file.columns \subseteq dest'.file.columns
                   /\ dest'.file.history = dest.file.history
              /\ dest = None /\ Restored' => ~sidecar']_dest
  <2>1. TypeOK /\ OpenInv /\ PublishedInv /\ TypeOK'
    BY <1>1, RestoreInductive DEF RestoreInv
  <2>2. CASE UNCHANGED dest
    BY <2>2
  <2>3. ASSUME NEW r \in Restorers, Run(r), ~UNCHANGED dest
        PROVE  dest = None /\ ~sidecar'
    <3>1. restorer[r].pc = "synced" /\ dest = None /\ UNCHANGED sidecar
      BY <2>3 DEF Run, CheckPaths, Stage, Verify, Prepare, Date, Sync, Publish, PublishFails,
                  LinkAllowed, Return, Fail, Kill
    <3>. QED
      BY <2>1, <3>1 DEF PublishedInv, Staging
  <2>4. ASSUME NEW o \in Servers, OpenFile(o) \/ Opening(o) \/ Mishap(o) \/ Close(o)
        PROVE  /\ dest # None => DestGrown /\ dest' # None
               /\ dest = None => ~Restored'
    BY <2>1, <2>4, ServerStep DEF DestGrown, Restored
  <2>5. UNCHANGED vars \/ Rewrite => UNCHANGED dest
    BY DEF vars, Rewrite
  <2>. QED
    BY <1>1, <2>2, <2>3, <2>4, <2>5 DEF Next, DestGrown, Grown
<1>. QED
  BY <1>1, RestoreInductive, PTL DEF Spec, NeverReplaced
=============================================================================
