------------------------------ MODULE Reports -------------------------------
(***************************************************************************)
(* From the body of a request to the group a report counts in: MakeHandler *)
(* and parseEnvelope (internal/adapter/in/ingest/handler.go), Sanitize and *)
(* the texts of an event (internal/domain/event.go), Fingerprint           *)
(* (fingerprint.go), and what Errors.Ingest and Store.StoreEvent take of   *)
(* them.                                                                   *)
(*                                                                         *)
(* Strings are sequences of characters where they are cut or concatenated. *)
(* The hash is taken to be injective: a fingerprint is its input.          *)
(***************************************************************************)
EXTENDS Naturals, Sequences, FiniteSets

CONSTANTS
  Bodies,       \* what clients send: [lines, items, fits, broken]
  MaxReports,   \* bound: reports handled
  MaxText,      \* 10000, 200, 500 in the code: what is kept of a string
  MaxFrames,    \* 100: what is kept of a stacktrace
  MaxValues,    \* 10: what is kept of the exceptions
  Levels,       \* validLevels
  Stamps,       \* log prefixes: timestamp, level and place
  Characters,   \* of the strings that come
  None

String == Seq(Characters)
Frame == [file: String, func: String, line: String]
Event == [values: Seq([type: String, frames: Seq(Frame)]),
          entry: {None} \cup [formatted: String, message: String],
          message: String, level: STRING \cup {None}]

\* Neither a text nor the beginning of one is a JSON object.
Line == [is: {"report"}, report: Event]
        \cup [is: {"event header", "other header", "text", "blank"}]

\* What an envelope is: a header, and per item its header and one line.
MadeOf(lines, items) ==
  /\ Len(lines) = 2 * Len(items) + 1
  /\ \A j \in DOMAIN items :
       IF items[j] = None THEN lines[2 * j].is = "other header"
       ELSE /\ lines[2 * j].is = "event header"
            /\ lines[2 * j + 1].is = "report" /\ lines[2 * j + 1].report = items[j]

\* items: what an envelope was made of.  fits: how many of the lines, decompressed,
\* lie within the first 10 MiB.  broken: reading fails after the lines, because
\* the client is gone, or because the compressed form is damaged or exceeds
\* 10 MiB itself (MaxBytesReader).
ReportsAssumption ==
  /\ MaxReports \in Nat /\ {MaxText, MaxFrames, MaxValues} \subseteq Nat \ {0}
  /\ None \notin [formatted: String, message: String]
  /\ {"error", "info"} \subseteq Levels /\ None \notin Levels
  /\ \A body \in Bodies :
       /\ body.lines \in Seq(Line)
       /\ body.items \in {None} \cup Seq({None} \cup Event)
       /\ body.items # None => MadeOf(body.lines, body.items)
       /\ body.fits \in 0 .. Len(body.lines) /\ body.broken \in BOOLEAN

VARIABLES
  handled,  \* history: the bodies received and the answers to them
  stored    \* history: per stored report, what came and what was stored of it

vars == <<handled, stored>>
-----------------------------------------------------------------------------
\* domain.Event.

Cut(s, n) == SubSeq(s, 1, IF Len(s) < n THEN Len(s) ELSE n)

\* The character that has j of those kept up to it, for every j.
StripCRLF(s) ==
  LET kept == {i \in DOMAIN s : s[i] # "\n"}
      UpTo(i) == {h \in kept : h <= i}
  IN [j \in 1 .. Cardinality(kept) |-> s[CHOOSE i \in kept : Cardinality(UpTo(i)) = j]]

SanitizedFrame(f) == [file |-> Cut(f.file, MaxText), func |-> Cut(f.func, MaxText), line |-> f.line]

SanitizedValue(v) ==
  [type |-> Cut(StripCRLF(v.type), MaxText),
   frames |-> LET kept == Cut(v.frames, MaxFrames)
              IN [i \in DOMAIN kept |-> SanitizedFrame(kept[i])]]

SanitizedEntry(entry) ==
  IF entry = None THEN None
  ELSE [formatted |-> Cut(entry.formatted, MaxText), message |-> Cut(entry.message, MaxText)]

SanitizedLevel(level) == IF level \in Levels THEN level ELSE None

Sanitize(e) ==
  [values |-> LET kept == Cut(e.values, MaxValues)
              IN [i \in DOMAIN kept |-> SanitizedValue(kept[i])],
   entry |-> SanitizedEntry(e.entry),
   message |-> Cut(e.message, MaxText),
   level |-> SanitizedLevel(e.level)]

EffectiveLevel(e) ==
  IF e.level # None THEN e.level ELSE IF e.values # <<>> THEN "error" ELSE "info"

MessageText(e) ==
  IF e.entry = None THEN e.message
  ELSE IF e.entry.formatted # <<>> THEN e.entry.formatted ELSE e.entry.message

StripLogPrefix(s) == IF s # <<>> /\ Head(s) \in Stamps THEN Tail(s) ELSE s

\* The template if there is one, else the text.
Wording(e) ==
  IF e.entry # None /\ e.entry.message # <<>> THEN e.entry.message ELSE MessageText(e)

StableMessageText(e) == StripLogPrefix(Wording(e))

\* The frame that counts.
TopFrame(frames) == IF frames = <<>> THEN None ELSE frames[Len(frames)]

Location(f) == IF f = None THEN <<>> ELSE f.file \o f.func \o f.line

Fingerprint(e) ==
  IF e.values # <<>>
  THEN e.values[1].type \o Location(TopFrame(e.values[1].frames))
  ELSE <<"message:">> \o StableMessageText(e)
-----------------------------------------------------------------------------
\* The request.

\* readBody: the input, compressed or not, ends without an error at the limit,
\* wherever that is: after what fits and the beginning of the line that does not.
ReadBody(body) ==
  IF body.fits = Len(body.lines) THEN {body.lines}
  ELSE {Append(SubSeq(body.lines, 1, body.fits), [is |-> beginning]) :
          beginning \in {"blank"} \cup
            (IF body.lines[body.fits + 1].is = "blank" THEN {} ELSE {"text"})}

\* An error is met only by who reads that far.
Fails(body) == body.broken /\ body.fits = Len(body.lines)

\* Lines are taken in pairs after the envelope's header, whatever they hold.
Items(lines) == {i \in 1 .. Len(lines) - 1 : i % 2 = 0}

EventItems(lines) == {i \in Items(lines) : lines[i].is = "event header"}

FirstOf(S) == CHOOSE i \in S : \A j \in S : i <= j

NothingSaid == [values |-> <<>>, entry |-> None, message |-> <<>>, level |-> None]

\* Any JSON object decodes to an event, if to an empty one.
Report(line) ==
  CASE line.is = "report" -> line.report
    [] line.is \in {"event header", "other header"} -> NothingSaid
    [] OTHER -> None

ParseEnvelope(lines) ==
  IF EventItems(lines) = {} THEN None ELSE Report(lines[FirstOf(EventItems(lines)) + 1])

\* The only line that is not blank.
Document(lines) ==
  {i \in DOMAIN lines : lines[i].is # "blank" /\ \A j \in DOMAIN lines \ {i} : lines[j].is = "blank"}

\* The envelope, else the whole body as one JSON document.
Parse(lines) ==
  IF ParseEnvelope(lines) # None THEN ParseEnvelope(lines)
  ELSE IF Document(lines) = {} THEN None ELSE Report(lines[CHOOSE i \in Document(lines) : TRUE])

\* Errors.Ingest: nothing to tell, nothing to store.
Empty(e) == e.values = <<>> /\ MessageText(e) = <<>>

Row(e) ==
  [level |-> EffectiveLevel(e),
   type |-> IF e.values = <<>> THEN <<"message">> ELSE e.values[1].type,
   frame |-> IF e.values = <<>> THEN None ELSE TopFrame(e.values[1].frames),
   text |-> IF e.values = <<>> THEN StripLogPrefix(MessageText(e)) ELSE None]

\* Mutant: the fingerprint is that of the event as it came.
StoredRaw(e) ==
  [came |-> e, row |-> Row(Sanitize(e)), fingerprint |-> Fingerprint(e)]

\* StoreEvent: sanitized first.
Stored(e) ==
  [came |-> e, row |-> Row(Sanitize(e)), fingerprint |-> Fingerprint(Sanitize(e))]

\* A body that cannot be read to its end or its limit, or that holds no report
\* up to there, is refused.
Receive(body) ==
  /\ Len(handled) < MaxReports
  /\ \E lines \in ReadBody(body) :
       LET report == IF Fails(body) THEN None ELSE Parse(lines)
           Answer(answer) == handled' = Append(handled, [body |-> body, answer |-> answer])
       IN IF report = None
          THEN Answer("refused") /\ UNCHANGED stored
          ELSE IF Empty(report)
          THEN Answer("ignored") /\ UNCHANGED stored
          ELSE \/ Answer("stored") /\ stored' = stored \cup {Stored(report)}
               \/ Answer("failed") /\ UNCHANGED stored

Init == handled = <<>> /\ stored = {}
Next == \E body \in Bodies : Receive(body)
Spec == Init /\ [][Next]_vars
-----------------------------------------------------------------------------
TypeOK ==
  /\ Len(handled) <= MaxReports
  /\ \A i \in DOMAIN handled : handled[i].answer \in {"refused", "ignored", "stored", "failed"}
  /\ \A s \in stored : s.row.level \in Levels

IsException(s) == s.came.values # <<>>
Exceptions == {s \in stored : IsException(s)}
Messages == {s \in stored : ~IsException(s)}
Templated(s) == s.came.entry # None /\ s.came.entry.message # <<>>

\* Reports of which the same was stored are in the same group, however much
\* more came: cutting and stripping happen before the fingerprint is taken.
\* Messages have the template besides, which is not stored.
SameRowSameGroup ==
  /\ \A s, t \in Exceptions :
       s.row.type = t.row.type /\ s.row.frame = t.row.frame => s.fingerprint = t.fingerprint
  /\ \A s, t \in {u \in Messages : ~Templated(u)} :
       s.row.text = t.row.text => s.fingerprint = t.fingerprint

\* Nothing of the wording was cut away, or as much of both.  Otherwise a stamp,
\* which is stripped after the cut, leaves less of the text that follows it.
CutAlike(d, e) ==
  \/ Len(Wording(d)) = Len(Wording(e))
  \/ Len(Wording(d)) <= MaxText /\ Len(Wording(e)) <= MaxText

\* Messages worded alike are in the same group, whatever was filled in and
\* whenever it was logged: by their template, or by their text after the stamp.
SameWordingSameGroup ==
  \A s, t \in Messages :
    /\ StableMessageText(s.came) = StableMessageText(t.came)
    /\ CutAlike(s.came, t.came)
    => s.fingerprint = t.fingerprint

HashedParts(s) == [type |-> s.row.type, file |-> s.row.frame.file,
                   func |-> s.row.frame.func, line |-> s.row.frame.line]

\* Exceptions that differ in exactly one of the things grouped by are apart:
\* their type, or the file, the function or the line of the frame that counts.
OneChangeSeparates ==
  \A s, t \in {u \in Exceptions : u.row.frame # None} :
    Cardinality({part \in {"type", "file", "func", "line"} :
                   HashedParts(s)[part] # HashedParts(t)[part]}) = 1
    => s.fingerprint # t.fingerprint

\* An envelope with one line per item is read if its first event lies within
\* 10 MiB: the report is not refused, whatever items come before and after it,
\* however much follows, and whatever becomes of the connection after the limit.
EnvelopeIsRead ==
  \A i \in DOMAIN handled :
    LET body == handled[i].body IN
    /\ body.items # None /\ ~Fails(body)
    /\ \E j \in DOMAIN body.items : body.items[j] # None /\ 2 * j + 1 <= body.fits
    => handled[i].answer # "refused"
=============================================================================
