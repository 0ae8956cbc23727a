----------------------------- MODULE MCRequests ------------------------------
(***************************************************************************)
(* Writing: one attempt to deliver mail and what is told of it (Delivery), *)
(* what is deleted when (Retention), and the group a report ends up in     *)
(* (Reports).  The three share no state, so a behaviour has one of them    *)
(* move: `only` says which.                                                *)
(***************************************************************************)
EXTENDS Integers, Sequences, FiniteSets

CONSTANTS
  None,
  Occurrences, Texts, Settings, Default, Hours, Second, Hour, Word, MaxAge, Ahead, MaxFlight, MaxRestarts,
  Bodies, MaxReports, MaxText, MaxFrames, MaxValues, Levels, Stamps,
  Characters

VARIABLES
  only,
  config, notifier, stage, secure, late, ctx, hungUp, said, dotSent, accepted, failure, answer,
  age, phase, retain, sinceTick, due, query, cutting, restarts,
  handled, stored

delivery == <<config, notifier, stage, secure, late, ctx, hungUp, said, dotSent, accepted,
              failure, answer>>
retention == <<age, phase, retain, sinceTick, due, query, cutting, restarts>>
reports == <<handled, stored>>
vars == <<only, delivery, retention, reports>>

Delivery == INSTANCE Delivery
Retention == INSTANCE Retention
Reports == INSTANCE Reports

ASSUME DeliveryAssumption == Delivery!DeliveryAssumption
ASSUME RetentionAssumption == Retention!RetentionAssumption
ASSUME ReportsAssumption == Reports!ReportsAssumption
-----------------------------------------------------------------------------
\* A second and an hour of two ticks, a word of 16: five days are 20 and wrap
\* to 4.
MCHours == [h |-> 1, d |-> 2]
Text(number, unit) == [number |-> number, unit |-> unit]
MCTexts == {None, Text(0, "h"), Text(1, "h"), Text(5, "d")}
MCSettings == {None, Text(-1, "h"), Text(5, "d")}

\* Strings of up to three characters of which two are kept, stacktraces of up
\* to two frames of which two are kept.
Framed(func, line) == [file |-> <<"m">>, func |-> func, line |-> line]
Deep == <<Framed(<<"a">>, <<"1">>), Framed(<<"b">>, <<"2">>)>>

Came(values, entry, message, level) ==
  [values |-> values, entry |-> entry, message |-> message, level |-> level]
Raised(type, frames) == Came(<<[type |-> type, frames |-> frames]>>, None, <<>>, "fatal")
Logged(formatted, message) ==
  Came(<<>>, [formatted |-> formatted, message |-> message], <<>>, None)
Told(message) == Came(<<>>, None, message, "loud")

MCReportSet ==
  {Raised(type, frames) :
     type \in {<<"T">>, <<"T", "\n">>, <<"T", "U", "V">>, <<"T", "U", "W">>},
     frames \in {<<>>, <<Framed(<<"f">>, <<"1", "2">>)>>, <<Framed(<<"f">>, <<"1">>)>>,
                 <<Framed(<<"g">>, <<"1">>)>>}}
  \cup {Raised(<<"T">>, SubSeq(Deep, 1, n)) : n \in 1 .. 2}
  \cup {Logged(<<"x", "1">>, <<"x">>), Logged(<<"x", "2">>, <<"x">>), Logged(<<"s2", "y">>, <<>>),
        Logged(<<>>, <<"s1", "y">>), Logged(<<>>, <<"s2", "y">>), Told(<<"y">>), Told(<<>>),
        Told(<<"s1", "y", "z">>), Told(<<"s2", "y", "z">>), Told(<<"y", "z">>)}

MCCharacters == {"T", "U", "V", "W", "\n", "m", "f", "g", "a", "b", "1", "2", "x", "y", "z", "s1", "s2"}

ItemLines(item) ==
  IF item = None THEN <<[is |-> "other header"], [is |-> "text"]>>
  ELSE <<[is |-> "event header"], [is |-> "report", report |-> item]>>

\* Envelopes of one or two items, plain documents and what is neither, of which
\* the first lines fit.
Body(lines, items, fits) == [lines |-> lines, items |-> items, fits |-> fits, broken |-> FALSE]
Broken(body) == [body EXCEPT !.broken = TRUE]

Header == <<[is |-> "other header"]>>
Envelope1(item) == Body(Header \o ItemLines(item), <<item>>, 3)
Envelope2(first, second, fits) ==
  Body(Header \o ItemLines(first) \o ItemLines(second), <<first, second>>, fits)
Lines(lines) == Body(lines, None, Len(lines))
Document(report) == Lines(<<[is |-> "report", report |-> report]>>)
Padded(report, padding, fits) ==
  Body(<<[is |-> "report", report |-> report], [is |-> padding]>>, None, fits)

One == Raised(<<"T">>, <<Framed(<<"f">>, <<"1">>)>>)
Other == Logged(<<"x", "1">>, <<"x">>)

MCBodies ==
  {Document(r) : r \in MCReportSet}
  \cup {Envelope1(None), Envelope1(One), Envelope2(None, One, 5), Envelope2(One, None, 5),
        Envelope2(One, Other, 5), Envelope2(Other, One, 5)}
  \cup {Envelope2(None, One, fits) : fits \in {0, 1, 4}}
  \cup {Envelope2(One, Other, 4), Broken(Envelope2(One, Other, 3)), Broken(Envelope1(One)),
        Padded(One, "blank", 0), Padded(One, "blank", 1), Padded(One, "text", 1)}
  \cup {Lines(<<[is |-> "text"]>>),
        Lines(Header),
        Lines(Header \o <<[is |-> "blank"], [is |-> "event header"], [is |-> "report", report |-> One]>>),
        Lines(Header \o <<[is |-> "event header"], [is |-> "text"]>>)}
-----------------------------------------------------------------------------
Init ==
  /\ only \in {"delivery", "retention", "reports"}
  /\ Delivery!Init /\ Retention!Init /\ Reports!Init
  /\ only # "delivery" =>
       config = [enabled |-> FALSE, auth |-> FALSE, skipVerify |-> FALSE, localhost |-> FALSE]
  /\ only # "retention" => retain.text = None

Next ==
  \/ only = "delivery" /\ Delivery!Next /\ UNCHANGED <<only, retention, reports>>
  \/ only = "retention" /\ Retention!Next /\ UNCHANGED <<only, delivery, reports>>
  \/ only = "reports" /\ Reports!Next /\ UNCHANGED <<only, delivery, retention>>

Spec ==
  Init /\ [][Next]_vars
  /\ (only = "delivery" => Delivery!Fairness)
  /\ (only = "retention" => Retention!Fairness)
-----------------------------------------------------------------------------
\* What a failed test mail is answered with is so: only what the server said is
\* blamed on the server, Drillip's own end is told as such, a message that may
\* have been accepted is not called lost, and "sent" is what was configured.
AnswerIsTrue ==
  only = "delivery" =>
    /\ Delivery!TypeOK
    /\ Delivery!BlameIsProven
    /\ Delivery!OwnEndIsTold
    /\ Delivery!AcceptedIsUncertain
    /\ Delivery!SentAsConfigured

\* Whatever the server does, the request is answered.
RequestAnswered == only = "delivery" => Delivery!RequestAnswered

\* Whoever deletes, on whatever clock, across the delays of the request and of
\* the database and the rounding of both instants: an occurrence goes only when
\* it is older than the duration that was asked for, as far as that can be
\* represented, and than the one the chore understands, which is never nothing.
OnlyOldDeleted == Retention!OnlyOldDeleted

\* Retention keeps up: an occurrence past it goes, whatever fails or panics and
\* although a restart begins the hour anew.
OldGoes == only = "retention" => Retention!OldGoes

\* Reports land in the group they belong to: alike in what is stored or worded,
\* together; different in one thing grouped by, apart; and a readable envelope
\* is read.
GroupsMatchRows ==
  only = "reports" =>
    /\ Reports!TypeOK
    /\ Reports!SameRowSameGroup
    /\ Reports!SameWordingSameGroup
    /\ Reports!OneChangeSeparates
    /\ Reports!EnvelopeIsRead
=============================================================================
