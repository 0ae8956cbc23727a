--------------------------- MODULE MCDatabaseFile ---------------------------
(* Instances of DatabaseFile for TLC.                                        *)
EXTENDS DatabaseFile

\* A backup made by `drillip backup`.
Good == [sound |-> TRUE, tables |-> Tables, columns |-> Columns, format |-> "1",
         history |-> [NoHistory EXCEPT !.snapshot = "then"]]

MCInputs ==
  { Good,
    \* the copied file of a database that was itself restored and backed up
    [Good EXCEPT !.history = [snapshot |-> None, generated |-> "then", restored |-> "then", ofSnapshot |-> "then"]],
    \* made by older builds
    [Good EXCEPT !.columns = {"level", "tags"}, !.format = "none", !.history = NoHistory],
    [Good EXCEPT !.columns = {}, !.format = "none", !.history = NoHistory],
    [Good EXCEPT !.history.snapshot = "garbled"],
    \* by a newer one
    [Good EXCEPT !.format = "2"],
    \* damaged
    [Good EXCEPT !.sound = FALSE], [Good EXCEPT !.tables = {"errors"}] }

\* A backup made by an older build, and a damaged one.
FewInputs ==
  {[Good EXCEPT !.columns = {"level"}, !.format = "none", !.history = NoHistory],
   [Good EXCEPT !.sound = FALSE]}
=============================================================================
