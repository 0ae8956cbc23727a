------------------------------- MODULE Mailer -------------------------------
(***************************************************************************)
(* What the mailer promises to the rest of drillip, without its timers,    *)
(* buffers and goroutines: a notification that was let through is owed     *)
(* until it was marked or given up; a group is marked only after a mail    *)
(* naming it was accepted; and closing ends only when nothing is owed.     *)
(* Notifier implements this module and Server is composed with it.         *)
(***************************************************************************)
EXTENDS Naturals

CONSTANTS
  Fingerprints,
  MaxOwed      \* bound: notifications of one group let through and not settled

VARIABLES
  owed,     \* per group: notifications let through and not settled yet
  mailed,   \* groups named by mails the SMTP server accepted
  marked,   \* groups reported to onNotified
  mailer    \* "open", "closing" or "closed"

vars == <<owed, mailed, marked, mailer>>

Init ==
  /\ owed = [f \in Fingerprints |-> 0]
  /\ mailed = {} /\ marked = {}
  /\ mailer = "open"

\* NotifyNewError, when neither throttled nor closed.
LetThrough(f) ==
  /\ mailer = "open" /\ owed[f] < MaxOwed
  /\ owed' = [owed EXCEPT ![f] = @ + 1]
  /\ UNCHANGED <<mailed, marked, mailer>>

\* An attempt at a mail naming S: the server may take it, and notifications of
\* S may be given up, whether or not it did.
Attempt(S) ==
  /\ \A f \in S : owed[f] > 0
  /\ mailed' \in {mailed, mailed \cup S}
  /\ owed' \in [Fingerprints -> 0 .. MaxOwed]
  /\ \A f \in Fingerprints :
       IF f \in S THEN owed'[f] <= owed[f] ELSE owed'[f] = owed[f]
  /\ UNCHANGED <<marked, mailer>>

\* The callback for one group of an accepted mail.
Mark(f) ==
  /\ f \in mailed /\ owed[f] > 0
  /\ marked' = marked \cup {f}
  /\ owed' = [owed EXCEPT ![f] = @ - 1]
  /\ UNCHANGED <<mailed, mailer>>

Close ==
  /\ mailer = "open"
  /\ mailer' = "closing"
  /\ UNCHANGED <<owed, mailed, marked>>

CloseReturns ==
  /\ mailer = "closing"
  /\ \A f \in Fingerprints : owed[f] = 0
  /\ mailer' = "closed"
  /\ UNCHANGED <<owed, mailed, marked>>

Next ==
  \/ \E f \in Fingerprints : LetThrough(f) \/ Mark(f)
  \/ \E S \in SUBSET Fingerprints : Attempt(S)
  \/ Close \/ CloseReturns

Spec == Init /\ [][Next]_vars
=============================================================================
