------------------------------- MODULE Command -------------------------------
(***************************************************************************)
(* A drillip command from its arguments to its exit status: cli/parse.go   *)
(* and commands.go, the client in httpclient/client.go, the handlers in    *)
(* api/handler.go, the service in errors.go and FindByPrefix in store.go.  *)
(*                                                                         *)
(* Fingerprints are sequences of digits, references their prefixes.        *)
(* Events arrive and maintenance resolves groups meanwhile; requests and   *)
(* answers are lost or late; the server is killed at any moment and        *)
(* started again, perhaps in another version.                              *)
(***************************************************************************)
EXTENDS Naturals, Sequences, FiniteSets

CONSTANTS
  Commands,      \* invocations, each run once
  Fingerprints,  \* of the groups that events may create
  FullLength,    \* their length; 16 in the code
  Orphans,       \* what the silences of older versions name
  Invocations,   \* [op, ref]: what may be typed
  None,
  MaxEras        \* bound: how often the server is replaced

ByReference == {"show", "resolve", "silence", "unsilence"}
Mutations == {"resolve", "silence", "unsilence", "gc"}
Ops == ByReference \cup Mutations \cup {"list", "health"}

ASSUME CommandAssumption ==
  /\ FullLength \in Nat \ {0}
  /\ IsFiniteSet(Fingerprints)
  /\ \A f \in Fingerprints : f \in Seq(STRING) /\ Len(f) = FullLength
  /\ \A i \in Invocations : i.op \in Ops /\ i.ref \in Seq(STRING)
  /\ Orphans \subseteq Seq(STRING)
  /\ None \notin Seq(STRING)
  /\ MaxEras \in Nat

VARIABLES
  status,    \* the errors table
  silences,  \* the silences table: what each row names
  expired,   \* are there occurrences older than the cutoff of gc?
  server,    \* the version that is running
  client,    \* the commands
  job,       \* the request each command has under way, its handling, its answer
  done       \* history: what the server has done for each command

database == <<status, silences, expired>>
vars == <<database, server, client, job, done>>

\* What an operation was applied to; gc names nothing.
Targets == Seq(STRING) \cup {None}
Causes == {None, "usage", "unsupported", "not found", "ambiguous", "invalid", "http", "lost"}

\* api: the command API spoken, 0 by a server too old to say.
\* list: does it offer error_list?  era (history): how often it was replaced.
Server == [api: 0 .. 2, list: BOOLEAN, era: 0 .. MaxEras]

\* History: the groups that matched when the command began, whether its
\* reference named an orphaned silence, and the server that answered the check.
Client == [pc: {"idle", "checking", "calling", "ok", "failed"},
           op: Ops, ref: Seq(STRING), cause: Causes, got: Targets,
           since: SUBSET Fingerprints, orphan: BOOLEAN, era: 0 .. MaxEras]

Answer == [code: {200, 400, 404, 409, 500}, target: Targets, api: 0 .. 2, list: BOOLEAN]
NoAnswer == [code |-> 500, target |-> None, api |-> 0, list |-> FALSE]
Job == [pc: {"none", "check", "call", "found", "missing", "orphan", "answered"},
        fp: Seq(STRING) \cup {None}, answer: Answer]
NoJob == [pc |-> "none", fp |-> None, answer |-> NoAnswer]

TypeOK ==
  /\ status \in [Fingerprints -> {"absent", "open", "resolved"}]
  /\ silences \subseteq Seq(STRING)
  /\ expired \in BOOLEAN
  /\ server \in Server
  /\ client \in [Commands -> Client]
  /\ job \in [Commands -> Job]
  /\ done \in [Commands -> [times: Nat, target: Targets, unchecked: BOOLEAN]]

Init ==
  /\ status \in [Fingerprints -> {"absent", "open"}]
  /\ silences = Orphans
  /\ expired \in BOOLEAN
  /\ server \in Server /\ server.era = 0
  /\ client = [c \in Commands |->
       [pc |-> "idle", op |-> "health", ref |-> << >>, cause |-> None, got |-> None,
        since |-> {}, orphan |-> FALSE, era |-> 0]]
  /\ job = [c \in Commands |-> NoJob]
  /\ done = [c \in Commands |-> [times |-> 0, target |-> None, unchecked |-> FALSE]]
-----------------------------------------------------------------------------
(* References                                                              *)

ValidFingerprint(ref) == Len(ref) \in 1 .. FullLength

Extends(f, ref) == Len(ref) <= Len(f) /\ SubSeq(f, 1, Len(ref)) = ref

\* The rows FindByPrefix selects; it looks at no more than two.
Matches(ref) == {f \in Fingerprints : status[f] # "absent" /\ Extends(f, ref)}

Orphaned(ref) == ref \in silences /\ (ref \in Fingerprints => status[ref] = "absent")
-----------------------------------------------------------------------------
(* The command and its HTTP client                                         *)

Send(c, pc) == job' = [job EXCEPT ![c] = [NoJob EXCEPT !.pc = pc]]
Fails(c, cause) == client' = [client EXCEPT ![c].pc = "failed", ![c].cause = cause]

\* Parse: no request is made for arguments that are not valid.
Parsed(i) == i.op \in ByReference => ValidFingerprint(i.ref)

\* A new process: it knows its arguments only.
Invoked(i, pc, cause) ==
  [pc |-> pc, op |-> i.op, ref |-> i.ref, cause |-> cause, got |-> None,
   since |-> Matches(i.ref), orphan |-> Orphaned(i.ref), era |-> 0]

\* Health alone asks without checking the command API first.
Start(c) ==
  /\ client[c].pc = "idle"
  /\ \E i \in Invocations :
       \/ /\ ~Parsed(i)
          /\ client' = [client EXCEPT ![c] = Invoked(i, "failed", "usage")]
          /\ UNCHANGED job
       \/ /\ Parsed(i) /\ i.op = "health"
          /\ client' = [client EXCEPT ![c] = Invoked(i, "calling", None)] /\ Send(c, "call")
       \/ /\ Parsed(i) /\ i.op # "health"
          /\ client' = [client EXCEPT ![c] = Invoked(i, "checking", None)] /\ Send(c, "check")
  /\ UNCHANGED <<database, server, done>>

\* Mutant: the answer to the check is not looked at.
SupportsAny(op, answer) == TRUE

Supports(op, answer) ==
  answer.code = 200 /\ answer.api = 1 /\ (op = "list" => answer.list)

\* The check is answered: the operation is sent, or refused here.
Checked(c) ==
  /\ client[c].pc = "checking" /\ job[c].pc = "answered"
  /\ IF Supports(client[c].op, job[c].answer)
     THEN client' = [client EXCEPT ![c].pc = "calling"] /\ Send(c, "call")
     ELSE Fails(c, "unsupported") /\ Send(c, "none")
  /\ UNCHANGED <<database, server, done>>

\* exchange: what a status code means.
Cause(code) ==
  CASE code = 404 -> "not found" [] code = 409 -> "ambiguous" [] code = 400 -> "invalid"
    [] OTHER -> "http"

\* canonical, and for unsilence ValidFingerprint
Acceptable(op, target) ==
  /\ op \in ByReference \ {"unsilence"} => target \in Seq(STRING) /\ Len(target) = FullLength
  /\ op = "unsilence" => target \in Seq(STRING) /\ ValidFingerprint(target)

Outcome(op, answer) ==
  IF answer.code # 200 THEN [pc |-> "failed", cause |-> Cause(answer.code), got |-> None]
  ELSE IF Acceptable(op, answer.target)
  THEN [pc |-> "ok", cause |-> None, got |-> answer.target]
  ELSE [pc |-> "failed", cause |-> "http", got |-> None]

\* The command reports what it was told, and ends.
Answered(c) ==
  /\ client[c].pc = "calling" /\ job[c].pc = "answered"
  /\ LET end == Outcome(client[c].op, job[c].answer)
     IN client' = [client EXCEPT ![c].pc = end.pc, ![c].cause = end.cause, ![c].got = end.got]
  /\ Send(c, "none")
  /\ UNCHANGED <<database, server, done>>

\* The connection breaks or the ten seconds are over, and the command fails.
\* The server may go on with its request, or never see it.
Break(c) ==
  /\ client[c].pc \in {"checking", "calling"}
  /\ Fails(c, "lost")
  /\ UNCHANGED job \/ (job[c].pc \in {"check", "call", "answered"} /\ Send(c, "none"))
  /\ UNCHANGED <<database, server, done>>

\* net/http repeats requests that only read, when a reused connection breaks.
Repeat(c) ==
  /\ client[c].pc \in {"checking", "calling"} /\ job[c].pc \in {"none", "answered"}
  /\ client[c].pc = "calling" => client[c].op \notin Mutations
  /\ Send(c, IF client[c].pc = "calling" THEN "call" ELSE "check")
  /\ UNCHANGED <<database, server, client, done>>
-----------------------------------------------------------------------------
(* The server                                                              *)

Reply(c, code, target) ==
  job' = [job EXCEPT ![c] = [pc |-> "answered", fp |-> None,
                             answer |-> [code |-> code, target |-> target, api |-> 0, list |-> FALSE]]]

\* Its own version, or 404 by a server without that route.
Capabilities(c) ==
  /\ job[c].pc = "check"
  /\ job' = [job EXCEPT ![c] = [pc |-> "answered", fp |-> None,
       answer |-> [code |-> IF server.api = 0 THEN 404 ELSE 200, target |-> None,
                   api |-> server.api, list |-> server.list]]]
  /\ client' = [client EXCEPT ![c].era = server.era]
  /\ UNCHANGED <<database, server, done>>

Handled(c) == job[c].pc = "call" /\ server.api = 1
Does(c, target) ==
  done' = [done EXCEPT ![c] = [times |-> @.times + 1, target |-> target, unchecked |-> @.unchecked]]

\* Mutant: of several matches any will do.
LookupCodeAny(ref) ==
  IF ~ValidFingerprint(ref) THEN 400 ELSE IF Matches(ref) = {} THEN 404 ELSE 200

\* FindByPrefix with the status writeLookupError gives its errors.
LookupCode(ref) ==
  CASE ~ValidFingerprint(ref) -> 400
    [] Cardinality(Matches(ref)) = 0 -> 404
    [] Cardinality(Matches(ref)) > 1 -> 409
    [] OTHER -> 200

\* The first statement of every operation on a reference.
Lookup(c) ==
  /\ Handled(c) /\ client[c].op \in ByReference
  /\ LET code == LookupCode(client[c].ref)
     IN IF code = 200
        THEN \E f \in Matches(client[c].ref) :
               job' = [job EXCEPT ![c].pc = "found", ![c].fp = f]
        ELSE IF code = 404 /\ client[c].op = "unsilence"
        THEN job' = [job EXCEPT ![c].pc = "missing"]
        ELSE Reply(c, code, None)
  /\ UNCHANGED <<database, server, client, done>>

Found(c, op) == job[c].pc = "found" /\ client[c].op = op

\* GetDetail, GetTrend, GetReleases
Show(c) ==
  /\ Found(c, "show")
  /\ Reply(c, 200, job[c].fp)
  /\ UNCHANGED <<database, server, client, done>>

\* Mutant: it does not matter whether the group was open.
ResolveBlind(c) ==
  /\ Found(c, "resolve")
  /\ status' = [status EXCEPT ![job[c].fp] = "resolved"]
  /\ Reply(c, 200, job[c].fp)
  /\ IF status[job[c].fp] = "open" THEN Does(c, job[c].fp) ELSE UNCHANGED done
  /\ UNCHANGED <<silences, expired, server, client>>

Resolve(c) ==
  LET f == job[c].fp
  IN /\ Found(c, "resolve")
     /\ IF status[f] = "open"
        THEN /\ status' = [status EXCEPT ![f] = "resolved"]
             /\ Reply(c, 200, f) /\ Does(c, f)
        ELSE Reply(c, 404, None) /\ UNCHANGED <<status, done>>
     /\ UNCHANGED <<silences, expired, server, client>>

Silence(c) ==
  /\ Found(c, "silence")
  /\ silences' = silences \cup {job[c].fp}
  /\ Reply(c, 200, job[c].fp) /\ Does(c, job[c].fp)
  /\ UNCHANGED <<status, expired, server, client>>

Unsilence(c) ==
  /\ Found(c, "unsilence") \/ job[c].pc = "orphan"
  /\ silences' = silences \ {job[c].fp}
  /\ Reply(c, 200, job[c].fp) /\ Does(c, job[c].fp)
  /\ UNCHANGED <<status, expired, server, client>>

\* No group: is there a silence of exactly that name?
ListSilences(c) ==
  /\ job[c].pc = "missing"
  /\ IF client[c].ref \in silences
     THEN job' = [job EXCEPT ![c].pc = "orphan", ![c].fp = client[c].ref]
     ELSE Reply(c, 404, None)
  /\ UNCHANGED <<database, server, client, done>>

GCOccurrences(c) ==
  /\ Handled(c) /\ client[c].op = "gc"
  /\ expired' = FALSE
  /\ Reply(c, 200, << >>) /\ Does(c, << >>)
  /\ UNCHANGED <<status, silences, server, client>>

List(c) ==
  /\ Handled(c) /\ client[c].op \in {"list", "health"}
  /\ Reply(c, 200, None)
  /\ UNCHANGED <<database, server, client, done>>

\* A statement fails, or the client has gone before the first.
Error(c) ==
  /\ job[c].pc \in {"call", "found", "missing", "orphan"}
  /\ Reply(c, 500, None)
  /\ UNCHANGED <<database, server, client, done>>

\* A server of another version does with the call what it will.
Misdirected(c) ==
  /\ job[c].pc = "call" /\ server.api # 1
  /\ \E code \in {200, 400, 404} : Reply(c, code, client[c].ref)
  /\ done' = [done EXCEPT ![c].unchecked = TRUE]
  /\ UNCHANGED <<database, server, client>>

\* Killed, and started again in any version.
Replace ==
  /\ server.era < MaxEras
  /\ server' \in Server /\ server'.era = server.era + 1
  /\ job' = [c \in Commands |-> IF job[c].pc \in {"check", "call"} THEN job[c] ELSE NoJob]
  /\ UNCHANGED <<database, client, done>>

Ingest(f) ==
  /\ status' = [status EXCEPT ![f] = "open"]
  /\ UNCHANGED <<silences, expired, server, client, job, done>>

AutoResolve(f) ==
  /\ status[f] = "open" /\ status' = [status EXCEPT ![f] = "resolved"]
  /\ UNCHANGED <<silences, expired, server, client, job, done>>

\* Occurrences grow old.
Age ==
  /\ expired' = TRUE
  /\ UNCHANGED <<status, silences, server, client, job, done>>
-----------------------------------------------------------------------------
Run(c) == Start(c) \/ Checked(c) \/ Answered(c) \/ Break(c) \/ Repeat(c)

Serve(c) ==
  \/ Capabilities(c) \/ Lookup(c) \/ Show(c) \/ Resolve(c) \/ Silence(c) \/ Unsilence(c)
  \/ ListSilences(c) \/ GCOccurrences(c) \/ List(c) \/ Error(c) \/ Misdirected(c)

Next ==
  \/ \E c \in Commands : Run(c) \/ Serve(c)
  \/ Replace \/ Age
  \/ \E f \in Fingerprints : Ingest(f) \/ AutoResolve(f)

Spec == Init /\ [][Next]_vars
-----------------------------------------------------------------------------
\* However requests and answers are lost, delayed or repeated, a command's
\* mutation is carried out at most once (client.go:22-24).
AtMostOnce == \A c \in Commands : done[c].times <= 1

\* It was not passed on to a server of another version.
Kept(c) == ~done[c].unchecked

\* A mutation the command reports as done was done, once and to what it reports;
\* one it reports as refused was not and will not be.  Only a lost connection
\* leaves the question open (docs/reference/cli.md:79-82).
OutcomeTold ==
  /\ TypeOK /\ AtMostOnce
  /\ \A c \in Commands :
       client[c].op \in Mutations /\ Kept(c) =>
         /\ client[c].pc = "ok" => done[c].times = 1 /\ done[c].target = client[c].got
         /\ client[c].pc = "failed" /\ client[c].cause # "lost" =>
              done[c].times = 0 /\ job[c].pc = "none"

\* A call reaches a server of another version only if that replaced the server
\* that was checked.
OthersAreRefused ==
  \A c \in Commands :
    done[c].unchecked /\ client[c].op # "health" => client[c].era < server.era

\* A refusal is true of the tracker: two groups do match an ambiguous reference;
\* none matched an unknown one when the command began, unless what was asked for
\* was to resolve it.  And other versions are refused before they are asked.
RefusalsAreTrue ==
  /\ OthersAreRefused
  /\ \A c \in Commands :
       Kept(c) /\ client[c].pc = "failed" =>
         /\ client[c].cause = "ambiguous" => Cardinality(Matches(client[c].ref)) > 1
         /\ client[c].cause = "not found" => client[c].since = {} \/ client[c].op = "resolve"
         /\ client[c].cause # "invalid"

\* A command changes the one group its reference names: never one of several,
\* and nothing that merely came to match while it ran in place of what did.
OneTarget ==
  \A c \in Commands :
    done[c].times > 0 /\ client[c].op \in ByReference =>
      /\ Extends(done[c].target, client[c].ref)
      /\ Cardinality(client[c].since) <= 1
      /\ client[c].since # {} => client[c].since = {done[c].target}
=============================================================================
