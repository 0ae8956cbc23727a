---------------------------- MODULE CommandProofs ----------------------------
(***************************************************************************)
(* Theorems about Command, for any number of commands, groups, silences    *)
(* and replacements of the server: a mutation is carried out at most once, *)
(* on the one group its reference names, and what the command reports of   *)
(* it is true.                                                             *)
(***************************************************************************)
EXTENDS Command, FiniteSetTheorems, SequenceTheorems, TLAPS

Table == [Fingerprints -> {"absent", "open", "resolved"}]
Deed == [times: Nat, target: Targets, unchecked: BOOLEAN]

\* Matches, of a given errors table.
MatchesIn(S, ref) == {f \in Fingerprints : S[f] # "absent" /\ Extends(f, ref)}

\* A group that is in one errors table is in the other.
Keeps(S, T) == \A f \in Fingerprints : S[f] # "absent" => T[f] # "absent"
-----------------------------------------------------------------------------
(* The inductive invariant: of a command k, its request j and its deeds d, *)
(* with an errors table S and a server v                                   *)

\* The stages of a request that is being handled.
Handling == {"call", "found", "missing", "orphan"}

\* Where a command stands in relation to its request, and how often the server
\* has carried it out: not before it is handled, and only if it mutates.
Place(k, j, d) ==
  /\ k.pc \in {"idle", "ok"} => j.pc = "none"
  /\ k.pc = "checking" => j.pc \in {"none", "check", "answered"}
  /\ k.pc = "calling" => j.pc # "check"
  /\ k.pc = "failed" /\ k.cause # "lost" => j.pc = "none"
  /\ k.pc \in {"idle", "checking"} \/ j.pc = "check" => d.times = 0 /\ ~d.unchecked
  /\ j.pc \in Handling => d.times = 0
  /\ d.times > 0 => d.times = 1 /\ k.op \in Mutations
  /\ k.pc \in {"checking", "calling"} \/ j.pc # "none" =>
       (k.op \in ByReference => ValidFingerprint(k.ref))

\* The groups that matched when the command began match still; the group that
\* was looked up, and the one that was changed, is the only one among them.
Aim(k, j, d, S) ==
  /\ k.since \subseteq MatchesIn(S, k.ref)
  /\ j.pc = "found" => /\ j.fp \in Fingerprints /\ Extends(j.fp, k.ref)
                       /\ k.since \subseteq {j.fp} /\ k.op \in ByReference
  /\ j.pc \in {"missing", "orphan"} => k.op = "unsilence" /\ k.since = {}
  /\ j.pc = "orphan" => j.fp = k.ref
  /\ d.times > 0 /\ k.op \in ByReference =>
       Extends(d.target, k.ref) /\ k.since \subseteq {d.target}

\* What a refusal says is true.
TrueOf(k, S, cause) ==
  /\ cause = "ambiguous" => Cardinality(MatchesIn(S, k.ref)) > 1
  /\ cause = "not found" => k.since = {} \/ k.op = "resolve"
  /\ cause # "invalid"

\* The answer to a call tells what was done.
Told(k, j, d, S) ==
  k.pc = "calling" /\ j.pc = "answered" /\ ~d.unchecked =>
    /\ j.answer.code = 200 /\ k.op \in Mutations =>
         d.times = 1 /\ d.target = j.answer.target /\ Acceptable(k.op, j.answer.target)
    /\ j.answer.code # 200 /\ k.op \in Mutations => d.times = 0
    /\ j.answer.code # 200 => TrueOf(k, S, Cause(j.answer.code))

\* And so does the command when it ends.
Ended(k, d, S) ==
  ~d.unchecked =>
    /\ k.pc = "ok" /\ k.op \in Mutations => d.times = 1 /\ d.target = k.got
    /\ k.pc = "failed" /\ k.cause # "lost" /\ k.op \in Mutations => d.times = 0
    /\ k.pc = "failed" => TrueOf(k, S, k.cause)

\* A call is for the server that was checked, or that one has been replaced.
Current(k, j, d, v) ==
  /\ k.era <= v.era
  /\ k.pc = "checking" /\ j.pc = "answered" => k.era = v.era /\ j.answer.api = v.api
  /\ k.op # "health" /\ (k.pc = "calling" \/ j.pc = "call") => v.api = 1 \/ k.era < v.era
  /\ k.op # "health" /\ d.unchecked => k.era < v.era

Sound(k, j, d, S, v) ==
  Place(k, j, d) /\ Aim(k, j, d, S) /\ Told(k, j, d, S) /\ Ended(k, d, S) /\ Current(k, j, d, v)

CommandInv ==
  TypeOK /\ \A c \in Commands : Sound(client[c], job[c], done[c], status, server)
-----------------------------------------------------------------------------
(* References and matches                                                  *)

USE CommandAssumption

\* A text is a prefix of itself.
LEMMA ExtendsItself ==
  ASSUME NEW ref \in Seq(STRING)
  PROVE  Extends(ref, ref)
<1>1. Len(ref) \in Nat
  OBVIOUS
<1>2. SubSeq(ref, 1, Len(ref)) = ref
  OBVIOUS
<1>. QED
  BY <1>1, <1>2 DEF Extends

\* The groups that match are a finite set.
LEMMA MatchesFinite ==
  ASSUME NEW S, NEW ref
  PROVE  /\ IsFiniteSet(MatchesIn(S, ref)) /\ Cardinality(MatchesIn(S, ref)) \in Nat
         /\ MatchesIn(S, ref) \subseteq Fingerprints
<1>1. MatchesIn(S, ref) \subseteq Fingerprints
  BY DEF MatchesIn
<1>. QED
  BY <1>1, FS_Subset, FS_CardinalityType

\* A table that keeps the groups has all the matches.
LEMMA MatchesGrow ==
  ASSUME NEW S, NEW T, Keeps(S, T), NEW ref
  PROVE  /\ MatchesIn(S, ref) \subseteq MatchesIn(T, ref)
         /\ Cardinality(MatchesIn(S, ref)) <= Cardinality(MatchesIn(T, ref))
<1>1. MatchesIn(S, ref) \subseteq MatchesIn(T, ref)
  BY DEF MatchesIn, Keeps
<1>. QED
  BY <1>1, MatchesFinite, FS_Subset

\* What FindByPrefix finds: one match, none, or several.
LEMMA MatchesCounted ==
  ASSUME NEW S, NEW ref
  PROVE  LET M == MatchesIn(S, ref)
         IN /\ Cardinality(M) = 0 => M = {}
            /\ ~(Cardinality(M) > 1) => \A f \in M : M = {f}
<1>. DEFINE M == MatchesIn(S, ref)
<1>1. IsFiniteSet(M) /\ Cardinality(M) \in Nat
  BY MatchesFinite
<1>2. Cardinality(M) = 0 => M = {}
  BY <1>1, FS_EmptySet
<1>3. ASSUME NEW f \in M, ~(Cardinality(M) > 1) PROVE M = {f}
  <2>1. Cardinality(M) # 0
    BY <1>1, FS_EmptySet
  <2>2. Cardinality(M) = 1
    BY <1>1, <1>3, <2>1
  <2>. QED
    BY <1>1, <2>2, FS_Singleton
<1>. QED
  BY <1>2, <1>3

\* A reference that names a group is its text, of the full length.
LEMMA FingerprintShape ==
  ASSUME NEW f \in Fingerprints
  PROVE  /\ f \in Seq(STRING) /\ f \in Targets /\ Len(f) = FullLength /\ ValidFingerprint(f)
         /\ \A op \in ByReference : Acceptable(op, f)
BY DEF Targets, ValidFingerprint, Acceptable

\* Sound does not depend on what else the errors table takes in.
LEMMA TableGrows ==
  ASSUME NEW k, NEW j, NEW d, NEW v, NEW S, NEW T, Keeps(S, T), Sound(k, j, d, S, v)
  PROVE  Sound(k, j, d, T, v)
<1>1. /\ MatchesIn(S, k.ref) \subseteq MatchesIn(T, k.ref)
      /\ Cardinality(MatchesIn(S, k.ref)) > 1 => Cardinality(MatchesIn(T, k.ref)) > 1
  BY MatchesGrow, MatchesFinite
<1>2. Aim(k, j, d, T)
  BY <1>1 DEF Sound, Aim
<1>3. \A cause : TrueOf(k, S, cause) => TrueOf(k, T, cause)
  BY <1>1 DEF TrueOf
<1>4. Told(k, j, d, T) /\ Ended(k, d, T)
  BY <1>3 DEF Sound, Told, Ended
<1>. QED
  BY <1>2, <1>4 DEF Sound
-----------------------------------------------------------------------------
(* Typed records                                                           *)

\* The fields of a command have the types of its record.
LEMMA ClientFields ==
  ASSUME NEW k \in Client
  PROVE  /\ k.pc \in {"idle", "checking", "calling", "ok", "failed"}
         /\ k.op \in Ops /\ k.ref \in Seq(STRING) /\ k.cause \in Causes /\ k.got \in Targets
         /\ k.since \in SUBSET Fingerprints /\ k.orphan \in BOOLEAN /\ k.era \in 0 .. MaxEras
BY DEF Client

\* So do those of a request.
LEMMA JobFields ==
  ASSUME NEW j \in Job
  PROVE  /\ j.pc \in {"none", "check", "call", "found", "missing", "orphan", "answered"}
         /\ j.fp \in Seq(STRING) \cup {None} /\ j.answer \in Answer
         /\ j.answer.code \in {200, 400, 404, 409, 500} /\ j.answer.target \in Targets
BY DEF Job, Answer

\* And those of a server and of what was done.
LEMMA ServerFields ==
  /\ \A v \in Server : v.api \in 0 .. 2 /\ v.list \in BOOLEAN /\ v.era \in 0 .. MaxEras
  /\ \A d \in Deed : d.times \in Nat /\ d.target \in Targets /\ d.unchecked \in BOOLEAN
BY DEF Server, Deed

\* An answer, and a request just sent.
AnswerOf(code, target) ==
  [pc |-> "answered", fp |-> None,
   answer |-> [code |-> code, target |-> target, api |-> 0, list |-> FALSE]]
Sent(pc) == [pc |-> pc, fp |-> None, answer |-> NoAnswer]

\* They are well formed.
LEMMA AnswerTyped ==
  /\ \A code \in {200, 400, 404, 409, 500}, target \in Targets : AnswerOf(code, target) \in Job
  /\ \A pc \in {"none", "check", "call"} : Sent(pc) \in Job
<1>1. NoAnswer \in Answer
  BY DEF NoAnswer, Answer, Targets
<1>2. ASSUME NEW code \in {200, 400, 404, 409, 500}, NEW target \in Targets
      PROVE  [code |-> code, target |-> target, api |-> 0, list |-> FALSE] \in Answer
  BY DEF Answer
<1>. QED
  BY <1>1, <1>2 DEF AnswerOf, Sent, Job

\* Command c moves on, alone.
Moves(c, k, j, d) ==
  /\ client' = [client EXCEPT ![c] = k]
  /\ job' = [job EXCEPT ![c] = j]
  /\ done' = [done EXCEPT ![c] = d]

\* What is left alone is set to what it was.
LEMMA Same ==
  ASSUME TypeOK, NEW c \in Commands
  PROVE  /\ client[c] \in Client /\ job[c] \in Job /\ done[c] \in Deed
         /\ client = [client EXCEPT ![c] = client[c]]
         /\ job = [job EXCEPT ![c] = job[c]]
         /\ done = [done EXCEPT ![c] = done[c]]
BY DEF TypeOK, Deed

\* A sound step of one command keeps the invariant.
LEMMA OneStep ==
  ASSUME CommandInv, NEW c \in Commands, NEW k \in Client, NEW j \in Job, NEW d \in Deed,
         Moves(c, k, j, d), server' = server, status' \in Table, Keeps(status, status'),
         silences' \subseteq Seq(STRING), expired' \in BOOLEAN,
         Sound(k, j, d, status, server)
  PROVE  CommandInv'
<1>0. /\ client \in [Commands -> Client] /\ job \in [Commands -> Job]
      /\ done \in [Commands -> Deed]
  BY DEF CommandInv, TypeOK, Deed
<1>1. TypeOK'
  BY <1>0 DEF CommandInv, TypeOK, Moves, Table, Deed
<1>2. ASSUME NEW q \in Commands PROVE Sound(client'[q], job'[q], done'[q], status, server)
  <2>1. CASE q = c
    <3>1. client'[q] = k /\ job'[q] = j /\ done'[q] = d
      BY <1>0, <2>1 DEF Moves
    <3>. QED
      BY <3>1
  <2>2. CASE q # c
    <3>1. client'[q] = client[q] /\ job'[q] = job[q] /\ done'[q] = done[q]
      BY <1>0, <2>2 DEF Moves
    <3>. QED
      BY <3>1 DEF CommandInv
  <2>. QED
    BY <2>1, <2>2
<1>3. ASSUME NEW q \in Commands PROVE Sound(client'[q], job'[q], done'[q], status', server')
  BY <1>2, TableGrows
<1>. QED
  BY <1>1, <1>3 DEF CommandInv

\* A command that turned to another stage.
Turned(k, pc, cause, got) ==
  [pc |-> pc, op |-> k.op, ref |-> k.ref, cause |-> cause, got |-> got,
   since |-> k.since, orphan |-> k.orphan, era |-> k.era]

\* It keeps its arguments and what it has seen of the tracker.
LEMMA TurnedTyped ==
  ASSUME NEW k \in Client, NEW pc \in {"calling", "ok", "failed"}, NEW cause \in Causes,
         NEW got \in Targets
  PROVE  Turned(k, pc, cause, got) \in Client
BY DEF Turned, Client

\* That is what the steps of a command make of it.
LEMMA TurnedIs ==
  ASSUME NEW k \in Client
  PROVE  /\ \A pc : [k EXCEPT !.pc = pc] = Turned(k, pc, k.cause, k.got)
         /\ \A pc, cause : [k EXCEPT !.pc = pc, !.cause = cause] = Turned(k, pc, cause, k.got)
<1>1. ASSUME NEW pc PROVE [k EXCEPT !.pc = pc] = Turned(k, pc, k.cause, k.got)
  BY DEF Turned, Client
<1>2. ASSUME NEW pc, NEW cause
      PROVE  [k EXCEPT !.pc = pc, !.cause = cause] = Turned(k, pc, cause, k.got)
  <2>1. [k EXCEPT !.pc = pc, !.cause = cause] = [[k EXCEPT !.pc = pc] EXCEPT !.cause = cause]
    OBVIOUS
  <2>2. [Turned(k, pc, k.cause, k.got) EXCEPT !.cause = cause] = Turned(k, pc, cause, k.got)
    BY DEF Turned
  <2>. QED
    BY <1>1, <2>1, <2>2
<1>. QED
  BY <1>1, <1>2

\* Also when it has got something.
LEMMA TurnedGot ==
  ASSUME NEW k \in Client, NEW pc, NEW cause, NEW got
  PROVE  [k EXCEPT !.pc = pc, !.cause = cause, !.got = got] = Turned(k, pc, cause, got)
<1>1. [k EXCEPT !.pc = pc, !.cause = cause, !.got = got]
        = [[k EXCEPT !.pc = pc, !.cause = cause] EXCEPT !.got = got]
  OBVIOUS
<1>2. [Turned(k, pc, cause, k.got) EXCEPT !.got = got] = Turned(k, pc, cause, got)
  BY DEF Turned
<1>. QED
  BY <1>1, <1>2, TurnedIs

\* What the steps of the client and of the server set.
LEMMA Effects ==
  ASSUME TypeOK, NEW c \in Commands
  PROVE  /\ \A pc : Send(c, pc) => job' = [job EXCEPT ![c] = Sent(pc)]
         /\ \A code, target : Reply(c, code, target) =>
              job' = [job EXCEPT ![c] = AnswerOf(code, target)]
         /\ \A cause : Fails(c, cause) =>
              client' = [client EXCEPT ![c] = Turned(client[c], "failed", cause, client[c].got)]
         /\ \A target : Does(c, target) =>
              done' = [done EXCEPT ![c] = [times |-> done[c].times + 1, target |-> target,
                                           unchecked |-> done[c].unchecked]]
<1>1. \A pc : [NoJob EXCEPT !.pc = pc] = Sent(pc)
  BY DEF NoJob, Sent
<1>2. ASSUME NEW cause, Fails(c, cause)
      PROVE  client' = [client EXCEPT ![c] = Turned(client[c], "failed", cause, client[c].got)]
  <2>1. client[c] \in Client
    BY DEF TypeOK
  <2>2. client' = [client EXCEPT ![c] = [client[c] EXCEPT !.pc = "failed", !.cause = cause]]
    BY <1>2 DEF Fails, TypeOK
  <2>. QED
    BY <2>1, <2>2, TurnedIs
<1>3. ASSUME NEW target, Does(c, target)
      PROVE  done' = [done EXCEPT ![c] = [times |-> done[c].times + 1, target |-> target,
                                          unchecked |-> done[c].unchecked]]
  BY <1>3 DEF Does, TypeOK
<1>. QED
  BY <1>1, <1>2, <1>3 DEF Send, Reply, AnswerOf
-----------------------------------------------------------------------------
(* The command's own steps                                                 *)

\* A command begins, and asks or is refused.
LEMMA StartKeeps ==
  ASSUME CommandInv, NEW c \in Commands, Start(c)
  PROVE  CommandInv'
<1>0. /\ client[c] \in Client /\ job[c] \in Job /\ done[c] \in Deed
      /\ Sound(client[c], job[c], done[c], status, server) /\ client[c].pc = "idle"
      /\ UNCHANGED <<status, silences, expired, server, done>>
  BY Same DEF CommandInv, Start, database
<1>1. PICK i \in Invocations :
        \/ /\ ~Parsed(i)
           /\ client' = [client EXCEPT ![c] = Invoked(i, "failed", "usage")]
           /\ UNCHANGED job
        \/ /\ Parsed(i) /\ i.op = "health"
           /\ client' = [client EXCEPT ![c] = Invoked(i, "calling", None)] /\ Send(c, "call")
        \/ /\ Parsed(i) /\ i.op # "health"
           /\ client' = [client EXCEPT ![c] = Invoked(i, "checking", None)] /\ Send(c, "check")
  BY DEF Start
<1>. DEFINE B(pc, cause) == Invoked(i, pc, cause)
<1>2. \A pc \in {"failed", "calling", "checking"}, cause \in {None, "usage"} : B(pc, cause) \in Client
  <2>1. Matches(i.ref) \in SUBSET Fingerprints /\ Orphaned(i.ref) \in BOOLEAN
    BY DEF Matches, Orphaned
  <2>2. i.op \in Ops /\ i.ref \in Seq(STRING)
    OBVIOUS
  <2>3. None \in Targets /\ 0 \in 0 .. MaxEras /\ {None, "usage"} \subseteq Causes
    BY DEF Targets, Causes
  <2>. QED
    BY <2>1, <2>2, <2>3 DEF Invoked, Client
<1>3. Matches(i.ref) = MatchesIn(status, i.ref)
  BY DEF Matches, MatchesIn
<1>4. done[c].times = 0 /\ ~done[c].unchecked /\ job[c].pc = "none" /\ 0 <= server.era
  BY <1>0, ServerFields DEF Sound, Place, CommandInv, TypeOK
<1>5. CASE ~Parsed(i)
  <2>1. Moves(c, B("failed", "usage"), job[c], done[c])
    BY <1>0, <1>1, <1>5, Same DEF Moves, CommandInv
  <2>2. Sound(B("failed", "usage"), job[c], done[c], status, server)
    BY <1>3, <1>4 DEF Invoked, Sound, Place, Aim, Told, Ended, Current, TrueOf, Handling
  <2>. QED
    BY <1>0, <1>2, <2>1, <2>2, OneStep DEF Keeps, Table, CommandInv, TypeOK
<1>6. ASSUME NEW pc \in {"calling", "checking"}, Parsed(i), pc = "calling" => i.op = "health",
             client' = [client EXCEPT ![c] = B(pc, None)],
             Send(c, IF pc = "calling" THEN "call" ELSE "check")
      PROVE  CommandInv'
  <2>. DEFINE sent == Sent(IF pc = "calling" THEN "call" ELSE "check")
  <2>1. Moves(c, B(pc, None), sent, done[c])
    BY <1>0, <1>6, Same, Effects DEF Moves, CommandInv
  <2>2. Sound(B(pc, None), sent, done[c], status, server)
    <3>. DEFINE k == B(pc, None)
    <3>1. /\ k.pc = pc /\ k.op = i.op /\ k.ref = i.ref /\ k.since = MatchesIn(status, i.ref)
          /\ k.era = 0 /\ sent.pc = IF pc = "calling" THEN "call" ELSE "check"
      BY <1>3 DEF Invoked, Sent
    <3>. HIDE DEF k, sent
    <3>2. Place(k, sent, done[c])
      BY <1>4, <1>6, <3>1 DEF Place, Handling, Parsed
    <3>3. Aim(k, sent, done[c], status)
      BY <1>4, <1>6, <3>1 DEF Aim
    <3>4. Told(k, sent, done[c], status) /\ Ended(k, done[c], status)
      BY <1>6, <3>1 DEF Told, Ended
    <3>5. Current(k, sent, done[c], server)
      BY <1>4, <1>6, <3>1 DEF Current
    <3>. QED
      BY <3>2, <3>3, <3>4, <3>5 DEF Sound, k, sent
  <2>3. sent \in Job /\ B(pc, None) \in Client
    BY <1>2, AnswerTyped
  <2>. HIDE DEF sent, B
  <2>. QED
    BY <1>0, <2>1, <2>2, <2>3, OneStep DEF Keeps, Table, CommandInv, TypeOK
<1>. QED
  BY <1>1, <1>5, <1>6

\* The check was answered: the call is sent, to the server that was checked.
LEMMA CheckedKeeps ==
  ASSUME CommandInv, NEW c \in Commands, Checked(c)
  PROVE  CommandInv'
<1>0. /\ client[c] \in Client /\ job[c] \in Job /\ done[c] \in Deed
      /\ Sound(client[c], job[c], done[c], status, server)
      /\ client[c].pc = "checking" /\ job[c].pc = "answered"
      /\ UNCHANGED <<status, silences, expired, server, done>>
  BY Same DEF CommandInv, Checked, database
<1>1. CASE Supports(client[c].op, job[c].answer)
  <2>. DEFINE k == Turned(client[c], "calling", client[c].cause, client[c].got)
  <2>1. Moves(c, k, Sent("call"), done[c])
    <3>1. client' = [client EXCEPT ![c] = [client[c] EXCEPT !.pc = "calling"]]
      BY <1>1 DEF Checked, CommandInv, TypeOK
    <3>. QED
      BY <1>0, <1>1, <3>1, Same, TurnedIs, Effects DEF Moves, Checked, CommandInv
  <2>2. k \in Client /\ Sent("call") \in Job
    BY <1>0, AnswerTyped, TurnedTyped, ClientFields
  <2>3. Sound(k, Sent("call"), done[c], status, server)
    BY <1>0, <1>1
    DEF Sound, Place, Aim, Told, Ended, Current, TrueOf, Handling, Sent, Supports, Turned
  <2>. QED
    BY <1>0, <2>1, <2>2, <2>3, OneStep DEF Keeps, Table, CommandInv, TypeOK
<1>2. CASE ~Supports(client[c].op, job[c].answer)
  <2>. DEFINE k == Turned(client[c], "failed", "unsupported", client[c].got)
  <2>1. Moves(c, k, Sent("none"), done[c])
    BY <1>0, <1>2, Same, Effects DEF Moves, Checked, CommandInv
  <2>2. k \in Client /\ Sent("none") \in Job
    <3>1. client[c].got \in Targets /\ client[c].cause \in Causes /\ {"lost", "unsupported"} \subseteq Causes
      BY <1>0, ClientFields DEF Causes
    <3>. QED
      BY <1>0, <3>1, AnswerTyped, TurnedTyped
  <2>3. Sound(k, Sent("none"), done[c], status, server)
    BY <1>0, ServerFields
    DEF Sound, Place, Aim, Told, Ended, Current, TrueOf, Handling, Sent, Turned
  <2>. QED
    BY <1>0, <2>1, <2>2, <2>3, OneStep DEF Keeps, Table, CommandInv, TypeOK
<1>. QED
  BY <1>1, <1>2

\* What the command reports is what it was told.
LEMMA AnsweredKeeps ==
  ASSUME CommandInv, NEW c \in Commands, Answered(c)
  PROVE  CommandInv'
<1>0. /\ client[c] \in Client /\ job[c] \in Job /\ done[c] \in Deed
      /\ Sound(client[c], job[c], done[c], status, server)
      /\ client[c].pc = "calling" /\ job[c].pc = "answered"
      /\ UNCHANGED <<status, silences, expired, server, done>>
  BY Same DEF CommandInv, Answered, database
<1>. DEFINE end == Outcome(client[c].op, job[c].answer)
            k == Turned(client[c], end.pc, end.cause, end.got)
<1>1. /\ end.pc \in {"ok", "failed"} /\ end.cause \in Causes /\ end.got \in Targets
      /\ end.pc = "ok" => job[c].answer.code = 200 /\ end.got = job[c].answer.target
      /\ end.pc = "failed" =>
           \/ job[c].answer.code # 200 /\ end.cause = Cause(job[c].answer.code)
           \/ /\ job[c].answer.code = 200 /\ end.cause = "http"
              /\ ~Acceptable(client[c].op, job[c].answer.target)
  <2>1. /\ job[c].answer.code \in {200, 400, 404, 409, 500} /\ job[c].answer.target \in Targets
        /\ None \in Targets
    BY <1>0, JobFields DEF Targets
  <2>2. Cause(job[c].answer.code) \in Causes /\ "http" \in Causes /\ None \in Causes
    <3>1. Cause(job[c].answer.code) \in {"not found", "ambiguous", "invalid", "http"}
      BY <2>1 DEF Cause
    <3>. QED
      BY <3>1 DEF Causes
  <2>. QED
    BY <2>1, <2>2 DEF Outcome
<1>. HIDE DEF end
<1>2. Moves(c, k, Sent("none"), done[c])
  <2>1. client' = [client EXCEPT ![c] = [client[c] EXCEPT !.pc = end.pc, !.cause = end.cause,
                                                          !.got = end.got]]
    BY DEF Answered, CommandInv, TypeOK, end
  <2>2. client' = [client EXCEPT ![c] = k]
    <3>1. [client[c] EXCEPT !.pc = end.pc, !.cause = end.cause, !.got = end.got] = k
      <4>1. \A pc, cause, got : [client[c] EXCEPT !.pc = pc, !.cause = cause, !.got = got]
                                = Turned(client[c], pc, cause, got)
        BY <1>0, TurnedGot
      <4>. QED
        BY <4>1, Zenon
    <3>. QED
      BY <2>1, <3>1
  <2>. QED
    <3>1. Send(c, "none") /\ TypeOK
      BY DEF Answered, CommandInv
    <3>2. job' = [job EXCEPT ![c] = Sent("none")]
      BY <3>1, Effects
    <3>. QED
      BY <1>0, <2>2, <3>1, <3>2, Same DEF Moves
<1>3. k \in Client /\ Sent("none") \in Job
  BY <1>0, <1>1, AnswerTyped, TurnedTyped
<1>4. Sound(k, Sent("none"), done[c], status, server)
  <2>. DEFINE j == Sent("none")
  <2>1. /\ k.pc = end.pc /\ k.cause = end.cause /\ k.got = end.got /\ k.op = client[c].op
        /\ k.ref = client[c].ref /\ k.since = client[c].since /\ k.era = client[c].era
        /\ j.pc = "none" /\ done[c].times \in Nat
    BY <1>0, ServerFields DEF Turned, Sent
  <2>. HIDE DEF k, j
  <2>2. Place(k, j, done[c])
    BY <1>0, <1>1, <2>1 DEF Sound, Place, Handling
  <2>3. Aim(k, j, done[c], status)
    BY <1>0, <2>1 DEF Sound, Aim
  <2>4. Told(k, j, done[c], status) /\ Current(k, j, done[c], server)
    BY <1>0, <1>1, <2>1 DEF Sound, Told, Current
  <2>5. Ended(k, done[c], status)
    <3>1. CASE end.pc = "ok"
      BY <1>0, <1>1, <2>1, <3>1 DEF Sound, Told, Ended
    <3>2. CASE end.pc = "failed" /\ job[c].answer.code # 200
      <4>1. ~done[c].unchecked => /\ client[c].op \in Mutations => done[c].times = 0
                                  /\ TrueOf(client[c], status, end.cause)
        BY <1>0, <1>1, <3>2 DEF Sound, Told
      <4>2. TrueOf(client[c], status, end.cause) => TrueOf(k, status, k.cause)
        BY <2>1 DEF TrueOf
      <4>. QED
        BY <2>1, <3>2, <4>1, <4>2 DEF Ended
    <3>3. CASE end.pc = "failed" /\ job[c].answer.code = 200
      BY <1>0, <1>1, <2>1, <3>3 DEF Sound, Told, Ended, TrueOf
    <3>. QED
      BY <1>1, <3>1, <3>2, <3>3
  <2>. QED
    BY <2>2, <2>3, <2>4, <2>5 DEF Sound, j
<1>. QED
  BY <1>0, <1>2, <1>3, <1>4, OneStep DEF Keeps, Table, CommandInv, TypeOK

\* A command that gives up leaves its request behind, or takes it along.
LEMMA BreakKeeps ==
  ASSUME CommandInv, NEW c \in Commands, Break(c)
  PROVE  CommandInv'
<1>0. /\ client[c] \in Client /\ job[c] \in Job /\ done[c] \in Deed
      /\ Sound(client[c], job[c], done[c], status, server)
      /\ client[c].pc \in {"checking", "calling"}
      /\ UNCHANGED <<status, silences, expired, server, done>>
  BY Same DEF CommandInv, Break, database
<1>. DEFINE k == Turned(client[c], "failed", "lost", client[c].got)
<1>1. \/ Moves(c, k, job[c], done[c])
      \/ Moves(c, k, Sent("none"), done[c])
  BY <1>0, Same, Effects DEF Moves, Break, CommandInv
<1>2. k \in Client /\ Sent("none") \in Job
  <2>1. client[c].got \in Targets /\ client[c].cause \in Causes /\ {"lost", "unsupported"} \subseteq Causes
    BY <1>0, ClientFields DEF Causes
  <2>. QED
    BY <1>0, <2>1, AnswerTyped, TurnedTyped
<1>3. ASSUME NEW j, j = job[c] \/ j = Sent("none")
      PROVE  Sound(k, j, done[c], status, server)
  <2>1. /\ k.pc = "failed" /\ k.cause = "lost" /\ k.op = client[c].op /\ k.ref = client[c].ref
        /\ k.since = client[c].since /\ k.era = client[c].era
        /\ j = job[c] \/ j.pc = "none"
    BY <1>3 DEF Turned, Sent
  <2>2. done[c].times \in Nat
    BY <1>0, ServerFields
  <2>. HIDE DEF k
  <2>3. Place(k, j, done[c])
    BY <1>0, <2>1, <2>2 DEF Sound, Place, Handling
  <2>4. Aim(k, j, done[c], status)
    BY <1>0, <2>1 DEF Sound, Aim
  <2>5. Told(k, j, done[c], status) /\ Ended(k, done[c], status)
    BY <2>1 DEF Told, Ended, TrueOf
  <2>6. Current(k, j, done[c], server)
    BY <1>0, <2>1 DEF Sound, Current
  <2>. QED
    BY <2>3, <2>4, <2>5, <2>6 DEF Sound
<1>. QED
  BY <1>0, <1>1, <1>2, <1>3, OneStep DEF Keeps, Table, CommandInv, TypeOK

\* Only a request that changes nothing is sent again.
LEMMA RepeatKeeps ==
  ASSUME CommandInv, NEW c \in Commands, Repeat(c)
  PROVE  CommandInv'
<1>0. /\ client[c] \in Client /\ job[c] \in Job /\ done[c] \in Deed
      /\ Sound(client[c], job[c], done[c], status, server)
      /\ client[c].pc \in {"checking", "calling"} /\ job[c].pc \in {"none", "answered"}
      /\ client[c].pc = "calling" => client[c].op \notin Mutations
      /\ UNCHANGED <<status, silences, expired, server, client, done>>
  BY Same DEF CommandInv, Repeat, database
<1>. DEFINE j == Sent(IF client[c].pc = "calling" THEN "call" ELSE "check")
<1>1. Moves(c, client[c], j, done[c])
  BY <1>0, Same, Effects DEF Moves, Repeat, CommandInv
<1>2. j \in Job
  BY AnswerTyped
<1>3. Sound(client[c], j, done[c], status, server)
  <2>1. /\ j.pc = IF client[c].pc = "calling" THEN "call" ELSE "check"
        /\ done[c].times \in Nat
    BY <1>0, ServerFields DEF Sent
  <2>. HIDE DEF j
  <2>2. Place(client[c], j, done[c])
    BY <1>0, <2>1 DEF Sound, Place, Handling
  <2>3. Aim(client[c], j, done[c], status)
    BY <1>0, <2>1 DEF Sound, Aim
  <2>4. Told(client[c], j, done[c], status) /\ Current(client[c], j, done[c], server)
    BY <1>0, <2>1 DEF Sound, Told, Current
  <2>. QED
    BY <1>0, <2>2, <2>3, <2>4 DEF Sound
<1>. QED
  BY <1>0, <1>1, <1>2, <1>3, OneStep DEF Keeps, Table, CommandInv, TypeOK
-----------------------------------------------------------------------------
(* The server's steps                                                      *)

\* A request in hand is answered, with what d says was done for it.
LEMMA Replied ==
  ASSUME NEW k \in Client, NEW j \in Job, NEW d \in Deed, NEW e \in Deed, NEW v \in Server,
         NEW code, NEW target, Sound(k, j, d, status, v), j.pc \in Handling,
         e.unchecked = d.unchecked \/ (e.unchecked /\ (k.op # "health" => k.era < v.era)),
         \/ e.times = 0
         \/ /\ e.times = 1 /\ k.op \in Mutations
            /\ k.op \in ByReference => Extends(e.target, k.ref) /\ k.since \subseteq {e.target},
         ~e.unchecked /\ code = 200 /\ k.op \in Mutations =>
           e.times = 1 /\ e.target = target /\ Acceptable(k.op, target),
         ~e.unchecked /\ code # 200 =>
           (k.op \in Mutations => e.times = 0) /\ TrueOf(k, status, Cause(code))
  PROVE  Sound(k, AnswerOf(code, target), e, status, v)
<1>. DEFINE a == AnswerOf(code, target)
<1>1. a.pc = "answered" /\ a.answer.code = code /\ a.answer.target = target
  BY DEF AnswerOf
<1>. HIDE DEF a
<1>2. /\ Place(k, j, d) /\ Aim(k, j, d, status) /\ Ended(k, d, status) /\ Current(k, j, d, v)
      /\ k.pc \notin {"idle", "checking", "ok"} /\ (k.pc = "failed" => k.cause = "lost")
      /\ d.unchecked \in BOOLEAN /\ e.unchecked \in BOOLEAN
  BY ServerFields DEF Sound, Place, Handling
<1>3. Place(k, a, e)
  BY <1>1, <1>2 DEF Place, Handling
<1>4. Aim(k, a, e, status)
  BY <1>1, <1>2 DEF Aim
<1>5. Told(k, a, e, status)
  BY <1>1 DEF Told
<1>6. Ended(k, e, status)
  BY <1>2 DEF Ended, TrueOf
<1>7. Current(k, a, e, v)
  BY <1>1, <1>2 DEF Current
<1>. QED
  BY <1>3, <1>4, <1>5, <1>6, <1>7 DEF Sound, a

\* What the invariant gives a step of the server.
LEMMA AtWork ==
  ASSUME CommandInv, NEW c \in Commands, job[c].pc \in Handling
  PROVE  /\ client[c] \in Client /\ job[c] \in Job /\ done[c] \in Deed
         /\ Sound(client[c], job[c], done[c], status, server)
         /\ done[c].times = 0 /\ status \in Table /\ server \in Server
         /\ client[c].op \in ByReference => ValidFingerprint(client[c].ref)
  BY Same DEF CommandInv, TypeOK, Table, Sound, Place, Handling

\* An answer that changes nothing keeps the invariant.
LEMMA RefusalKeeps ==
  ASSUME CommandInv, NEW c \in Commands, job[c].pc \in Handling,
         NEW code \in {200, 400, 404, 409, 500}, NEW target \in Targets,
         code = 200 => client[c].op \notin Mutations,
         code # 200 => TrueOf(client[c], status, Cause(code)),
         Reply(c, code, target),
         UNCHANGED <<status, silences, expired, server, client, done>>
  PROVE  CommandInv'
<1>1. Moves(c, client[c], AnswerOf(code, target), done[c])
  BY Same, Effects DEF Moves, CommandInv
<1>2. Sound(client[c], AnswerOf(code, target), done[c], status, server)
  <2>1. /\ client[c] \in Client /\ job[c] \in Job /\ done[c] \in Deed /\ server \in Server
        /\ Sound(client[c], job[c], done[c], status, server) /\ done[c].times = 0
    BY AtWork
  <2>. QED
    BY <2>1, Replied
<1>. QED
  BY <1>1, <1>2, AtWork, AnswerTyped, OneStep DEF Keeps, CommandInv, TypeOK

\* What was done for a request that succeeds.
Deeds(c, target) == [times |-> 1, target |-> target, unchecked |-> done[c].unchecked]

\* A mutation that is answered as done, to the one group it names, keeps it.
LEMMA MutationKeeps ==
  ASSUME CommandInv, NEW c \in Commands, job[c].pc \in Handling, NEW target \in Seq(STRING),
         client[c].op \in Mutations, Acceptable(client[c].op, target),
         client[c].op \in ByReference =>
           Extends(target, client[c].ref) /\ client[c].since \subseteq {target},
         Reply(c, 200, target), Does(c, target), UNCHANGED <<server, client>>,
         status' \in Table, Keeps(status, status'),
         silences' \subseteq Seq(STRING), expired' \in BOOLEAN
  PROVE  CommandInv'
<1>1. target \in Targets /\ Deeds(c, target) \in Deed
  BY AtWork, ServerFields DEF Targets, Deeds, Deed
<1>2. Moves(c, client[c], AnswerOf(200, target), Deeds(c, target))
  BY AtWork, Same, Effects DEF Moves, CommandInv, Deeds
<1>3. Sound(client[c], AnswerOf(200, target), Deeds(c, target), status, server)
  <2>1. /\ Deeds(c, target).times = 1 /\ Deeds(c, target).target = target
        /\ Deeds(c, target).unchecked = done[c].unchecked
    BY DEF Deeds
  <2>. QED
    BY <1>1, <2>1, AtWork, Replied
<1>. QED
  BY <1>1, <1>2, <1>3, AtWork, AnswerTyped, OneStep

\* The check is answered with the version of the server that runs.
LEMMA CapabilitiesKeeps ==
  ASSUME CommandInv, NEW c \in Commands, Capabilities(c)
  PROVE  CommandInv'
<1>0. /\ client[c] \in Client /\ job[c] \in Job /\ done[c] \in Deed
      /\ Sound(client[c], job[c], done[c], status, server)
      /\ job[c].pc = "check" /\ server \in Server
      /\ UNCHANGED <<status, silences, expired, server, done>>
  BY Same DEF CommandInv, Capabilities, database, TypeOK
<1>. DEFINE answer == [code |-> IF server.api = 0 THEN 404 ELSE 200, target |-> None,
                       api |-> server.api, list |-> server.list]
            j == [pc |-> "answered", fp |-> None, answer |-> answer]
            k == [client[c] EXCEPT !.era = server.era]
<1>1. answer \in Answer /\ j \in Job /\ j.pc = "answered" /\ j.answer.api = server.api
  <2>1. answer \in Answer
    BY <1>0, ServerFields DEF Answer, Targets
  <2>. HIDE DEF answer
  <2>2. j \in Job /\ j.pc = "answered" /\ j.answer = answer
    BY <2>1 DEF Job
  <2>. QED
    BY <2>1, <2>2 DEF answer
<1>2. job' = [job EXCEPT ![c] = j]
  BY DEF Capabilities
<1>3. Moves(c, k, j, done[c])
  <2>1. client' = [client EXCEPT ![c] = k]
    BY DEF Capabilities, CommandInv, TypeOK
  <2>. QED
    BY <1>0, <1>2, <2>1, Same DEF Moves, Capabilities, CommandInv
<1>4. /\ k \in Client /\ k.pc = client[c].pc /\ k.op = client[c].op /\ k.ref = client[c].ref
      /\ k.since = client[c].since /\ k.cause = client[c].cause /\ k.got = client[c].got
      /\ k.era = server.era
  BY <1>0, ServerFields DEF Client
<1>5. Sound(k, j, done[c], status, server)
  <2>1. done[c].times = 0 /\ ~done[c].unchecked /\ server.era \in Nat
    BY <1>0, ServerFields DEF Sound, Place
  <2>. HIDE DEF k, j
  <2>2. Place(k, j, done[c])
    BY <1>0, <1>1, <1>4, <2>1 DEF Sound, Place, Handling
  <2>3. Aim(k, j, done[c], status)
    BY <1>0, <1>1, <1>4, <2>1 DEF Sound, Aim
  <2>4. k.pc # "calling"
    BY <1>0, <1>4 DEF Sound, Place
  <2>5. Told(k, j, done[c], status) /\ Ended(k, done[c], status)
    BY <1>0, <1>4, <2>4 DEF Sound, Told, Ended, TrueOf
  <2>6. Current(k, j, done[c], server)
    BY <1>1, <1>4, <2>1, <2>4 DEF Current
  <2>. QED
    BY <2>2, <2>3, <2>5, <2>6 DEF Sound
<1>. HIDE DEF k, j
<1>. QED
  BY <1>0, <1>1, <1>3, <1>4, <1>5, OneStep DEF Keeps, Table, CommandInv, TypeOK

\* A lookup that finds one group has found the one that matched from the start;
\* one that finds none, or several, is refused with what is true.
LEMMA LookupKeeps ==
  ASSUME CommandInv, NEW c \in Commands, Lookup(c)
  PROVE  CommandInv'
<1>. DEFINE ref == client[c].ref
            M == MatchesIn(status, ref)
<1>0. /\ job[c].pc = "call" /\ job[c].pc \in Handling /\ client[c].op \in ByReference
      /\ UNCHANGED <<status, silences, expired, server, client, done>>
  BY DEF Lookup, Handled, database, Handling
<1>1. /\ client[c] \in Client /\ job[c] \in Job /\ done[c] \in Deed
      /\ Sound(client[c], job[c], done[c], status, server) /\ done[c].times = 0
      /\ ValidFingerprint(ref)
  BY <1>0, AtWork
<1>2. Matches(ref) = M /\ client[c].since \subseteq M /\ M \subseteq Fingerprints
  BY <1>1, MatchesFinite DEF Matches, MatchesIn, Sound, Aim
<1>3. /\ Cardinality(M) \in Nat /\ (Cardinality(M) = 0 => M = {})
      /\ ~(Cardinality(M) > 1) => \A f \in M : M = {f}
  BY MatchesFinite, MatchesCounted
<1>. HIDE DEF M
<1>4. /\ LookupCode(ref) \in {200, 404, 409}
      /\ LookupCode(ref) = 200 => ~(Cardinality(M) > 1)
      /\ LookupCode(ref) = 404 => M = {}
      /\ LookupCode(ref) = 409 => Cardinality(M) > 1
  BY <1>1, <1>2, <1>3 DEF LookupCode
<1>5. CASE LookupCode(ref) = 200
  <2>1. PICK f \in M : job' = [job EXCEPT ![c].pc = "found", ![c].fp = f]
    BY <1>2, <1>5 DEF Lookup
  <2>. DEFINE j == [pc |-> "found", fp |-> f, answer |-> job[c].answer]
  <2>2. f \in Fingerprints /\ Extends(f, ref) /\ client[c].since \subseteq {f}
    BY <1>2, <1>3, <1>4, <1>5 DEF M, MatchesIn
  <2>3. [job[c] EXCEPT !.pc = "found", !.fp = f] = j /\ j \in Job
    <3>1. [job[c] EXCEPT !.pc = "found", !.fp = f] = [[job[c] EXCEPT !.pc = "found"] EXCEPT !.fp = f]
      OBVIOUS
    <3>2. [job[c] EXCEPT !.pc = "found"] = [pc |-> "found", fp |-> job[c].fp, answer |-> job[c].answer]
      BY <1>1 DEF Job
    <3>3. [[pc |-> "found", fp |-> job[c].fp, answer |-> job[c].answer] EXCEPT !.fp = f] = j
      OBVIOUS
    <3>4. j \in Job
      BY <1>1, <2>2, FingerprintShape, JobFields DEF Job
    <3>. QED
      BY <3>1, <3>2, <3>3, <3>4
  <2>4. job' = [job EXCEPT ![c] = [job[c] EXCEPT !.pc = "found", !.fp = f]]
    BY <2>1 DEF CommandInv, TypeOK
  <2>5. Moves(c, client[c], j, done[c])
    BY <1>0, <2>3, <2>4, Same DEF Moves, CommandInv
  <2>6. Sound(client[c], j, done[c], status, server)
    <3>1. j.pc = "found" /\ j.fp = f
      OBVIOUS
    <3>. HIDE DEF j
    <3>2. Place(client[c], j, done[c])
      BY <1>0, <1>1, <3>1 DEF Sound, Place, Handling
    <3>3. Aim(client[c], j, done[c], status)
      BY <1>0, <1>1, <2>2, <3>1 DEF Sound, Aim
    <3>4. Told(client[c], j, done[c], status) /\ Current(client[c], j, done[c], server)
      BY <1>0, <1>1, <3>1 DEF Sound, Told, Current
    <3>. QED
      BY <1>1, <3>2, <3>3, <3>4 DEF Sound
  <2>. HIDE DEF j
  <2>. QED
    BY <1>0, <1>1, <2>3, <2>5, <2>6, OneStep DEF Keeps, Table, CommandInv, TypeOK
<1>6. CASE LookupCode(ref) = 404 /\ client[c].op = "unsilence"
  <2>1. job' = [job EXCEPT ![c].pc = "missing"]
    BY <1>6 DEF Lookup
  <2>. DEFINE j == [job[c] EXCEPT !.pc = "missing"]
  <2>2. j \in Job /\ j.pc = "missing"
    BY <1>1 DEF Job
  <2>3. Moves(c, client[c], j, done[c])
    BY <1>0, <2>1, Same DEF Moves, CommandInv, TypeOK
  <2>. HIDE DEF j
  <2>4. Sound(client[c], j, done[c], status, server)
    <3>1. client[c].since = {}
      BY <1>2, <1>4, <1>6
    <3>2. Place(client[c], j, done[c])
      BY <1>0, <1>1, <2>2 DEF Sound, Place, Handling
    <3>3. Aim(client[c], j, done[c], status)
      BY <1>0, <1>1, <1>6, <2>2, <3>1 DEF Sound, Aim
    <3>4. Told(client[c], j, done[c], status) /\ Current(client[c], j, done[c], server)
      BY <1>0, <1>1, <2>2 DEF Sound, Told, Current
    <3>. QED
      BY <1>1, <3>2, <3>3, <3>4 DEF Sound
  <2>. QED
    BY <1>0, <1>1, <2>2, <2>3, <2>4, OneStep DEF Keeps, Table, CommandInv, TypeOK
<1>7. CASE LookupCode(ref) # 200 /\ ~(LookupCode(ref) = 404 /\ client[c].op = "unsilence")
  <2>1. Reply(c, LookupCode(ref), None)
    BY <1>7 DEF Lookup
  <2>2. TrueOf(client[c], status, Cause(LookupCode(ref)))
    BY <1>2, <1>4, <1>7 DEF TrueOf, Cause, M
  <2>3. None \in Targets
    BY DEF Targets
  <2>. QED
    BY <1>0, <1>4, <1>7, <2>1, <2>2, <2>3, RefusalKeeps
<1>. QED
  BY <1>5, <1>6, <1>7

\* What a lookup has found.
LEMMA AtGroup ==
  ASSUME CommandInv, NEW c \in Commands, job[c].pc = "found"
  PROVE  /\ job[c].pc \in Handling /\ job[c].fp \in Fingerprints /\ job[c].fp \in Seq(STRING)
         /\ Extends(job[c].fp, client[c].ref) /\ client[c].since \subseteq {job[c].fp}
         /\ client[c].op \in ByReference /\ Acceptable(client[c].op, job[c].fp)
<1>1. job[c].pc \in Handling
  BY DEF Handling
<1>2. Sound(client[c], job[c], done[c], status, server)
  BY DEF CommandInv
<1>. QED
  BY <1>1, <1>2, FingerprintShape DEF Sound, Aim

\* Resolving closes the group that was found, or tells that it was not open.
LEMMA ResolveKeeps ==
  ASSUME CommandInv, NEW c \in Commands, Resolve(c)
  PROVE  CommandInv'
<1>0. /\ job[c].pc = "found" /\ client[c].op = "resolve"
      /\ UNCHANGED <<silences, expired, server, client>>
      /\ silences' \subseteq Seq(STRING) /\ expired' \in BOOLEAN /\ status \in Table
  BY DEF Resolve, Found, CommandInv, TypeOK, Table
<1>1. CASE status[job[c].fp] = "open"
  <2>1. status' = [status EXCEPT ![job[c].fp] = "resolved"]
    BY <1>1 DEF Resolve
  <2>2. status' \in Table /\ Keeps(status, status')
    BY <1>0, <1>1, <2>1 DEF Table, Keeps
  <2>3. Reply(c, 200, job[c].fp) /\ Does(c, job[c].fp)
    BY <1>1 DEF Resolve
  <2>. QED
    BY <1>0, <2>2, <2>3, AtGroup, MutationKeeps DEF Mutations
<1>2. CASE status[job[c].fp] # "open"
  <2>1. Reply(c, 404, None) /\ UNCHANGED <<status, done>>
    BY <1>2 DEF Resolve
  <2>2. TrueOf(client[c], status, Cause(404)) /\ None \in Targets
    BY <1>0 DEF TrueOf, Cause, Targets
  <2>. QED
    BY <1>0, <2>1, <2>2, AtGroup, RefusalKeeps
<1>. QED
  BY <1>1, <1>2

\* So do the other operations on the group that was found, or on the silence of
\* exactly the name that was asked for.
LEMMA GroupKeeps ==
  ASSUME CommandInv, NEW c \in Commands, Show(c) \/ Silence(c) \/ Unsilence(c)
  PROVE  CommandInv'
<1>0. silences \subseteq Seq(STRING) /\ expired \in BOOLEAN /\ status \in Table
      /\ Keeps(status, status)
  BY DEF CommandInv, TypeOK, Table, Keeps
<1>1. CASE Show(c)
  <2>1. /\ job[c].pc = "found" /\ client[c].op \notin Mutations /\ Reply(c, 200, job[c].fp)
        /\ UNCHANGED <<status, silences, expired, server, client, done>>
    BY <1>1 DEF Show, Found, Mutations, database
  <2>. QED
    BY <2>1, AtGroup, FingerprintShape, RefusalKeeps
<1>2. CASE Silence(c)
  <2>1. /\ job[c].pc = "found" /\ client[c].op \in Mutations
        /\ Reply(c, 200, job[c].fp) /\ Does(c, job[c].fp)
        /\ UNCHANGED <<status, expired, server, client>> /\ silences' = silences \cup {job[c].fp}
    BY <1>2 DEF Silence, Found, Mutations
  <2>2. silences' \subseteq Seq(STRING)
    BY <1>0, <2>1, AtGroup
  <2>. QED
    BY <1>0, <2>1, <2>2, AtGroup, MutationKeeps
<1>3. CASE Unsilence(c)
  <2>1. /\ Reply(c, 200, job[c].fp) /\ Does(c, job[c].fp)
        /\ UNCHANGED <<status, expired, server, client>> /\ silences' \subseteq Seq(STRING)
    BY <1>0, <1>3 DEF Unsilence
  <2>2. CASE Found(c, "unsilence")
    <3>1. job[c].pc = "found" /\ client[c].op \in Mutations
      BY <2>2 DEF Found, Mutations
    <3>. QED
      BY <1>0, <2>1, <3>1, AtGroup, MutationKeeps
  <2>3. CASE job[c].pc = "orphan"
    <3>1. job[c].pc \in Handling
      BY <2>3 DEF Handling
    <3>2. /\ client[c].op = "unsilence" /\ client[c].since = {} /\ job[c].fp = client[c].ref
          /\ client[c].ref \in Seq(STRING)
      BY <2>3, <3>1, AtWork, ClientFields DEF Sound, Aim
    <3>3. client[c].op \in Mutations /\ client[c].op \in ByReference
      BY <3>2 DEF Mutations, ByReference
    <3>4. Acceptable(client[c].op, job[c].fp) /\ Extends(job[c].fp, client[c].ref)
      BY <3>1, <3>2, <3>3, AtWork, ExtendsItself DEF Acceptable
    <3>. QED
      BY <1>0, <2>1, <3>1, <3>2, <3>3, <3>4, MutationKeeps
  <2>. QED
    BY <1>3, <2>2, <2>3 DEF Unsilence
<1>. QED
  BY <1>1, <1>2, <1>3

\* No group, and a silence of that name or none.
LEMMA ListSilencesKeeps ==
  ASSUME CommandInv, NEW c \in Commands, ListSilences(c)
  PROVE  CommandInv'
<1>0. /\ job[c].pc = "missing" /\ job[c].pc \in Handling
      /\ UNCHANGED <<status, silences, expired, server, client, done>>
  BY DEF ListSilences, database, Handling
<1>1. /\ client[c] \in Client /\ job[c] \in Job /\ done[c] \in Deed
      /\ Sound(client[c], job[c], done[c], status, server)
      /\ client[c].op = "unsilence" /\ client[c].since = {} /\ client[c].ref \in Seq(STRING)
  BY <1>0, AtWork, ClientFields DEF Sound, Aim
<1>2. CASE client[c].ref \in silences
  <2>. DEFINE j == [pc |-> "orphan", fp |-> client[c].ref, answer |-> job[c].answer]
  <2>1. [job[c] EXCEPT !.pc = "orphan", !.fp = client[c].ref] = j /\ j \in Job
    <3>1. [job[c] EXCEPT !.pc = "orphan", !.fp = client[c].ref]
            = [[job[c] EXCEPT !.pc = "orphan"] EXCEPT !.fp = client[c].ref]
      OBVIOUS
    <3>2. [job[c] EXCEPT !.pc = "orphan"] = [pc |-> "orphan", fp |-> job[c].fp, answer |-> job[c].answer]
      BY <1>1 DEF Job
    <3>3. [[pc |-> "orphan", fp |-> job[c].fp, answer |-> job[c].answer] EXCEPT !.fp = client[c].ref] = j
      OBVIOUS
    <3>4. j \in Job
      BY <1>1, JobFields DEF Job
    <3>. QED
      BY <3>1, <3>2, <3>3, <3>4
  <2>2. job' = [job EXCEPT ![c] = [job[c] EXCEPT !.pc = "orphan", !.fp = client[c].ref]]
    BY <1>2 DEF ListSilences, CommandInv, TypeOK
  <2>3. Moves(c, client[c], j, done[c])
    BY <1>0, <2>1, <2>2, Same DEF Moves, CommandInv
  <2>4. Sound(client[c], j, done[c], status, server)
    <3>1. j.pc = "orphan" /\ j.fp = client[c].ref
      OBVIOUS
    <3>. HIDE DEF j
    <3>2. Place(client[c], j, done[c])
      BY <1>0, <1>1, <3>1 DEF Sound, Place, Handling
    <3>3. Aim(client[c], j, done[c], status)
      BY <1>0, <1>1, <3>1 DEF Sound, Aim
    <3>4. Told(client[c], j, done[c], status) /\ Current(client[c], j, done[c], server)
      BY <1>0, <1>1, <3>1 DEF Sound, Told, Current
    <3>. QED
      BY <1>1, <3>2, <3>3, <3>4 DEF Sound
  <2>. HIDE DEF j
  <2>. QED
    BY <1>0, <1>1, <2>1, <2>3, <2>4, OneStep DEF Keeps, Table, CommandInv, TypeOK
<1>3. CASE client[c].ref \notin silences
  <2>1. Reply(c, 404, None)
    BY <1>3 DEF ListSilences
  <2>2. TrueOf(client[c], status, Cause(404)) /\ None \in Targets
    BY <1>1 DEF TrueOf, Cause, Targets
  <2>. QED
    BY <1>0, <2>1, <2>2, RefusalKeeps
<1>. QED
  BY <1>2, <1>3

\* The operations without a reference, and a statement that fails.
LEMMA PlainKeeps ==
  ASSUME CommandInv, NEW c \in Commands, GCOccurrences(c) \/ List(c) \/ Error(c)
  PROVE  CommandInv'
<1>0. /\ silences \subseteq Seq(STRING) /\ expired \in BOOLEAN /\ status \in Table
      /\ Keeps(status, status) /\ None \in Targets /\ job[c].pc \in Handling
  BY DEF CommandInv, TypeOK, Table, Keeps, Targets, Handling, GCOccurrences, List, Error, Handled
<1>1. CASE GCOccurrences(c)
  <2>0. << >> \in Seq(STRING)
    OBVIOUS
  <2>1. /\ client[c].op = "gc" /\ Reply(c, 200, << >>) /\ Does(c, << >>) /\ expired' \in BOOLEAN
        /\ UNCHANGED <<status, silences, server, client>>
    BY <1>1 DEF GCOccurrences
  <2>2. client[c].op \in Mutations /\ client[c].op \notin ByReference
    BY <2>1 DEF Mutations, ByReference
  <2>3. Acceptable(client[c].op, << >>)
    BY <2>1, <2>2 DEF Acceptable
  <2>. QED
    BY <1>0, <2>0, <2>1, <2>2, <2>3, MutationKeeps
<1>2. CASE List(c)
  <2>1. /\ client[c].op \notin Mutations /\ Reply(c, 200, None)
        /\ UNCHANGED <<status, silences, expired, server, client, done>>
    BY <1>2 DEF List, Mutations, database
  <2>. QED
    BY <1>0, <2>1, RefusalKeeps
<1>3. CASE Error(c)
  <2>1. Reply(c, 500, None) /\ UNCHANGED <<status, silences, expired, server, client, done>>
    BY <1>3 DEF Error, database
  <2>2. TrueOf(client[c], status, Cause(500))
    BY DEF TrueOf, Cause
  <2>. QED
    BY <1>0, <2>1, <2>2, RefusalKeeps
<1>. QED
  BY <1>1, <1>2, <1>3

\* A call reaches a server of another version only if the one checked was replaced.
LEMMA MisdirectedKeeps ==
  ASSUME CommandInv, NEW c \in Commands, Misdirected(c)
  PROVE  CommandInv'
<1>0. /\ job[c].pc = "call" /\ job[c].pc \in Handling /\ server.api # 1
      /\ UNCHANGED <<status, silences, expired, server, client>>
  BY DEF Misdirected, database, Handling
<1>1. /\ client[c] \in Client /\ job[c] \in Job /\ done[c] \in Deed
      /\ Sound(client[c], job[c], done[c], status, server) /\ done[c].times = 0
      /\ server \in Server /\ client[c].ref \in Targets
  BY <1>0, AtWork, ClientFields DEF Targets
<1>2. PICK code \in {200, 400, 404} : Reply(c, code, client[c].ref)
  BY DEF Misdirected
<1>. DEFINE e == [done[c] EXCEPT !.unchecked = TRUE]
<1>3. e \in Deed /\ e.unchecked /\ e.times = 0
  <2>1. ASSUME NEW d \in Deed
        PROVE  /\ [d EXCEPT !.unchecked = TRUE] \in Deed
               /\ [d EXCEPT !.unchecked = TRUE].unchecked
               /\ [d EXCEPT !.unchecked = TRUE].times = d.times
    BY DEF Deed
  <2>. QED
    BY <1>1, <2>1
<1>4. Moves(c, client[c], AnswerOf(code, client[c].ref), e)
  <2>1. done' = [done EXCEPT ![c] = e]
    BY DEF Misdirected, CommandInv, TypeOK
  <2>. QED
    BY <1>0, <1>2, <2>1, Same, Effects DEF Moves, CommandInv
<1>. HIDE DEF e
<1>5. client[c].op # "health" => client[c].era < server.era
  BY <1>0, <1>1 DEF Sound, Current
<1>6. Sound(client[c], AnswerOf(code, client[c].ref), e, status, server)
  BY <1>0, <1>1, <1>3, <1>5, Replied
<1>7. AnswerOf(code, client[c].ref) \in Job
  BY <1>1, AnswerTyped
<1>. QED
  <2>1. /\ status' \in Table /\ Keeps(status, status')
        /\ silences' \subseteq Seq(STRING) /\ expired' \in BOOLEAN /\ server' = server
    BY <1>0 DEF Keeps, Table, CommandInv, TypeOK
  <2>. QED
    BY <2>1, <1>1, <1>3, <1>4, <1>6, <1>7, OneStep

\* A replacement loses what is being handled; requests on their way reach the
\* new server, which everybody can tell is not the one they checked.
LEMMA ReplaceKeeps ==
  ASSUME CommandInv, Replace
  PROVE  CommandInv'
<1>0. /\ UNCHANGED <<status, silences, expired, client, done>>
      /\ server \in Server /\ server' \in Server /\ server'.era = server.era + 1
      /\ job' = [c \in Commands |-> IF job[c].pc \in {"check", "call"} THEN job[c] ELSE NoJob]
  BY DEF Replace, database, CommandInv, TypeOK
<1>1. NoJob \in Job /\ NoJob.pc = "none"
  BY AnswerTyped DEF NoJob, Sent
<1>2. TypeOK'
  BY <1>0, <1>1 DEF CommandInv, TypeOK
<1>3. ASSUME NEW c \in Commands PROVE Sound(client'[c], job'[c], done'[c], status', server')
  <2>1. /\ client[c] \in Client /\ job[c] \in Job /\ done[c] \in Deed
        /\ Sound(client[c], job[c], done[c], status, server)
    BY Same DEF CommandInv
  <2>2. client[c].era \in Nat /\ server.era \in Nat /\ client[c].era < server'.era
    BY <1>0, <2>1, ClientFields, ServerFields DEF Sound, Current
  <2>3. /\ \/ job'[c] = job[c] /\ job[c].pc \in {"check", "call"}
           \/ job'[c].pc = "none"
        /\ done[c].times \in Nat
    BY <1>0, <1>1, <2>1, ServerFields
  <2>4. Place(client[c], job'[c], done[c])
    BY <2>1, <2>3 DEF Sound, Place, Handling
  <2>5. Aim(client[c], job'[c], done[c], status)
    BY <2>1, <2>3 DEF Sound, Aim
  <2>6. Told(client[c], job'[c], done[c], status)
    BY <2>3 DEF Told
  <2>7. Current(client[c], job'[c], done[c], server')
    <3>1. client[c].era <= server'.era
      BY <1>0, <2>2
    <3>2. job'[c].pc # "answered"
      BY <2>3
    <3>. QED
      BY <2>2, <3>1, <3>2 DEF Current
  <2>. QED
    BY <1>0, <2>1, <2>4, <2>5, <2>6, <2>7 DEF Sound
<1>. QED
  BY <1>2, <1>3 DEF CommandInv

\* Events, maintenance and time take no group away.
LEMMA OthersKeep ==
  ASSUME CommandInv,
         Age \/ UNCHANGED vars \/ \E f \in Fingerprints : Ingest(f) \/ AutoResolve(f)
  PROVE  CommandInv'
<1>1. /\ UNCHANGED <<silences, server, client, job, done>> /\ expired' \in BOOLEAN
      /\ \/ status' = status
         \/ \E f \in Fingerprints : status' = [status EXCEPT ![f] = "open"]
         \/ \E f \in Fingerprints : status' = [status EXCEPT ![f] = "resolved"]
  BY DEF Age, Ingest, AutoResolve, vars, database, CommandInv, TypeOK
<1>2. status \in Table
  BY DEF CommandInv, TypeOK, Table
<1>3. status' \in Table /\ Keeps(status, status')
  BY <1>1, <1>2 DEF Table, Keeps
<1>4. TypeOK'
  BY <1>1, <1>3 DEF CommandInv, TypeOK, Table
<1>5. \A c \in Commands : Sound(client[c], job[c], done[c], status', server)
  BY <1>3, TableGrows DEF CommandInv
<1>. QED
  BY <1>1, <1>4, <1>5 DEF CommandInv
-----------------------------------------------------------------------------
(* The theorems                                                            *)

\* The invariant holds at first.
LEMMA InitCommand == Init => CommandInv
<1>. SUFFICES ASSUME Init PROVE CommandInv
  OBVIOUS
<1>0. NoJob \in Job /\ NoJob.pc = "none"
  BY AnswerTyped DEF NoJob, Sent
<1>1. ASSUME NEW c \in Commands
      PROVE  /\ client[c] \in Client /\ client[c].pc = "idle" /\ client[c].since = {}
             /\ client[c].op = "health" /\ client[c].era = 0
             /\ job[c].pc = "none" /\ job[c] \in Job
             /\ done[c] \in Deed /\ done[c].times = 0 /\ ~done[c].unchecked
  BY <1>0 DEF Init, Client, Ops, Causes, Targets, Deed
<1>2. server \in Server /\ server.era = 0
  BY DEF Init
<1>3. TypeOK
  BY <1>1, <1>2 DEF Init, TypeOK, Deed
<1>4. ASSUME NEW c \in Commands PROVE Sound(client[c], job[c], done[c], status, server)
  BY <1>1, <1>2 DEF Sound, Place, Aim, Told, Ended, Current, Handling
<1>. QED
  BY <1>3, <1>4 DEF CommandInv

\* Every step keeps it.
LEMMA CommandInductive == CommandInv /\ [Next]_vars => CommandInv'
<1>. SUFFICES ASSUME CommandInv, [Next]_vars PROVE CommandInv'
  OBVIOUS
<1>1. ASSUME NEW c \in Commands, Run(c) PROVE CommandInv'
  BY <1>1, StartKeeps, CheckedKeeps, AnsweredKeeps, BreakKeeps, RepeatKeeps DEF Run
<1>2. ASSUME NEW c \in Commands, Serve(c) PROVE CommandInv'
  BY <1>2, CapabilitiesKeeps, LookupKeeps, ResolveKeeps, GroupKeeps, ListSilencesKeeps,
     PlainKeeps, MisdirectedKeeps
  DEF Serve
<1>3. CASE Age \/ UNCHANGED vars \/ \E f \in Fingerprints : Ingest(f) \/ AutoResolve(f)
  BY <1>3, OthersKeep
<1>. QED
  BY <1>1, <1>2, <1>3, ReplaceKeeps DEF Next

\* The inductive invariant holds always.
THEOREM CommandAlways == Spec => []CommandInv
BY InitCommand, CommandInductive, PTL DEF Spec

\* A mutation is carried out once at most, done if it is reported as done, and
\* neither done nor under way if it is reported as refused.
THEOREM OutcomeAlwaysTold == Spec => []OutcomeTold
<1>1. CommandInv => OutcomeTold
  <2>. SUFFICES ASSUME CommandInv PROVE OutcomeTold
    OBVIOUS
  <2>1. ASSUME NEW c \in Commands
        PROVE  /\ done[c].times <= 1
               /\ client[c].op \in Mutations /\ Kept(c) =>
                    /\ client[c].pc = "ok" =>
                         done[c].times = 1 /\ done[c].target = client[c].got
                    /\ client[c].pc = "failed" /\ client[c].cause # "lost" =>
                         done[c].times = 0 /\ job[c].pc = "none"
    <3>1. Sound(client[c], job[c], done[c], status, server) /\ done[c].times \in Nat
      BY Same, ServerFields DEF CommandInv
    <3>. QED
      BY <3>1 DEF Sound, Place, Ended, Kept
  <2>. QED
    BY <2>1 DEF OutcomeTold, AtMostOnce, CommandInv
<1>. QED
  BY <1>1, CommandAlways, PTL

\* A refusal is true of the tracker, and a server of another version is asked only
\* if it replaced the one that was checked.
THEOREM RefusalsAlwaysTrue == Spec => []RefusalsAreTrue
<1>1. CommandInv => RefusalsAreTrue
  <2>. SUFFICES ASSUME CommandInv, NEW c \in Commands
                PROVE  /\ done[c].unchecked /\ client[c].op # "health" =>
                            client[c].era < server.era
                       /\ Kept(c) /\ client[c].pc = "failed" =>
                            /\ client[c].cause = "ambiguous" =>
                                 Cardinality(Matches(client[c].ref)) > 1
                            /\ client[c].cause = "not found" =>
                                 client[c].since = {} \/ client[c].op = "resolve"
                            /\ client[c].cause # "invalid"
    BY DEF RefusalsAreTrue, OthersAreRefused
  <2>1. Sound(client[c], job[c], done[c], status, server)
    BY DEF CommandInv
  <2>2. Matches(client[c].ref) = MatchesIn(status, client[c].ref)
    BY DEF Matches, MatchesIn
  <2>. QED
    BY <2>1, <2>2 DEF Sound, Current, Ended, TrueOf, Kept
<1>. QED
  BY <1>1, CommandAlways, PTL

\* A command changes the one group its reference names, or the silence of exactly
\* that name, and no other group matched when it began.
THEOREM OneTargetAlways == Spec => []OneTarget
<1>1. CommandInv => OneTarget
  <2>. SUFFICES ASSUME CommandInv, NEW c \in Commands,
                       done[c].times > 0, client[c].op \in ByReference
                PROVE  /\ Extends(done[c].target, client[c].ref)
                       /\ Cardinality(client[c].since) <= 1
                       /\ client[c].since # {} => client[c].since = {done[c].target}
    BY DEF OneTarget
  <2>1. Extends(done[c].target, client[c].ref) /\ client[c].since \subseteq {done[c].target}
    BY DEF CommandInv, Sound, Aim
  <2>2. client[c].since = {} \/ client[c].since = {done[c].target}
    BY <2>1
  <2>3. Cardinality({}) = 0 /\ Cardinality({done[c].target}) = 1
    BY FS_EmptySet, FS_Singleton
  <2>4. Cardinality(client[c].since) = 0 \/ Cardinality(client[c].since) = 1
    BY <2>2, <2>3
  <2>. QED
    BY <2>1, <2>2, <2>4
<1>. QED
  BY <1>1, CommandAlways, PTL
=============================================================================
