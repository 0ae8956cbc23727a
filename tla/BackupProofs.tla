---------------------------- MODULE BackupProofs ----------------------------
(***************************************************************************)
(* Theorems about Backup, for any number of commands, connections, pages   *)
(* and commits: what a backup saves is one instant of the database, and    *)
(* Backup implements Snapshot.                                             *)
(***************************************************************************)
EXTENDS Backup, FiniteSetTheorems, SequenceTheorems, TLAPS

USE BackupAssumption

\* The stages of the server's work, from the slot on.
Working == {"admitted", "pinned", "copying", "copied", "stamped", "checked", "open"}

\* The fields of a job have the types of its record.
LEMMA JobFields ==
  ASSUME NEW j \in Job
  PROVE  /\ j.pc \in {"idle", "requested", "closed"} \cup Working
         /\ j.pinned \in Versions \cup {None} /\ j.clock \in Versions \cup {None}
         /\ j.file \in File
         /\ j = [pc |-> j.pc, pinned |-> j.pinned, clock |-> j.clock, file |-> j.file]
BY DEF Job, Working

\* And those of a command.
LEMMA ClientFields ==
  ASSUME NEW c \in Client
  PROVE  /\ c.pc \in {"idle", "waiting", "received", "synced", "ended"}
         /\ c.since \in Versions /\ c.got \in File /\ c.saved \in BOOLEAN
BY DEF Client

\* And those of a file.
LEMMA FileFields ==
  ASSUME NEW f \in File
  PROVE  /\ f.pages \in Seq(Page) /\ f.stamp \in Versions \cup {None}
         /\ f.generated \in Versions \cup {None}
BY DEF File

\* No file, and no job, are well formed.
LEMMA NothingTyped ==
  /\ NoFile \in File /\ NoFile.pages = << >>
  /\ \A pc \in {"idle", "closed"} :
       LET j == [NoJob EXCEPT !.pc = pc]
       IN j \in Job /\ j.pc = pc /\ j.pinned = None /\ j.file = NoFile
<1>1. NoFile \in File /\ NoFile.pages = << >>
  BY DEF NoFile, File
<1>2. ASSUME NEW pc \in {"idle", "closed"}
      PROVE  [NoJob EXCEPT !.pc = pc] = [pc |-> pc, pinned |-> None, clock |-> None, file |-> NoFile]
  BY DEF NoJob
<1>. QED
  BY <1>1, <1>2 DEF Job

\* A new record for one job, and the others as they were.
LEMMA NewJob ==
  ASSUME job \in [Requests -> Job], NEW r \in Requests, NEW j \in Job,
         job' = [job EXCEPT ![r] = j]
  PROVE  job' \in [Requests -> Job] /\ job'[r] = j /\ \A q \in Requests \ {r} : job'[q] = job[q]
OBVIOUS

\* The steps that only move a job on.
LEMMA GotoEffect ==
  ASSUME job \in [Requests -> Job], NEW r \in Requests,
         NEW pc \in {"requested", "closed"} \cup Working, Goto(r, pc)
  PROVE  /\ job' \in [Requests -> Job]
         /\ \A q \in Requests \ {r} : job'[q] = job[q]
         /\ job'[r].pc = pc /\ job'[r].pinned = job[r].pinned
         /\ job'[r].clock = job[r].clock /\ job'[r].file = job[r].file
<1>. DEFINE j == [job[r] EXCEPT !.pc = pc]
<1>1. job[r] \in Job
  OBVIOUS
<1>2. /\ j \in Job /\ j.pc = pc /\ j.pinned = job[r].pinned
      /\ j.clock = job[r].clock /\ j.file = job[r].file
  BY <1>1 DEF Job, Working
<1>3. job' = [job EXCEPT ![r] = j]
  BY DEF Goto
<1>. HIDE DEF j
<1>. QED
  BY <1>2, <1>3, NewJob

\* The read transaction pins the present state.
LEMMA PinEffect ==
  ASSUME TypeOK, NEW r \in Requests, Pin(r)
  PROVE  /\ job' \in [Requests -> Job]
         /\ \A q \in Requests \ {r} : job'[q] = job[q]
         /\ job'[r].pc = "pinned" /\ job'[r].pinned = version
         /\ job'[r].file.pages = job[r].file.pages
<1>. DEFINE f == [job[r].file EXCEPT !.generated = generated]
            j == [pc |-> "pinned", pinned |-> version, clock |-> job[r].clock, file |-> f]
<1>1. job[r] \in Job /\ job[r].file \in File
  BY JobFields DEF TypeOK
<1>2. f \in File /\ f.pages = job[r].file.pages
  BY <1>1 DEF TypeOK, File
<1>. HIDE DEF f
<1>3. j \in Job
  BY <1>1, <1>2, JobFields DEF TypeOK, Job
<1>4. job'[r] = j /\ (\A q \in Requests \ {r} : job'[q] = job[q])
      /\ job' = [q \in Requests |-> job'[q]]
  BY <1>1 DEF Pin, TypeOK, Job, f
<1>. QED
  BY <1>2, <1>3, <1>4 DEF TypeOK

\* The clock is read after the snapshot is pinned.
LEMMA ReadClockEffect ==
  ASSUME TypeOK, NEW r \in Requests, ReadClock(r)
  PROVE  /\ job' \in [Requests -> Job]
         /\ \A q \in Requests \ {r} : job'[q] = job[q]
         /\ job'[r].pc = "copying" /\ job'[r].pinned = job[r].pinned
         /\ job'[r].clock = version /\ job'[r].file = job[r].file
<1>. DEFINE j == [pc |-> "copying", pinned |-> job[r].pinned, clock |-> version, file |-> job[r].file]
<1>1. job[r] \in Job
  BY DEF TypeOK
<1>2. j \in Job
  BY <1>1, JobFields DEF TypeOK, Job
<1>3. job'[r] = j /\ (\A q \in Requests \ {r} : job'[q] = job[q])
      /\ job' = [q \in Requests |-> job'[q]]
  BY <1>1 DEF ReadClock, TypeOK, Job
<1>. QED
  BY <1>2, <1>3 DEF TypeOK

\* A page is copied: the pinned state shows it, or it was damaged.
LEMMA CopyEffect ==
  ASSUME TypeOK, NEW r \in Requests, job[r].pinned \in Versions,
         NEW page \in {job[r].pinned, Bad},
         job' = [job EXCEPT ![r].file.pages = Append(@, page)]
  PROVE  /\ job' \in [Requests -> Job]
         /\ \A q \in Requests \ {r} : job'[q] = job[q]
         /\ job'[r].pc = job[r].pc /\ job'[r].pinned = job[r].pinned
         /\ job'[r].clock = job[r].clock
         /\ job'[r].file.pages = Append(job[r].file.pages, page)
<1>. DEFINE f == [job[r].file EXCEPT !.pages = Append(job[r].file.pages, page)]
            j == [pc |-> job[r].pc, pinned |-> job[r].pinned, clock |-> job[r].clock, file |-> f]
<1>1. job[r] \in Job /\ job[r].file \in File
  BY JobFields DEF TypeOK
<1>2. page \in Page
  BY DEF Page
<1>3. Append(job[r].file.pages, page) \in Seq(Page)
  BY <1>1, <1>2, FileFields
<1>4. f \in File /\ f.pages = Append(job[r].file.pages, page)
  BY <1>1, <1>3 DEF File
<1>5. job'[r] = j /\ (\A q \in Requests \ {r} : job'[q] = job[q])
      /\ job' = [q \in Requests |-> job'[q]]
  BY <1>1 DEF TypeOK, Job
<1>. HIDE DEF f
<1>6. j \in Job
  BY <1>1, <1>4, JobFields DEF Job, Working
<1>. QED
  BY <1>4, <1>5, <1>6 DEF TypeOK

\* The stamp replaces the history of the database that was copied.
LEMMA StampEffect ==
  ASSUME TypeOK, NEW r \in Requests, StampSnapshot(r)
  PROVE  /\ job' \in [Requests -> Job]
         /\ \A q \in Requests \ {r} : job'[q] = job[q]
         /\ job'[r].pc = "stamped" /\ job'[r].pinned = job[r].pinned
         /\ job'[r].clock = job[r].clock
         /\ job'[r].file.pages = job[r].file.pages
         /\ job'[r].file.stamp = job[r].clock /\ job'[r].file.generated = None
<1>. DEFINE f == Stamped(job[r].file, job[r].clock)
            j == [pc |-> "stamped", pinned |-> job[r].pinned, clock |-> job[r].clock, file |-> f]
<1>1. job[r] \in Job /\ job[r].file \in File /\ job[r].clock \in Versions \cup {None}
  BY JobFields DEF TypeOK
<1>2. /\ f \in File /\ f.pages = job[r].file.pages
      /\ f.stamp = job[r].clock /\ f.generated = None
  BY <1>1 DEF File, Stamped
<1>3. job'[r] = j /\ (\A q \in Requests \ {r} : job'[q] = job[q])
      /\ job' = [q \in Requests |-> job'[q]]
  BY <1>1 DEF StampSnapshot, TypeOK, Job
<1>. HIDE DEF f
<1>4. j \in Job
  BY <1>1, <1>2, JobFields DEF Job
<1>. QED
  BY <1>2, <1>3, <1>4 DEF TypeOK

\* Where a job has been cleaned up, nothing of it is left.
Cleaned(r) ==
  /\ job' \in [Requests -> Job]
  /\ \A q \in Requests \ {r} : job'[q] = job[q]
  /\ job'[r].pc = "closed" /\ job'[r].pinned = None /\ job'[r].file = NoFile

\* Clean-up ends the job.
LEMMA CleanUpEffect ==
  ASSUME job \in [Requests -> Job], NEW r \in Requests, CleanUp(r)
  PROVE  Cleaned(r)
<1>. DEFINE j == [NoJob EXCEPT !.pc = "closed"]
<1>1. j \in Job /\ j.pc = "closed" /\ j.pinned = None /\ j.file = NoFile
  BY NothingTyped
<1>2. job' = [job EXCEPT ![r] = j]
  BY DEF CleanUp
<1>. HIDE DEF j
<1>. QED
  BY <1>1, <1>2, NewJob DEF Cleaned

\* The command ends.
Ended(r, saved) ==
  /\ client' \in [Requests -> Client]
  /\ \A q \in Requests \ {r} : client'[q] = client[q]
  /\ client'[r].pc = "ended" /\ client'[r].since = client[r].since
  /\ client'[r].got = NoFile /\ client'[r].saved = saved

\* End ends the command.
LEMMA EndEffect ==
  ASSUME client \in [Requests -> Client], NEW r \in Requests, NEW saved \in BOOLEAN, End(r, saved)
  PROVE  Ended(r, saved)
<1>. DEFINE c == [pc |-> "ended", since |-> client[r].since, got |-> NoFile, saved |-> saved]
<1>1. client[r] \in Client
  OBVIOUS
<1>2. c \in Client
  BY <1>1, ClientFields, NothingTyped DEF Client
<1>3. client'[r] = c /\ (\A q \in Requests \ {r} : client'[q] = client[q])
      /\ client' = [q \in Requests |-> client'[q]]
  BY <1>1 DEF End, Client
<1>. QED
  BY <1>2, <1>3 DEF Ended

\* A killed command ends as well, without its answer.
LEMMA KillEffect ==
  ASSUME client \in [Requests -> Client], NEW r \in Requests, Kill(r)
  PROVE  Ended(r, client[r].saved)
<1>. DEFINE c == [pc |-> "ended", since |-> client[r].since, got |-> NoFile, saved |-> client[r].saved]
<1>1. client[r] \in Client
  OBVIOUS
<1>2. c \in Client
  BY <1>1, ClientFields, NothingTyped DEF Client
<1>3. client'[r] = c /\ (\A q \in Requests \ {r} : client'[q] = client[q])
      /\ client' = [q \in Requests |-> client'[q]]
  BY <1>1 DEF Kill, Client
<1>. QED
  BY <1>2, <1>3 DEF Ended

\* Another stage of a command.
LEMMA ClientMoves ==
  ASSUME client \in [Requests -> Client], NEW r \in Requests, NEW pc \in {"synced", "ended"},
         client' = [client EXCEPT ![r].pc = pc]
  PROVE  /\ client' \in [Requests -> Client]
         /\ \A q \in Requests \ {r} : client'[q] = client[q]
         /\ client'[r].pc = pc /\ client'[r].since = client[r].since
         /\ client'[r].got = client[r].got /\ client'[r].saved = client[r].saved
<1>. DEFINE c == [pc |-> pc, since |-> client[r].since, got |-> client[r].got, saved |-> client[r].saved]
<1>1. client[r] \in Client
  OBVIOUS
<1>2. c \in Client
  BY <1>1, ClientFields DEF Client
<1>3. client'[r] = c /\ (\A q \in Requests \ {r} : client'[q] = client[q])
      /\ client' = [q \in Requests |-> client'[q]]
  BY <1>1 DEF Client
<1>. QED
  BY <1>2, <1>3

\* A command begins.
LEMMA StartEffect ==
  ASSUME TypeOK, NEW r \in Requests,
         client' = [client EXCEPT ![r].pc = "waiting", ![r].since = version]
  PROVE  /\ client' \in [Requests -> Client]
         /\ \A q \in Requests \ {r} : client'[q] = client[q]
         /\ client'[r].pc = "waiting" /\ client'[r].since = version
         /\ client'[r].got = client[r].got /\ client'[r].saved = client[r].saved
<1>. DEFINE c == [pc |-> "waiting", since |-> version, got |-> client[r].got, saved |-> client[r].saved]
<1>1. client[r] \in Client
  BY DEF TypeOK
<1>2. c \in Client
  BY <1>1, ClientFields DEF TypeOK, Client
<1>3. client'[r] = c /\ (\A q \in Requests \ {r} : client'[q] = client[q])
      /\ client' = [q \in Requests |-> client'[q]]
  BY <1>1 DEF TypeOK, Client
<1>. QED
  BY <1>2, <1>3 DEF TypeOK

\* A command has received a file.
LEMMA ReceiveEffect ==
  ASSUME client \in [Requests -> Client], NEW r \in Requests, NEW f \in File,
         client' = [client EXCEPT ![r].pc = "received", ![r].got = f]
  PROVE  /\ client' \in [Requests -> Client]
         /\ \A q \in Requests \ {r} : client'[q] = client[q]
         /\ client'[r].pc = "received" /\ client'[r].since = client[r].since
         /\ client'[r].got = f /\ client'[r].saved = client[r].saved
<1>. DEFINE c == [pc |-> "received", since |-> client[r].since, got |-> f, saved |-> client[r].saved]
<1>1. client[r] \in Client
  OBVIOUS
<1>2. c \in Client
  BY <1>1, ClientFields DEF Client
<1>3. client'[r] = c /\ (\A q \in Requests \ {r} : client'[q] = client[q])
      /\ client' = [q \in Requests |-> client'[q]]
  BY <1>1 DEF Client
<1>. QED
  BY <1>2, <1>3
-----------------------------------------------------------------------------
(* The inductive invariant                                                 *)

\* One job at a time, with its directory; what is left over is of jobs that ended.
SlotInv ==
  /\ gate = 0 => Holding = {}
  /\ gate = 1 => \E r \in Requests : Holding = {r}
  /\ dirs = Holding \cup stray
  /\ \A r \in stray : job[r].pc = "closed"

\* What a job has in hand: pages of the pinned state, pinned since the command
\* began and before the clock was read.
JobInv(r) ==
  LET j == job[r]
      pages == job[r].file.pages
  IN /\ j.pc \in {"idle", "requested", "admitted", "closed"} => j.pinned = None
     /\ j.pc \in {"idle", "requested", "admitted", "closed", "pinned"} => pages = << >>
     /\ j.pc \in Working \ {"admitted"} =>
          j.pinned \in Nat /\ client[r].since <= j.pinned /\ j.pinned <= version
     /\ j.pc \in Working \ {"admitted", "pinned"} =>
          /\ j.clock \in Nat /\ j.pinned <= j.clock /\ j.clock <= version
          /\ Len(pages) <= PageCount
          /\ \A i \in 1 .. Len(pages) : pages[i] \in {j.pinned, Bad}
     /\ j.pc \in {"copied", "stamped", "checked", "open"} => Len(pages) = PageCount
     /\ j.pc \in {"stamped", "checked", "open"} =>
          j.file.stamp = j.clock /\ j.file.generated = None
     /\ j.pc \in {"checked", "open"} => \A i \in 1 .. PageCount : pages[i] # Bad

\* The live database's record of a backup that is handed out.
RecordInv(r) == job[r].pc = "open" => generated \in Nat /\ generated >= job[r].clock

Received(got, since) ==
  /\ OneState(got) /\ got.pages[1] # Bad
  /\ since <= got.pages[1] /\ got.pages[1] <= got.stamp
  /\ got.generated = None

\* Where a command stands in relation to its job, and what it has received.
ClientInv(r) ==
  LET c == client[r]
  IN /\ c.pc = "idle" => job[r].pc = "idle"
     /\ c.pc = "waiting" => job[r].pc # "idle"
     /\ c.pc \in {"received", "synced"} => job[r].pc = "closed" /\ Received(c.got, c.since)
     /\ c.pc \notin {"received", "synced"} => c.got = NoFile
     /\ c.since <= version
     /\ c.saved => c.pc = "ended"

JobsInv == \A r \in Requests : JobInv(r) /\ RecordInv(r)
ClientsInv == \A r \in Requests : ClientInv(r)

BackupInv == TypeOK /\ SlotInv /\ JobsInv /\ ClientsInv /\ SavedIsWhole

\* Commits and other jobs' records leave a job's invariant alone.
LEMMA JobFrame ==
  ASSUME TypeOK, NEW q \in Requests, JobInv(q), RecordInv(q),
         job'[q] = job[q], client'[q].since = client[q].since,
         version' \in Nat, version <= version', generated' = generated \/ generated' = version
  PROVE  JobInv(q)' /\ RecordInv(q)'
<1>1. version \in Nat
  BY DEF TypeOK, Versions
<1>2. JobInv(q)'
  BY <1>1 DEF JobInv
<1>3. RecordInv(q)'
  BY <1>1 DEF RecordInv, JobInv, Working
<1>. QED
  BY <1>2, <1>3

\* And a command's.
LEMMA ClientFrame ==
  ASSUME TypeOK, NEW q \in Requests, ClientInv(q),
         job'[q].pc = job[q].pc, client'[q] = client[q], version' \in Nat, version <= version'
  PROVE  ClientInv(q)'
<1>1. version \in Nat /\ client[q].since \in Nat
  BY ClientFields DEF TypeOK, Versions
<1>. QED
  BY <1>1 DEF ClientInv, Received, OneState, Whole

\* While a job is under way its command waits or has ended.
LEMMA ClientOfJob ==
  ASSUME TypeOK, NEW r \in Requests, ClientInv(r), job[r].pc \in {"requested"} \cup Working
  PROVE  client[r].pc \in {"waiting", "ended"}
BY ClientFields DEF TypeOK, ClientInv, Working

\* A step of one job that leaves commands alone keeps the invariants if it keeps
\* those of this job and of the slot.
LEMMA JobMoves ==
  ASSUME BackupInv, NEW r \in Requests, job[r].pc \in {"requested"} \cup Working,
         job' \in [Requests -> Job], \A q \in Requests \ {r} : job'[q] = job[q],
         job'[r].pc # "idle", JobInv(r)', RecordInv(r)', SlotInv',
         UNCHANGED <<version, inUse, command>>, generated' = generated \/ generated' = version,
         gate' \in 0 .. 1, dirs' \subseteq Requests, stray' \subseteq dirs'
  PROVE  BackupInv'
<1>1. TypeOK'
  BY DEF BackupInv, TypeOK, command
<1>2. version \in Nat /\ UNCHANGED <<client, output>>
  BY DEF BackupInv, TypeOK, Versions, command
<1>3. JobsInv'
  <2>1. ASSUME NEW q \in Requests \ {r} PROVE JobInv(q)' /\ RecordInv(q)'
    BY <1>2, JobFrame DEF BackupInv, JobsInv
  <2>. QED
    BY <2>1 DEF JobsInv
<1>4. ClientsInv'
  <2>1. ASSUME NEW q \in Requests \ {r} PROVE ClientInv(q)'
    BY <1>2, ClientFrame DEF BackupInv, ClientsInv
  <2>2. ClientInv(r)'
    <3>1. client[r].pc \in {"waiting", "ended"} /\ ClientInv(r)
      BY ClientOfJob DEF BackupInv, ClientsInv
    <3>. QED
      BY <1>2, <3>1 DEF ClientInv
  <2>. QED
    BY <2>1, <2>2 DEF ClientsInv
<1>5. SavedIsWhole'
  BY <1>2 DEF BackupInv, SavedIsWhole, OneState, Whole
<1>. QED
  BY <1>1, <1>3, <1>4, <1>5 DEF BackupInv

\* As long as a job keeps or leaves out the slot, so does the slot's invariant.
LEMMA SlotFrame ==
  ASSUME TypeOK, SlotInv, NEW r \in Requests, job' \in [Requests -> Job],
         \A q \in Requests \ {r} : job'[q] = job[q],
         job[r].pc \in Working, job'[r].pc \in Working,
         UNCHANGED <<gate, dirs, stray>>
  PROVE  SlotInv'
<1>1. Holding' = Holding
  BY DEF Holding, Working
<1>2. \A q \in stray : q \in Requests \ {r} /\ job'[q].pc = "closed"
  BY DEF TypeOK, SlotInv, Working
<1>. QED
  BY <1>1, <1>2 DEF SlotInv

\* Clean-up gives the slot back.
LEMMA SlotGivenBack ==
  ASSUME TypeOK, SlotInv, NEW r \in Requests, job[r].pc \in Working, CleanUp(r)
  PROVE  /\ SlotInv' /\ gate' \in 0 .. 1 /\ dirs' \subseteq Requests /\ stray' \subseteq dirs'
<1>1. Cleaned(r)
  BY CleanUpEffect DEF TypeOK
<1>2. Holding = {r}
  BY DEF SlotInv, Holding, CleanUp, Working
<1>3. Holding' = {}
  BY <1>1, <1>2 DEF Cleaned, Holding
<1>4. r \notin stray
  BY DEF SlotInv, Working
<1>5. dirs' = stray' /\ gate' = 0 /\ stray' \subseteq stray \cup {r}
  BY <1>2, <1>4 DEF CleanUp, SlotInv
<1>6. \A q \in stray' : job'[q].pc = "closed"
  BY <1>1, <1>5 DEF Cleaned, SlotInv, TypeOK
<1>. QED
  BY <1>3, <1>5, <1>6 DEF SlotInv, TypeOK, CleanUp

\* The server's work for one request keeps the invariant.
LEMMA AdmitKeeps ==
  ASSUME BackupInv, NEW r \in Requests, Admit(r)
  PROVE  BackupInv'
<1>0. /\ TypeOK /\ SlotInv /\ JobInv(r) /\ job[r].pc = "requested"
      /\ UNCHANGED <<version, generated, inUse, stray, command>>
  BY DEF BackupInv, JobsInv, Admit
<1>1. CASE gate = 0 /\ gate' = 1 /\ dirs' = dirs \cup {r} /\ Goto(r, "admitted")
  <2>1. /\ job' \in [Requests -> Job]
        /\ \A q \in Requests \ {r} : job'[q] = job[q]
        /\ job'[r].pc = "admitted" /\ job'[r].pinned = job[r].pinned
        /\ job'[r].file = job[r].file
    BY <1>0, <1>1, GotoEffect DEF TypeOK, Working
  <2>2. Holding = {} /\ Holding' = {r}
    BY <1>0, <1>1, <2>1 DEF SlotInv, Holding
  <2>3. r \notin stray
    BY <1>0 DEF SlotInv
  <2>4. SlotInv'
    BY <1>0, <1>1, <2>1, <2>2, <2>3 DEF SlotInv, TypeOK
  <2>5. JobInv(r)' /\ RecordInv(r)'
    BY <1>0, <2>1 DEF JobInv, RecordInv, Working
  <2>6. dirs' \subseteq Requests /\ stray' \subseteq dirs'
    BY <1>0, <1>1 DEF TypeOK
  <2>. QED
    BY <1>0, <1>1, <2>1, <2>4, <2>5, <2>6, JobMoves
<1>2. CASE UNCHANGED <<gate, dirs>> /\ Goto(r, "closed")
  <2>1. /\ job' \in [Requests -> Job]
        /\ \A q \in Requests \ {r} : job'[q] = job[q]
        /\ job'[r].pc = "closed" /\ job'[r].pinned = job[r].pinned
        /\ job'[r].file = job[r].file
    BY <1>0, <1>2, GotoEffect DEF TypeOK
  <2>2. Holding' = Holding
    BY <1>0, <2>1 DEF Holding
  <2>3. SlotInv'
    BY <1>0, <1>2, <2>1, <2>2 DEF SlotInv, TypeOK
  <2>4. JobInv(r)' /\ RecordInv(r)'
    BY <1>0, <2>1 DEF JobInv, RecordInv, Working
  <2>. QED
    BY <1>0, <1>2, <2>1, <2>3, <2>4, JobMoves DEF TypeOK
<1>. QED
  BY <1>1, <1>2 DEF Admit

\* A step of the work between the slot and the download, which keeps both.
LEMMA WorkMoves ==
  ASSUME BackupInv, NEW r \in Requests, job[r].pc \in Working, job'[r].pc \in Working,
         job' \in [Requests -> Job], \A q \in Requests \ {r} : job'[q] = job[q],
         JobInv(r)', RecordInv(r)',
         UNCHANGED <<version, inUse, gate, dirs, stray, command>>,
         generated' = generated \/ generated' = version
  PROVE  BackupInv'
<1>1. TypeOK /\ SlotInv
  BY DEF BackupInv
<1>2. SlotInv' /\ gate' \in 0 .. 1 /\ dirs' \subseteq Requests /\ stray' \subseteq dirs'
  BY <1>1, SlotFrame DEF TypeOK
<1>3. job'[r].pc # "idle"
  BY DEF Working
<1>. QED
  BY <1>2, <1>3, JobMoves

\* Pinning, reading the clock.
LEMMA PinKeeps ==
  ASSUME BackupInv, NEW r \in Requests, Pin(r) \/ ReadClock(r)
  PROVE  BackupInv'
<1>0. /\ TypeOK /\ JobInv(r) /\ ClientInv(r)
      /\ UNCHANGED <<version, generated, inUse, gate, dirs, stray, client, temps, output>>
      /\ version \in Nat /\ client[r].since <= version
  BY DEF BackupInv, JobsInv, ClientsInv, ClientInv, Pin, ReadClock, command, TypeOK, Versions
<1>1. CASE Pin(r)
  <2>1. /\ job' \in [Requests -> Job] /\ job[r].pc = "admitted"
        /\ \A q \in Requests \ {r} : job'[q] = job[q]
        /\ job'[r].pc = "pinned" /\ job'[r].pinned = version
        /\ job'[r].file.pages = job[r].file.pages
    BY <1>0, <1>1, PinEffect DEF Pin
  <2>2. JobInv(r)' /\ RecordInv(r)'
    BY <1>0, <2>1 DEF JobInv, RecordInv, Working
  <2>. QED
    BY <1>0, <2>1, <2>2, WorkMoves DEF Working, command
<1>2. CASE ReadClock(r)
  <2>1. /\ job' \in [Requests -> Job] /\ job[r].pc = "pinned"
        /\ \A q \in Requests \ {r} : job'[q] = job[q]
        /\ job'[r].pc = "copying" /\ job'[r].pinned = job[r].pinned
        /\ job'[r].clock = version /\ job'[r].file = job[r].file
    BY <1>0, <1>2, ReadClockEffect DEF ReadClock
  <2>2. job[r].file.pages = << >> /\ Len(job[r].file.pages) = 0
    BY <1>0, <2>1 DEF JobInv
  <2>3. JobInv(r)' /\ RecordInv(r)'
    BY <1>0, <2>1, <2>2 DEF JobInv, RecordInv, Working
  <2>. QED
    BY <1>0, <2>1, <2>3, WorkMoves DEF Working, command
<1>. QED
  BY <1>1, <1>2

\* A batch of pages, or the end of the copy.
LEMMA CopyKeeps ==
  ASSUME BackupInv, NEW r \in Requests, CopyStep(r)
  PROVE  BackupInv'
<1>. DEFINE pages == job[r].file.pages
<1>0. /\ TypeOK /\ JobInv(r) /\ job[r].pc = "copying"
      /\ UNCHANGED <<version, generated, inUse, gate, dirs, stray, client, temps, output>>
      /\ job[r] \in Job /\ pages \in Seq(Page) /\ Len(pages) \in Nat
      /\ job[r].pinned \in Versions
  <2>1. /\ TypeOK /\ JobInv(r) /\ job[r].pc = "copying"
        /\ UNCHANGED <<version, generated, inUse, gate, dirs, stray, client, temps, output>>
    BY DEF BackupInv, JobsInv, CopyStep, command
  <2>2. job[r] \in Job /\ pages \in Seq(Page)
    BY <2>1, JobFields, FileFields DEF TypeOK
  <2>3. job[r].pinned \in Versions
    BY <2>1, <2>2, JobFields DEF JobInv, Working
  <2>. QED
    BY <2>1, <2>2, <2>3
<1>1. CASE Len(pages) < PageCount /\ \E page \in {Shown(r), Bad} :
             job' = [job EXCEPT ![r].file.pages = Append(@, page)]
  <2>1. PICK page \in {job[r].pinned, Bad} : job' = [job EXCEPT ![r].file.pages = Append(@, page)]
    BY <1>1 DEF Shown
  <2>2. /\ job' \in [Requests -> Job]
        /\ \A q \in Requests \ {r} : job'[q] = job[q]
        /\ job'[r].pc = "copying" /\ job'[r].pinned = job[r].pinned
        /\ job'[r].clock = job[r].clock
        /\ job'[r].file.pages = Append(pages, page)
    BY <1>0, <2>1, CopyEffect
  <2>3. /\ Len(Append(pages, page)) = Len(pages) + 1
        /\ \A i \in 1 .. Len(pages) + 1 :
             Append(pages, page)[i] = IF i = Len(pages) + 1 THEN page ELSE pages[i]
    BY <1>0, AppendProperties DEF Page
  <2>4. \A i \in 1 .. Len(pages) + 1 : Append(pages, page)[i] \in {job[r].pinned, Bad}
    <3>1. \A i \in 1 .. Len(pages) : pages[i] \in {job[r].pinned, Bad}
      BY <1>0 DEF JobInv, Working
    <3>2. ASSUME NEW i \in 1 .. Len(pages) + 1 PROVE i = Len(pages) + 1 \/ i \in 1 .. Len(pages)
      BY <1>0
    <3>. HIDE DEF pages
    <3>. QED
      BY <2>3, <3>1, <3>2
  <2>. HIDE DEF pages
  <2>5. JobInv(r)' /\ RecordInv(r)'
    <3>1. job'[r].file.pages = Append(pages, page) /\ Len(job'[r].file.pages) <= PageCount
      BY <1>0, <1>1, <2>2, <2>3
    <3>2. \A i \in 1 .. Len(job'[r].file.pages) : job'[r].file.pages[i] \in {job'[r].pinned, Bad}
      BY <2>2, <2>3, <2>4
    <3>. QED
      BY <1>0, <2>2, <3>1, <3>2 DEF JobInv, RecordInv, Working
  <2>. QED
    BY <1>0, <2>2, <2>5, WorkMoves DEF Working, command
<1>2. CASE Len(pages) = PageCount /\ Goto(r, "copied")
  <2>1. /\ job' \in [Requests -> Job]
        /\ \A q \in Requests \ {r} : job'[q] = job[q]
        /\ job'[r].pc = "copied" /\ job'[r].pinned = job[r].pinned
        /\ job'[r].clock = job[r].clock /\ job'[r].file = job[r].file
    BY <1>0, <1>2, GotoEffect DEF TypeOK, Working
  <2>2. JobInv(r)' /\ RecordInv(r)'
    BY <1>0, <1>2, <2>1 DEF JobInv, RecordInv, Working
  <2>. QED
    BY <1>0, <2>1, <2>2, WorkMoves DEF Working, command
<1>. QED
  BY <1>1, <1>2 DEF CopyStep

\* The copy is stamped, checked, and the backup recorded.
LEMMA FinishKeeps ==
  ASSUME BackupInv, NEW r \in Requests, StampSnapshot(r) \/ CheckBackup(r) \/ Record(r)
  PROVE  BackupInv'
<1>0. /\ TypeOK /\ JobInv(r) /\ job[r].pc \in {"copied", "stamped", "checked"}
      /\ UNCHANGED <<version, inUse, gate, dirs, stray, client, temps, output>>
      /\ version \in Nat
  BY DEF BackupInv, JobsInv, StampSnapshot, CheckBackup, Record, command, TypeOK, Versions
<1>1. CASE StampSnapshot(r)
  <2>1. /\ job' \in [Requests -> Job] /\ job[r].pc = "copied" /\ UNCHANGED generated
        /\ \A q \in Requests \ {r} : job'[q] = job[q]
        /\ job'[r].pc = "stamped" /\ job'[r].pinned = job[r].pinned
        /\ job'[r].clock = job[r].clock
        /\ job'[r].file.pages = job[r].file.pages
        /\ job'[r].file.stamp = job[r].clock /\ job'[r].file.generated = None
    BY <1>0, <1>1, StampEffect DEF StampSnapshot
  <2>2. JobInv(r)' /\ RecordInv(r)'
    BY <1>0, <2>1 DEF JobInv, RecordInv, Working
  <2>. QED
    BY <1>0, <2>1, <2>2, WorkMoves DEF Working, command
<1>2. CASE CheckBackup(r)
  <2>1. /\ job' \in [Requests -> Job] /\ job[r].pc = "stamped" /\ UNCHANGED generated
        /\ \A q \in Requests \ {r} : job'[q] = job[q]
        /\ job'[r].pc = "checked" /\ job'[r].pinned = job[r].pinned
        /\ job'[r].clock = job[r].clock /\ job'[r].file = job[r].file
    BY <1>0, <1>2, GotoEffect DEF TypeOK, Working, CheckBackup
  <2>2. \A i \in 1 .. PageCount : job[r].file.pages[i] # Bad
    BY <1>2 DEF CheckBackup
  <2>3. JobInv(r)' /\ RecordInv(r)'
    BY <1>0, <2>1, <2>2 DEF JobInv, RecordInv, Working
  <2>. QED
    BY <1>0, <2>1, <2>3, WorkMoves DEF Working, command
<1>3. CASE Record(r)
  <2>1. /\ job' \in [Requests -> Job] /\ job[r].pc = "checked" /\ generated' = version
        /\ \A q \in Requests \ {r} : job'[q] = job[q]
        /\ job'[r].pc = "open" /\ job'[r].pinned = job[r].pinned
        /\ job'[r].clock = job[r].clock /\ job'[r].file = job[r].file
    BY <1>0, <1>3, GotoEffect DEF TypeOK, Working, Record
  <2>2. JobInv(r)' /\ RecordInv(r)'
    BY <1>0, <2>1 DEF JobInv, RecordInv, Working
  <2>. QED
    BY <1>0, <2>1, <2>2, WorkMoves DEF Working, command
<1>. QED
  BY <1>1, <1>2, <1>3

\* A failing step cleans up.
LEMMA FailKeeps ==
  ASSUME BackupInv, NEW r \in Requests, Fail(r)
  PROVE  BackupInv'
<1>0. /\ TypeOK /\ SlotInv /\ job[r].pc \in Working /\ CleanUp(r)
      /\ UNCHANGED <<version, generated, inUse, command>>
  BY DEF BackupInv, Fail, Working
<1>1. Cleaned(r)
  BY <1>0, CleanUpEffect DEF TypeOK
<1>2. SlotInv' /\ gate' \in 0 .. 1 /\ dirs' \subseteq Requests /\ stray' \subseteq dirs'
  BY <1>0, SlotGivenBack
<1>3. JobInv(r)' /\ RecordInv(r)'
  BY <1>1, NothingTyped DEF Cleaned, JobInv, RecordInv, Working
<1>. QED
  BY <1>0, <1>1, <1>2, <1>3, JobMoves DEF Cleaned

\* The server's work keeps the invariant.
LEMMA WorkKeeps ==
  ASSUME BackupInv, NEW r \in Requests, Work(r)
  PROVE  BackupInv'
BY AdmitKeeps, PinKeeps, CopyKeeps, FinishKeeps, FailKeeps DEF Work

\* A step of one command that ends or moves it, where the server stays as it is,
\* keeps the invariants if it keeps those of this command and of the output.
LEMMA ClientMovesOn ==
  ASSUME BackupInv, NEW r \in Requests,
         client' \in [Requests -> Client], \A q \in Requests \ {r} : client'[q] = client[q],
         client'[r].since = client[r].since, ClientInv(r)',
         UNCHANGED <<version, generated, inUse, gate, dirs, stray, job>>,
         temps' \subseteq Requests, output' \in {None, Foreign} \cup Copy, SavedIsWhole'
  PROVE  BackupInv'
<1>1. TypeOK' /\ version \in Nat
  BY DEF BackupInv, TypeOK, Versions
<1>2. SlotInv'
  BY DEF BackupInv, SlotInv, Holding
<1>3. JobsInv'
  BY <1>1, JobFrame DEF BackupInv, JobsInv
<1>4. ClientsInv'
  BY <1>1, ClientFrame DEF BackupInv, ClientsInv
<1>. QED
  BY <1>1, <1>2, <1>3, <1>4 DEF BackupInv

\* An unsaved command that ends keeps what is said of the output.
LEMMA OutputFrame ==
  ASSUME TypeOK, SavedIsWhole, NEW r \in Requests, ~client[r].saved, ~client'[r].saved,
         \A q \in Requests \ {r} : client'[q] = client[q], UNCHANGED output
  PROVE  SavedIsWhole'
<1>1. output \notin {None, Foreign} => output.by \in Requests \ {r}
  BY DEF TypeOK, SavedIsWhole, Copy
<1>. QED
  BY <1>1 DEF SavedIsWhole, OneState, Whole

\* What is known of a command under way.
LEMMA Underway ==
  ASSUME BackupInv, NEW r \in Requests, client[r].pc # "ended"
  PROVE  /\ TypeOK /\ ClientInv(r) /\ ~client[r].saved /\ version \in Nat
         /\ client \in [Requests -> Client] /\ client[r] \in Client
BY DEF BackupInv, ClientsInv, ClientInv, TypeOK, Versions

\* A command that ends without having saved anything.
LEMMA EndsEmptyHanded ==
  ASSUME BackupInv, NEW r \in Requests, Ended(r, FALSE), ~client[r].saved,
         UNCHANGED <<version, generated, inUse, gate, dirs, stray, job, output>>,
         temps' \subseteq Requests
  PROVE  BackupInv'
<1>1. TypeOK /\ SavedIsWhole /\ ClientInv(r)
  BY DEF BackupInv, ClientsInv
<1>2. SavedIsWhole'
  BY <1>1, OutputFrame DEF Ended
<1>3. ClientInv(r)'
  BY <1>1 DEF Ended, ClientInv
<1>. QED
  BY <1>1, <1>2, <1>3, ClientMovesOn DEF Ended, TypeOK

\* The command's own steps, publication aside.
LEMMA CommandKeeps ==
  ASSUME BackupInv, NEW r \in Requests, Sync(r) \/ GiveUp(r) \/ Kill(r)
  PROVE  BackupInv'
<1>1. /\ client[r].pc \in {"waiting", "received", "synced"}
      /\ UNCHANGED <<version, generated, inUse, gate, dirs, stray, job, output>>
      /\ temps' \subseteq temps
  BY DEF Sync, GiveUp, Kill, End, server
<1>2. /\ TypeOK /\ ClientInv(r) /\ ~client[r].saved /\ version \in Nat /\ SavedIsWhole
      /\ client \in [Requests -> Client] /\ client[r] \in Client /\ temps' \subseteq Requests
  BY <1>1, Underway DEF BackupInv, TypeOK
<1>3. CASE Sync(r)
  <2>1. client[r].pc = "received" /\ client' = [client EXCEPT ![r].pc = "synced"]
    BY <1>3 DEF Sync
  <2>2. /\ client' \in [Requests -> Client]
        /\ \A q \in Requests \ {r} : client'[q] = client[q]
        /\ client'[r].pc = "synced" /\ client'[r].since = client[r].since
        /\ client'[r].got = client[r].got /\ client'[r].saved = client[r].saved
    BY <1>2, <2>1, ClientMoves
  <2>3. ClientInv(r)'
    BY <1>1, <1>2, <2>1, <2>2 DEF ClientInv, Received, OneState, Whole
  <2>4. SavedIsWhole'
    BY <1>1, <1>2, <2>2, OutputFrame
  <2>. QED
    BY <1>1, <1>2, <2>2, <2>3, <2>4, ClientMovesOn DEF TypeOK
<1>4. CASE GiveUp(r)
  <2>1. Ended(r, FALSE)
    BY <1>2, <1>4, EndEffect DEF GiveUp
  <2>. QED
    BY <1>1, <1>2, <2>1, EndsEmptyHanded
<1>5. CASE Kill(r)
  <2>1. client[r].saved = FALSE
    BY <1>2, ClientFields
  <2>2. Ended(r, FALSE)
    BY <1>2, <1>5, <2>1, KillEffect
  <2>. QED
    BY <1>1, <1>2, <2>2, EndsEmptyHanded
<1>. QED
  BY <1>3, <1>4, <1>5

\* Publication: nobody has saved anything if the name is free.
LEMMA PublishKeeps ==
  ASSUME BackupInv, NEW r \in Requests, Publish(r)
  PROVE  BackupInv'
<1>1. /\ client[r].pc = "synced"
      /\ UNCHANGED <<version, generated, inUse, gate, dirs, stray, job>>
  BY DEF Publish, Ready, server
<1>2. /\ TypeOK /\ ClientInv(r) /\ ~client[r].saved /\ version \in Nat /\ SavedIsWhole
      /\ client \in [Requests -> Client] /\ client[r] \in Client
  BY <1>1, Underway DEF BackupInv
<1>3. CASE output = None
  <2>1. /\ output' = [by |-> r, file |-> client[r].got, durable |-> client[r].pc = "synced"]
        /\ End(r, TRUE)
    BY <1>3 DEF Publish, LinkAllowed
  <2>2. Ended(r, TRUE) /\ temps' \subseteq Requests
    BY <1>2, <2>1, EndEffect DEF End, TypeOK
  <2>3. /\ output' \in Copy /\ output'.by = r /\ output'.file = client[r].got
        /\ output'.durable = TRUE
    BY <1>1, <1>2, <2>1, ClientFields DEF Copy
  <2>4. output' \notin {None, Foreign}
    BY <2>3
  <2>5. \A q \in Requests \ {r} : ~client'[q].saved
    BY <1>2, <1>3, <2>2 DEF SavedIsWhole, Ended
  <2>6. OneState(output'.file)
    BY <1>1, <1>2, <2>3 DEF ClientInv, Received
  <2>7. SavedIsWhole'
    BY <2>2, <2>3, <2>4, <2>5, <2>6 DEF SavedIsWhole, Ended, OneState, Whole
  <2>8. ClientInv(r)'
    BY <1>1, <1>2, <2>2 DEF Ended, ClientInv
  <2>. QED
    BY <1>1, <1>2, <2>2, <2>3, <2>7, <2>8, ClientMovesOn DEF Ended
<1>4. CASE output # None
  <2>1. UNCHANGED output /\ End(r, FALSE)
    BY <1>4 DEF Publish, LinkAllowed
  <2>2. Ended(r, FALSE) /\ temps' \subseteq Requests
    BY <1>2, <2>1, EndEffect DEF End, TypeOK
  <2>. QED
    BY <1>1, <1>2, <2>1, <2>2, EndsEmptyHanded
<1>. QED
  BY <1>3, <1>4

\* A step of a command and its job together.
LEMMA BothMove ==
  ASSUME BackupInv, NEW r \in Requests,
         job' \in [Requests -> Job], \A q \in Requests \ {r} : job'[q] = job[q],
         client' \in [Requests -> Client], \A q \in Requests \ {r} : client'[q] = client[q],
         JobInv(r)', RecordInv(r)', ClientInv(r)', SlotInv', ~client[r].saved, ~client'[r].saved,
         UNCHANGED <<version, generated, inUse, output>>,
         gate' \in 0 .. 1, dirs' \subseteq Requests, stray' \subseteq dirs', temps' \subseteq Requests
  PROVE  BackupInv'
<1>1. TypeOK /\ TypeOK' /\ version \in Nat
  BY DEF BackupInv, TypeOK, Versions
<1>2. JobsInv'
  <2>1. ASSUME NEW q \in Requests \ {r} PROVE JobInv(q)' /\ RecordInv(q)'
    BY <1>1, JobFrame DEF BackupInv, JobsInv
  <2>. QED
    BY <2>1 DEF JobsInv
<1>3. ClientsInv'
  <2>1. ASSUME NEW q \in Requests \ {r} PROVE ClientInv(q)'
    BY <1>1, ClientFrame DEF BackupInv, ClientsInv
  <2>. QED
    BY <2>1 DEF ClientsInv
<1>4. SavedIsWhole'
  BY <1>1, OutputFrame DEF BackupInv
<1>. QED
  BY <1>1, <1>2, <1>3, <1>4 DEF BackupInv

\* A command begins, unless the name is taken.
LEMMA StartKeeps ==
  ASSUME BackupInv, NEW r \in Requests, Start(r)
  PROVE  BackupInv'
<1>1. /\ client[r].pc = "idle"
      /\ UNCHANGED <<version, generated, inUse, gate, dirs, stray, output>>
  BY DEF Start
<1>2. /\ TypeOK /\ SlotInv /\ ClientInv(r) /\ JobInv(r) /\ ~client[r].saved /\ version \in Nat
      /\ client \in [Requests -> Client] /\ client[r] \in Client
      /\ job \in [Requests -> Job] /\ job[r].pc = "idle" /\ SavedIsWhole
  BY <1>1, Underway DEF BackupInv, JobsInv, ClientInv, TypeOK
<1>3. CASE output = None
  <2>1. /\ client' = [client EXCEPT ![r].pc = "waiting", ![r].since = version]
        /\ temps' = temps \cup {r} /\ Goto(r, "requested")
    BY <1>3 DEF Start
  <2>2. /\ job' \in [Requests -> Job]
        /\ \A q \in Requests \ {r} : job'[q] = job[q]
        /\ job'[r].pc = "requested" /\ job'[r].pinned = job[r].pinned
        /\ job'[r].clock = job[r].clock /\ job'[r].file = job[r].file
    BY <1>2, <2>1, GotoEffect
  <2>3. /\ client' \in [Requests -> Client]
        /\ \A q \in Requests \ {r} : client'[q] = client[q]
        /\ client'[r].pc = "waiting" /\ client'[r].since = version
        /\ client'[r].got = client[r].got /\ client'[r].saved = client[r].saved
    BY <1>2, <2>1, StartEffect
  <2>4. SlotInv'
    <3>1. Holding' = Holding
      BY <1>2, <2>2 DEF Holding
    <3>2. \A q \in stray : q \in Requests \ {r}
      BY <1>2 DEF SlotInv, TypeOK
    <3>. QED
      BY <1>1, <1>2, <2>2, <3>1, <3>2 DEF SlotInv
  <2>5. JobInv(r)' /\ RecordInv(r)'
    BY <1>2, <2>2 DEF JobInv, RecordInv, Working
  <2>6. ClientInv(r)'
    BY <1>1, <1>2, <2>2, <2>3 DEF ClientInv
  <2>. QED
    BY <1>1, <1>2, <2>1, <2>2, <2>3, <2>4, <2>5, <2>6, BothMove DEF TypeOK
<1>4. CASE output # None
  <2>1. client' = [client EXCEPT ![r].pc = "ended"] /\ UNCHANGED <<temps, job>>
    BY <1>4 DEF Start
  <2>2. /\ client' \in [Requests -> Client]
        /\ \A q \in Requests \ {r} : client'[q] = client[q]
        /\ client'[r].pc = "ended" /\ client'[r].since = client[r].since
        /\ client'[r].got = client[r].got /\ client'[r].saved = client[r].saved
    BY <1>2, <2>1, ClientMoves
  <2>3. ClientInv(r)'
    BY <1>1, <1>2, <2>2 DEF ClientInv
  <2>4. SavedIsWhole'
    BY <1>1, <1>2, <2>2, OutputFrame
  <2>. QED
    BY <1>1, <1>2, <2>1, <2>2, <2>3, <2>4, ClientMovesOn DEF TypeOK
<1>. QED
  BY <1>3, <1>4

\* The first pages of an open backup.
LEMMA Prefix ==
  ASSUME BackupInv, NEW r \in Requests, job[r].pc = "open", NEW n \in 0 .. PageCount
  PROVE  LET got == [job[r].file EXCEPT !.pages = SubSeq(job[r].file.pages, 1, n)]
         IN /\ got \in File /\ (Whole(got) => n = PageCount)
            /\ n = PageCount => /\ Received(got, client[r].since)
                                /\ got.pages[1] = job[r].pinned
<1>. DEFINE pages == job[r].file.pages
            got == [job[r].file EXCEPT !.pages = SubSeq(pages, 1, n)]
<1>1. /\ TypeOK /\ JobInv(r) /\ RecordInv(r) /\ job[r].file \in File /\ pages \in Seq(Page)
      /\ Len(pages) = PageCount
  BY JobFields, FileFields DEF BackupInv, JobsInv, TypeOK, JobInv
<1>2. /\ SubSeq(pages, 1, n) \in Seq(Page) /\ Len(SubSeq(pages, 1, n)) = n
      /\ \A i \in 1 .. n : SubSeq(pages, 1, n)[i] = pages[i]
  BY <1>1
<1>3. /\ got \in File /\ got.pages = SubSeq(pages, 1, n)
      /\ got.stamp = job[r].file.stamp /\ got.generated = job[r].file.generated
  BY <1>1, <1>2 DEF File
<1>4. \A i \in 1 .. PageCount : pages[i] = job[r].pinned
  BY <1>1 DEF JobInv, Working
<1>5. /\ job[r].pinned \in Nat /\ client[r].since <= job[r].pinned
      /\ job[r].pinned <= job[r].file.stamp /\ job[r].file.generated = None
  BY <1>1 DEF JobInv, Working
<1>. HIDE DEF got, pages
<1>6. Whole(got) => n = PageCount
  BY <1>2, <1>3 DEF Whole
<1>7. n = PageCount => Received(got, client[r].since) /\ got.pages[1] = job[r].pinned
  <2>. SUFFICES ASSUME n = PageCount
                PROVE  Received(got, client[r].since) /\ got.pages[1] = job[r].pinned
    OBVIOUS
  <2>1. \A i \in 1 .. PageCount : got.pages[i] = job[r].pinned
    BY <1>2, <1>3, <1>4
  <2>2. got.pages[1] = job[r].pinned
    BY <2>1
  <2>3. OneState(got)
    BY <1>2, <1>3, <2>1 DEF OneState, Whole
  <2>. QED
    BY <1>3, <1>5, <2>2, <2>3 DEF Received
<1>. QED
  BY <1>3, <1>6, <1>7 DEF got, pages

\* The end of a download, as commands see it: the command has received the file
\* in full, has ended, or was gone before.
LEMMA StreamEffect ==
  ASSUME BackupInv, NEW r \in Requests, StreamEnds(r)
  PROVE  /\ Cleaned(r) /\ CleanUp(r) /\ job[r].pc = "open"
         /\ UNCHANGED <<version, generated, inUse, output>> /\ temps' \subseteq Requests
         /\ \/ UNCHANGED client /\ client[r].pc = "ended"
            \/ client[r].pc = "waiting" /\ Ended(r, FALSE)
            \/ /\ client[r].pc = "waiting" /\ client'[r].pc = "received"
               /\ client' \in [Requests -> Client]
               /\ \A q \in Requests \ {r} : client'[q] = client[q]
               /\ client'[r].since = client[r].since /\ client'[r].saved = client[r].saved
               /\ Received(client'[r].got, client[r].since)
               /\ client'[r].got.pages[1] = job[r].pinned
               /\ Whole(client'[r].got)
<1>1. /\ job[r].pc = "open" /\ CleanUp(r) /\ UNCHANGED <<version, generated, inUse, output>>
      /\ TypeOK /\ client \in [Requests -> Client]
  BY DEF StreamEnds, BackupInv, TypeOK
<1>2. Cleaned(r)
  BY <1>1, CleanUpEffect DEF TypeOK
<1>3. client[r].pc \in {"waiting", "ended"}
  BY <1>1, ClientOfJob DEF BackupInv, ClientsInv, Working
<1>4. PICK n \in 0 .. PageCount :
        LET got == [job[r].file EXCEPT !.pages = SubSeq(job[r].file.pages, 1, n)]
        IN IF client[r].pc # "waiting" THEN UNCHANGED <<client, temps>>
           ELSE IF Whole(got)
           THEN /\ client' = [client EXCEPT ![r].pc = "received", ![r].got = got]
                /\ UNCHANGED temps
           ELSE End(r, FALSE)
  BY DEF StreamEnds
<1>. DEFINE got == [job[r].file EXCEPT !.pages = SubSeq(job[r].file.pages, 1, n)]
<1>5. /\ got \in File
      /\ Whole(got) => Received(got, client[r].since) /\ got.pages[1] = job[r].pinned
  BY <1>1, Prefix
<1>6. CASE client[r].pc # "waiting"
  BY <1>1, <1>2, <1>3, <1>4, <1>6 DEF TypeOK
<1>7. CASE client[r].pc = "waiting" /\ Whole(got)
  <2>1. client' = [client EXCEPT ![r].pc = "received", ![r].got = got] /\ UNCHANGED temps
    BY <1>4, <1>7
  <2>. HIDE DEF got
  <2>2. /\ client' \in [Requests -> Client]
        /\ \A q \in Requests \ {r} : client'[q] = client[q]
        /\ client'[r].pc = "received" /\ client'[r].since = client[r].since
        /\ client'[r].got = got /\ client'[r].saved = client[r].saved
    BY <1>1, <1>5, <2>1, ReceiveEffect
  <2>. QED
    BY <1>1, <1>2, <1>5, <1>7, <2>1, <2>2 DEF TypeOK
<1>8. CASE client[r].pc = "waiting" /\ ~Whole(got)
  <2>1. End(r, FALSE)
    BY <1>4, <1>8
  <2>2. Ended(r, FALSE) /\ temps' \subseteq Requests
    BY <1>1, <2>1, EndEffect DEF End, TypeOK
  <2>. QED
    BY <1>1, <1>2, <1>8, <2>2
<1>. QED
  BY <1>6, <1>7, <1>8

\* The end of a download keeps the invariant.
LEMMA StreamKeeps ==
  ASSUME BackupInv, NEW r \in Requests, StreamEnds(r)
  PROVE  BackupInv'
<1>1. /\ Cleaned(r) /\ CleanUp(r) /\ job[r].pc = "open"
      /\ UNCHANGED <<version, generated, inUse, output>> /\ temps' \subseteq Requests
  BY StreamEffect
<1>2. /\ TypeOK /\ SlotInv /\ ClientInv(r) /\ version \in Nat /\ client \in [Requests -> Client]
  BY DEF BackupInv, ClientsInv, TypeOK, Versions
<1>3. SlotInv' /\ gate' \in 0 .. 1 /\ dirs' \subseteq Requests /\ stray' \subseteq dirs'
  BY <1>1, <1>2, SlotGivenBack DEF Working
<1>4. JobInv(r)' /\ RecordInv(r)'
  BY <1>1, NothingTyped DEF Cleaned, JobInv, RecordInv, Working
<1>5. CASE UNCHANGED client /\ client[r].pc = "ended"
  <2>1. JobsInv'
    <3>1. ASSUME NEW q \in Requests \ {r} PROVE JobInv(q)' /\ RecordInv(q)'
      BY <1>1, <1>2, <1>5, JobFrame DEF BackupInv, JobsInv, Cleaned
    <3>. QED
      BY <1>4, <3>1 DEF JobsInv
  <2>2. ClientsInv'
    <3>1. ASSUME NEW q \in Requests \ {r} PROVE ClientInv(q)'
      BY <1>1, <1>2, <1>5, ClientFrame DEF BackupInv, ClientsInv, Cleaned
    <3>2. ClientInv(r)'
      BY <1>1, <1>2, <1>5 DEF ClientInv
    <3>. QED
      BY <3>1, <3>2 DEF ClientsInv
  <2>3. SavedIsWhole'
    BY <1>1, <1>5 DEF BackupInv, SavedIsWhole, OneState, Whole
  <2>. QED
    BY <1>1, <1>2, <1>3, <1>5, <2>1, <2>2, <2>3 DEF BackupInv, TypeOK, Cleaned
<1>6. CASE client[r].pc = "waiting" /\ Ended(r, FALSE)
  <2>1. ClientInv(r)' /\ ~client[r].saved
    BY <1>1, <1>2, <1>6 DEF Ended, ClientInv
  <2>. QED
    BY <1>1, <1>3, <1>4, <1>6, <2>1, BothMove DEF Ended, Cleaned
<1>7. CASE /\ client[r].pc = "waiting" /\ client'[r].pc = "received"
           /\ client' \in [Requests -> Client]
           /\ \A q \in Requests \ {r} : client'[q] = client[q]
           /\ client'[r].since = client[r].since /\ client'[r].saved = client[r].saved
           /\ Received(client'[r].got, client[r].since)
  <2>1. ClientInv(r)' /\ ~client[r].saved
    BY <1>1, <1>2, <1>7 DEF ClientInv, Cleaned, Received, OneState, Whole
  <2>. QED
    BY <1>1, <1>3, <1>4, <1>7, <2>1, BothMove DEF Cleaned
<1>. QED
  BY <1>5, <1>6, <1>7, StreamEffect

\* At most one request holds the slot, so at most one connection is pinned.
LEMMA SlotCounts ==
  ASSUME TypeOK, SlotInv
  PROVE  /\ gate = Cardinality(Holding)
         /\ Cardinality(Pinning) \in 0 .. 1
<1>1. Pinning \subseteq Holding
  BY DEF Pinning, Holding
<1>2. CASE gate = 0
  <2>1. Holding = {} /\ Pinning = {}
    BY <1>1, <1>2 DEF SlotInv
  <2>. QED
    BY <1>2, <2>1, FS_EmptySet
<1>3. CASE gate = 1
  <2>1. PICK r \in Requests : Holding = {r}
    BY <1>3 DEF SlotInv
  <2>2. Pinning = {} \/ Pinning = {r}
    BY <1>1, <2>1
  <2>3. Cardinality({r}) = 1
    BY FS_Singleton
  <2>4. Cardinality(Pinning) \in 0 .. 1
    <3>1. CASE Pinning = {}
      BY <3>1, FS_EmptySet
    <3>2. CASE Pinning = {r}
      BY <2>3, <3>2
    <3>. QED
      BY <2>2, <3>1, <3>2
  <2>. QED
    BY <1>3, <2>1, <2>3, <2>4
<1>. QED
  BY <1>2, <1>3 DEF TypeOK

\* Other users of the database, and of the output's name.
LEMMA OthersKeep ==
  ASSUME BackupInv, Connect \/ Disconnect \/ Create \/ UNCHANGED vars
  PROVE  BackupInv'
<1>1. /\ TypeOK /\ SlotInv /\ UNCHANGED <<generated, gate, dirs, stray, job, client, temps>>
      /\ version \in Nat
  BY DEF BackupInv, Connect, Disconnect, Create, vars, server, command, TypeOK, Versions
<1>2. /\ version' \in Versions /\ version' \in Nat /\ version <= version'
      /\ inUse' \in 0 .. Connections /\ output' \in {None, Foreign} \cup Copy
  <2>1. CASE Connect
    <3>1. inUse + Cardinality(Pinning) < Connections /\ inUse' = inUse + 1
          /\ UNCHANGED <<version, output>>
      BY <2>1 DEF Connect, FreeConnection, command
    <3>2. Cardinality(Pinning) \in Nat
      BY <1>1, SlotCounts
    <3>. QED
      BY <1>1, <3>1, <3>2 DEF TypeOK
  <2>2. CASE Disconnect
    BY <1>1, <2>2 DEF Disconnect, TypeOK, Versions, command
  <2>3. CASE Create
    BY <1>1, <2>3 DEF Create, TypeOK, server
  <2>4. CASE UNCHANGED vars
    BY <1>1, <2>4 DEF vars, server, command, TypeOK
  <2>. QED
    BY <2>1, <2>2, <2>3, <2>4
<1>3. TypeOK'
  BY <1>1, <1>2 DEF TypeOK
<1>4. SlotInv'
  BY <1>1 DEF SlotInv, Holding
<1>5. JobsInv'
  BY <1>1, <1>2, JobFrame DEF BackupInv, JobsInv
<1>6. ClientsInv'
  BY <1>1, <1>2, ClientFrame DEF BackupInv, ClientsInv
<1>7. SavedIsWhole'
  <2>1. UNCHANGED output \/ (output = None /\ output' = Foreign)
    BY DEF Connect, Disconnect, Create, vars, command
  <2>. QED
    BY <1>1, <2>1 DEF BackupInv, SavedIsWhole, OneState, Whole
<1>. QED
  BY <1>3, <1>4, <1>5, <1>6, <1>7 DEF BackupInv

\* A restart ends every job.
LEMMA RestartEffect ==
  ASSUME job \in [Requests -> Job], Restart
  PROVE  /\ job' \in [Requests -> Job]
         /\ \A q \in Requests : /\ job'[q].pc = IF job[q].pc = "idle" THEN "idle" ELSE "closed"
                                /\ job'[q].pinned = None /\ job'[q].file = NoFile
<1>1. [NoJob EXCEPT !.pc = "idle"] = NoJob
  BY DEF NoJob
<1>2. NoJob \in Job /\ NoJob.pc = "idle" /\ NoJob.pinned = None /\ NoJob.file = NoFile
  BY <1>1, NothingTyped
<1>. DEFINE j == [NoJob EXCEPT !.pc = "closed"]
<1>3. j \in Job /\ j.pc = "closed" /\ j.pinned = None /\ j.file = NoFile
  BY NothingTyped
<1>4. job' = [r \in Requests |-> IF job[r].pc = "idle" THEN NoJob ELSE j]
  BY DEF Restart
<1>. HIDE DEF j
<1>. QED
  BY <1>2, <1>3, <1>4

\* A restart keeps the invariant.
LEMMA RestartKeeps ==
  ASSUME BackupInv, Restart
  PROVE  BackupInv'
<1>1. /\ TypeOK /\ SlotInv /\ JobsInv /\ ClientsInv /\ version \in Nat
      /\ gate' = 0 /\ stray' = dirs /\ inUse' = 0
      /\ UNCHANGED <<version, generated, dirs, client, temps, output>>
  BY DEF BackupInv, Restart, command, TypeOK, Versions
<1>2. /\ job' \in [Requests -> Job]
      /\ \A q \in Requests : /\ job'[q].pc = IF job[q].pc = "idle" THEN "idle" ELSE "closed"
                             /\ job'[q].pinned = None /\ job'[q].file = NoFile
  BY <1>1, RestartEffect DEF BackupInv, TypeOK
<1>3. TypeOK'
  BY <1>1, <1>2 DEF TypeOK
<1>4. SlotInv'
  <2>1. Holding' = {}
    BY <1>2 DEF Holding
  <2>2. \A q \in dirs : q \in Requests /\ job[q].pc # "idle"
    BY <1>1 DEF SlotInv, Holding, TypeOK
  <2>. QED
    BY <1>1, <1>2, <2>1, <2>2 DEF SlotInv
<1>5. JobsInv'
  BY <1>2, NothingTyped DEF JobsInv, JobInv, RecordInv, Working
<1>6. ClientsInv'
  BY <1>1, <1>2 DEF ClientsInv, ClientInv, Received, OneState, Whole
<1>7. SavedIsWhole'
  BY <1>1 DEF BackupInv, SavedIsWhole, OneState, Whole
<1>. QED
  BY <1>3, <1>4, <1>5, <1>6, <1>7 DEF BackupInv

\* The invariant holds at the beginning.
LEMMA InitBackup == Init => BackupInv
<1>. SUFFICES ASSUME Init PROVE BackupInv
  OBVIOUS
<1>1. [NoJob EXCEPT !.pc = "idle"] = NoJob
  BY DEF NoJob
<1>2. /\ NoJob \in Job /\ NoJob.pc = "idle" /\ NoJob.pinned = None /\ NoJob.file = NoFile
      /\ NoFile \in File /\ NoFile.pages = << >> /\ 0 \in Versions
  <2>1. NoJob \in Job /\ NoJob.pc = "idle" /\ NoJob.pinned = None /\ NoJob.file = NoFile
    BY <1>1, NothingTyped
  <2>2. 0 \in Versions
    BY DEF Versions
  <2>. QED
    BY <2>1, <2>2, NothingTyped
<1>. DEFINE c == [pc |-> "idle", since |-> 0, got |-> NoFile, saved |-> FALSE]
<1>3. c \in Client
  BY <1>2 DEF Client
<1>4. \A r \in Requests : job[r] = NoJob /\ client[r] = c
  BY DEF Init
<1>5. TypeOK
  <2>1. job \in [Requests -> Job] /\ client \in [Requests -> Client]
    BY <1>2, <1>3 DEF Init
  <2>. QED
    <3>1. /\ version = 0 /\ generated = None /\ inUse = 0 /\ gate = 0 /\ output = None
          /\ dirs = {} /\ stray = {} /\ temps = {}
      BY DEF Init
    <3>2. 0 \in 0 .. Connections /\ 0 \in 0 .. 1
      OBVIOUS
    <3>. QED
      BY <1>2, <2>1, <3>1, <3>2 DEF TypeOK
<1>6. SlotInv
  <2>1. Holding = {}
    BY <1>2, <1>4 DEF Holding
  <2>. QED
    BY <2>1 DEF Init, SlotInv
<1>7. JobsInv
  BY <1>2, <1>4 DEF JobsInv, JobInv, RecordInv, Working
<1>8. ClientsInv
  BY <1>2, <1>4 DEF Init, ClientsInv, ClientInv
<1>9. SavedIsWhole
  BY <1>4 DEF Init, SavedIsWhole
<1>. QED
  BY <1>5, <1>6, <1>7, <1>8, <1>9 DEF BackupInv

\* BackupInv is inductive.
LEMMA BackupInductive == BackupInv /\ [Next]_vars => BackupInv'
<1>. SUFFICES ASSUME BackupInv, [Next]_vars PROVE BackupInv'
  OBVIOUS
<1>1. CASE Connect \/ Disconnect \/ Create \/ UNCHANGED vars
  BY <1>1, OthersKeep
<1>2. CASE Restart
  BY <1>2, RestartKeeps
<1>3. ASSUME NEW r \in Requests, Work(r) \/ StreamEnds(r) \/ Run(r) PROVE BackupInv'
  BY <1>3, WorkKeeps, StreamKeeps, StartKeeps, CommandKeeps, PublishKeeps DEF Run
<1>. QED
  BY <1>1, <1>2, <1>3 DEF Next

\* The inductive invariant holds always.
THEOREM BackupAlways == Spec => []BackupInv
BY InitBackup, BackupInductive, PTL DEF Spec

\* The slot and the directories follow the work, and one connection of the pool
\* is pinned at most, for any number of commands, connections and restarts.
THEOREM SlotAlwaysMatches == Spec => []SlotMatchesWork
<1>1. BackupInv => SlotMatchesWork
  BY SlotCounts DEF BackupInv, SlotMatchesWork, SlotInv
<1>. QED
  BY <1>1, BackupAlways, PTL

\* What is saved is one instant of the database, not older than the command, not
\* later than its stamp, complete and the one its command reports.
THEOREM SavedAlwaysSnapshot == Spec => []SavedIsSnapshot
<1>1. BackupInv => SavedIsSnapshot
  <2>. SUFFICES ASSUME BackupInv PROVE SavedIsSnapshot
    OBVIOUS
  <2>1. ReceivedIsSnapshot
    BY DEF BackupInv, ClientsInv, ClientInv, Received, ReceivedIsSnapshot
  <2>2. RecordNotOlder
    BY DEF BackupInv, JobsInv, RecordInv, RecordNotOlder
  <2>. QED
    BY <2>1, <2>2 DEF BackupInv, SavedIsSnapshot
<1>. QED
  BY <1>1, BackupAlways, PTL
-----------------------------------------------------------------------------
(* Backup implements Snapshot                                              *)

\* The mapping, by where a command stands.
MappingInv ==
  \A r \in Requests :
    /\ client[r].pc \in {"idle", "ended"} => Phase[r] = client[r].pc /\ Taken[r] = None
    /\ client[r].pc = "waiting" =>
         /\ Phase[r] = IF job[r].pinned # None THEN "captured"
                       ELSE IF job[r].pc = "closed" THEN "lost" ELSE "asked"
         /\ Taken[r] = job[r].pinned
    /\ client[r].pc \in {"received", "synced"} =>
         Phase[r] = "captured" /\ Taken[r] = client[r].got.pages[1]

\* The mapping follows from its definition.
LEMMA Mapping == BackupInv => MappingInv
<1>. SUFFICES ASSUME BackupInv, NEW r \in Requests
              PROVE  /\ client[r].pc \in {"idle", "ended"} => Phase[r] = client[r].pc /\ Taken[r] = None
                     /\ client[r].pc = "waiting" =>
                          /\ Phase[r] = IF job[r].pinned # None THEN "captured"
                                        ELSE IF job[r].pc = "closed" THEN "lost" ELSE "asked"
                          /\ Taken[r] = job[r].pinned
                     /\ client[r].pc \in {"received", "synced"} =>
                          Phase[r] = "captured" /\ Taken[r] = client[r].got.pages[1]
  BY DEF MappingInv
<1>0. TypeOK /\ ClientInv(r)
  BY DEF BackupInv, ClientsInv
<1>1. CASE client[r].pc \in {"idle", "ended"}
  <2>1. Phase[r] = client[r].pc
    BY <1>1 DEF Phase
  <2>2. Taken[r] = None
    BY <1>1, <2>1 DEF Taken
  <2>. QED
    BY <1>1, <2>1, <2>2
<1>2. CASE client[r].pc = "waiting"
  <2>1. client[r].got.pages = << >>
    BY <1>0, <1>2, NothingTyped DEF ClientInv
  <2>2. Phase[r] = IF job[r].pinned # None THEN "captured"
                   ELSE IF job[r].pc = "closed" THEN "lost" ELSE "asked"
    BY <1>2, <2>1 DEF Phase
  <2>3. Taken[r] = job[r].pinned
    BY <2>1, <2>2 DEF Taken
  <2>. QED
    BY <1>2, <2>2, <2>3
<1>3. CASE client[r].pc \in {"received", "synced"}
  <2>1. Len(client[r].got.pages) = PageCount
    BY <1>0, <1>3 DEF ClientInv, Received, OneState, Whole
  <2>2. client[r].got.pages # << >>
    BY <2>1
  <2>3. Phase[r] = "captured"
    BY <1>3, <2>2 DEF Phase
  <2>4. Taken[r] = client[r].got.pages[1]
    BY <2>2, <2>3 DEF Taken
  <2>. QED
    BY <1>3, <2>3, <2>4
<1>. QED
  BY <1>0, <1>1, <1>2, <1>3, ClientFields DEF TypeOK

\* And so it does after a step.
LEMMA MappingNext == BackupInv' => MappingInv'
BY Mapping, PTL

\* Phase and Taken are functions on the commands.
LEMMA MappingTyped ==
  /\ Phase = [r \in Requests |-> Phase[r]] /\ Taken = [r \in Requests |-> Taken[r]]
  /\ Phase' = [r \in Requests |-> Phase'[r]] /\ Taken' = [r \in Requests |-> Taken'[r]]
BY DEF Phase, Taken

\* A step that no command notices.
LEMMA Stutters ==
  ASSUME \A r \in Requests : Phase'[r] = Phase[r] /\ Taken'[r] = Taken[r],
         UNCHANGED <<version, output>>
  PROVE  UNCHANGED Abstract!vars
<1>1. Phase' = Phase /\ Taken' = Taken
  BY MappingTyped
<1>. QED
  BY <1>1 DEF Abstract!vars, SavedVersion

\* A step of one command, as Snapshot sees it.
LEMMA OneMoves ==
  ASSUME NEW r \in Requests,
         \A q \in Requests \ {r} : Phase'[q] = Phase[q] /\ Taken'[q] = Taken[q]
  PROVE  /\ Phase' = [Phase EXCEPT ![r] = Phase'[r]]
         /\ Taken' = [Taken EXCEPT ![r] = Taken'[r]]
BY MappingTyped

\* A command is where it was if its pinned state is, and its job goes on.
LEMMA SamePlace ==
  ASSUME BackupInv, BackupInv', NEW q \in Requests, client'[q] = client[q],
         \/ client[q].pc # "waiting"
         \/ job'[q].pinned = job[q].pinned /\ (job'[q].pc = "closed" <=> job[q].pc = "closed")
  PROVE  Phase'[q] = Phase[q] /\ Taken'[q] = Taken[q]
<1>1. MappingInv /\ MappingInv'
  BY Mapping, MappingNext
<1>2. client[q].pc \in {"idle", "waiting", "received", "synced", "ended"}
  BY ClientFields DEF BackupInv, TypeOK
<1>. QED
  BY <1>1, <1>2 DEF MappingInv

\* A request that fails is lost, whatever it had captured.
LEMMA Loses ==
  ASSUME NEW R \in SUBSET Requests, UNCHANGED <<version, output>>,
         \A r \in R : /\ Phase[r] \in {"asked", "captured"}
                      /\ Phase'[r] = "lost" /\ Taken'[r] = None,
         \A r \in Requests \ R : Phase'[r] = Phase[r] /\ Taken'[r] = Taken[r]
  PROVE  Abstract!Lose
<1>1. /\ Phase' = [r \in Requests |-> IF r \in R THEN "lost" ELSE Phase[r]]
      /\ Taken' = [r \in Requests |-> IF r \in R THEN None ELSE Taken[r]]
  BY MappingTyped
<1>2. R \in SUBSET {r \in Requests : Phase[r] \in {"asked", "captured"}}
  OBVIOUS
<1>3. SavedVersion' = SavedVersion
  BY DEF SavedVersion
<1>. QED
  BY <1>1, <1>2, <1>3 DEF Abstract!Lose

\* The server's work pins a state, loses a request, or is not noticed.
LEMMA WorkRefines ==
  ASSUME BackupInv, BackupInv', NEW r \in Requests, Work(r)
  PROVE  [Abstract!Next]_(Abstract!vars)
<1>0. /\ TypeOK /\ UNCHANGED <<version, client, output>> /\ MappingInv /\ MappingInv'
      /\ ClientInv(r) /\ JobInv(r) /\ JobInv(r)'
  <2>1. UNCHANGED <<version, client, output>>
    BY DEF Work, Admit, Pin, ReadClock, CopyStep, StampSnapshot, CheckBackup, Record, Fail, command
  <2>. QED
    BY <2>1, Mapping, MappingNext DEF BackupInv, ClientsInv, JobsInv
<1>1. ASSUME \A q \in Requests \ {r} : job'[q] = job[q], client[r].pc # "waiting"
      PROVE  UNCHANGED Abstract!vars
  BY <1>0, <1>1, SamePlace, Stutters
<1>2. ASSUME \A q \in Requests \ {r} : job'[q] = job[q], job'[r].pinned = job[r].pinned,
             job'[r].pc # "closed", job[r].pc # "closed"
      PROVE  UNCHANGED Abstract!vars
  <2>1. \A q \in Requests : Phase'[q] = Phase[q] /\ Taken'[q] = Taken[q]
    BY <1>0, <1>2, SamePlace
  <2>. QED
    BY <1>0, <2>1, Stutters
<1>3. ASSUME \A q \in Requests \ {r} : job'[q] = job[q],
             job'[r].pc = "closed", job'[r].pinned = None,
             job[r].pc # "closed", client[r].pc = "waiting"
      PROVE  Abstract!Lose
  <2>1. Phase[r] \in {"asked", "captured"} /\ Phase'[r] = "lost" /\ Taken'[r] = None
    BY <1>0, <1>3 DEF MappingInv
  <2>2. \A q \in Requests \ {r} : Phase'[q] = Phase[q] /\ Taken'[q] = Taken[q]
    BY <1>0, <1>3, SamePlace
  <2>3. {r} \in SUBSET Requests
    OBVIOUS
  <2>. QED
    BY <1>0, <2>1, <2>2, <2>3, Loses
<1>4. CASE Admit(r)
  <2>1. job[r].pc = "requested" /\ (Goto(r, "admitted") \/ Goto(r, "closed"))
    BY <1>4 DEF Admit
  <2>2. /\ \A q \in Requests \ {r} : job'[q] = job[q]
        /\ job'[r].pinned = job[r].pinned /\ job'[r].pc \in {"admitted", "closed"}
    BY <1>0, <2>1, GotoEffect DEF TypeOK, Working
  <2>3. job[r].pinned = None
    BY <1>0, <2>1 DEF JobInv
  <2>. QED
    BY <1>1, <1>2, <1>3, <2>1, <2>2, <2>3 DEF Abstract!Next
<1>5. CASE Pin(r)
  <2>1. /\ job[r].pc = "admitted"
        /\ \A q \in Requests \ {r} : job'[q] = job[q]
        /\ job'[r].pc = "pinned" /\ job'[r].pinned = version
    BY <1>0, <1>5, PinEffect DEF Pin
  <2>2. CASE client[r].pc = "waiting"
    <3>1. job[r].pinned = None /\ version # None
      BY <1>0, <2>1 DEF JobInv, TypeOK, Versions
    <3>2. Phase[r] = "asked" /\ Phase'[r] = "captured" /\ Taken'[r] = version
      BY <1>0, <2>1, <2>2, <3>1 DEF MappingInv
    <3>3. \A q \in Requests \ {r} : Phase'[q] = Phase[q] /\ Taken'[q] = Taken[q]
      BY <1>0, <2>1, SamePlace
    <3>4. /\ Phase' = [Phase EXCEPT ![r] = "captured"]
          /\ Taken' = [Taken EXCEPT ![r] = version]
      BY <3>2, <3>3, OneMoves
    <3>5. SavedVersion' = SavedVersion
      BY <1>0 DEF SavedVersion
    <3>6. Abstract!Capture(r)
      BY <1>0, <3>2, <3>4, <3>5 DEF Abstract!Capture
    <3>. QED
      BY <3>6 DEF Abstract!Next
  <2>3. CASE client[r].pc # "waiting"
    BY <1>1, <2>1, <2>3
  <2>. QED
    BY <2>2, <2>3
<1>6. CASE ReadClock(r) \/ StampSnapshot(r)
  BY <1>0, <1>2, <1>6, ReadClockEffect, StampEffect DEF ReadClock, StampSnapshot
<1>7. CASE CheckBackup(r) \/ Record(r)
  <2>1. job[r].pc \in {"stamped", "checked"} /\ \E pc \in {"checked", "open"} : Goto(r, pc)
    BY <1>7 DEF CheckBackup, Record
  <2>2. /\ \A q \in Requests \ {r} : job'[q] = job[q]
        /\ job'[r].pinned = job[r].pinned /\ job'[r].pc \in {"checked", "open"}
    BY <1>0, <2>1, GotoEffect DEF TypeOK, Working
  <2>. QED
    BY <1>2, <2>1, <2>2
<1>8. CASE CopyStep(r)
  <2>1. job[r].pc = "copying"
    BY <1>8 DEF CopyStep
  <2>2. job[r].pinned \in Versions
    <3>1. job[r].pinned \in Nat /\ job[r].pinned \in Versions \cup {None}
      BY <1>0, <2>1, JobFields DEF JobInv, Working, TypeOK
    <3>. QED
      BY <3>1
  <2>3. CASE Goto(r, "copied")
    BY <1>0, <1>2, <2>1, <2>3, GotoEffect DEF TypeOK, Working
  <2>4. CASE \E page \in {Shown(r), Bad} : job' = [job EXCEPT ![r].file.pages = Append(@, page)]
    <3>1. PICK page \in {job[r].pinned, Bad} :
            job' = [job EXCEPT ![r].file.pages = Append(@, page)]
      BY <2>4 DEF Shown
    <3>2. /\ \A q \in Requests \ {r} : job'[q] = job[q]
          /\ job'[r].pc = "copying" /\ job'[r].pinned = job[r].pinned
      BY <1>0, <2>1, <2>2, <3>1, CopyEffect
    <3>. QED
      BY <1>2, <2>1, <3>2
  <2>. QED
    BY <1>8, <2>3, <2>4 DEF CopyStep
<1>9. CASE Fail(r)
  <2>1. /\ job[r].pc # "closed" /\ job'[r].pc = "closed" /\ job'[r].pinned = None
        /\ \A q \in Requests \ {r} : job'[q] = job[q]
    BY <1>0, <1>9, CleanUpEffect DEF Fail, Cleaned, TypeOK
  <2>. QED
    BY <1>1, <1>3, <2>1 DEF Abstract!Next
<1>. QED
  BY <1>4, <1>5, <1>6, <1>7, <1>8, <1>9 DEF Work

\* A command that ends leaves the output, or what it has captured under a free name.
LEMMA Ends ==
  ASSUME BackupInv, BackupInv', NEW r \in Requests,
         client[r].pc # "ended", client'[r].pc = "ended",
         \A q \in Requests \ {r} : Phase'[q] = Phase[q] /\ Taken'[q] = Taken[q],
         UNCHANGED version,
         \/ UNCHANGED output
         \/ output = None /\ Phase[r] = "captured" /\ SavedVersion' = Taken[r]
  PROVE  Abstract!End(r)
<1>1. MappingInv /\ MappingInv' /\ client[r].pc \in {"idle", "waiting", "received", "synced"}
  BY Mapping, MappingNext, ClientFields DEF BackupInv, TypeOK
<1>2. Phase[r] # "ended" /\ Phase'[r] = "ended" /\ Taken'[r] = None
  BY <1>1 DEF MappingInv
<1>3. Phase' = [Phase EXCEPT ![r] = "ended"] /\ Taken' = [Taken EXCEPT ![r] = None]
  BY <1>2, OneMoves
<1>4. \/ SavedVersion' = SavedVersion
      \/ SavedVersion = None /\ Phase[r] = "captured" /\ SavedVersion' = Taken[r]
  BY DEF SavedVersion
<1>. QED
  BY <1>2, <1>3, <1>4 DEF Abstract!End

\* The command's own steps.
LEMMA RunRefines ==
  ASSUME BackupInv, BackupInv', NEW r \in Requests, Run(r)
  PROVE  [Abstract!Next]_(Abstract!vars)
<1>0. /\ TypeOK /\ ClientInv(r) /\ JobInv(r) /\ MappingInv /\ MappingInv' /\ UNCHANGED version
      /\ client \in [Requests -> Client] /\ client[r] \in Client
  BY Mapping, MappingNext DEF BackupInv, ClientsInv, JobsInv, TypeOK, Run, Start, Sync, Publish,
     GiveUp, Kill
<1>1. CASE Start(r) /\ output = None
  <2>1. /\ client' = [client EXCEPT ![r].pc = "waiting", ![r].since = version]
        /\ Goto(r, "requested") /\ client[r].pc = "idle" /\ UNCHANGED output
    BY <1>1 DEF Start
  <2>2. /\ \A q \in Requests \ {r} : job'[q] = job[q] /\ client'[q] = client[q]
        /\ client'[r].pc = "waiting" /\ job'[r].pc = "requested" /\ job'[r].pinned = job[r].pinned
    <3>1. /\ \A q \in Requests \ {r} : client'[q] = client[q]
          /\ client'[r].pc = "waiting"
      BY <1>0, <2>1, StartEffect
    <3>2. /\ \A q \in Requests \ {r} : job'[q] = job[q]
          /\ job'[r].pc = "requested" /\ job'[r].pinned = job[r].pinned
      <4>1. job \in [Requests -> Job]
        BY <1>0 DEF TypeOK
      <4>. QED
        BY <2>1, <4>1, GotoEffect
    <3>. QED
      BY <3>1, <3>2
  <2>3. job[r].pinned = None
    BY <1>0, <2>1 DEF ClientInv, JobInv
  <2>4. Phase[r] = "idle" /\ Taken[r] = None /\ Phase'[r] = "asked" /\ Taken'[r] = None
    BY <1>0, <2>1, <2>2, <2>3 DEF MappingInv
  <2>5. \A q \in Requests \ {r} : Phase'[q] = Phase[q] /\ Taken'[q] = Taken[q]
    BY <2>2, SamePlace
  <2>6. Phase' = [Phase EXCEPT ![r] = "asked"] /\ Taken' = Taken
    BY <2>4, <2>5, OneMoves, MappingTyped
  <2>7. SavedVersion = None /\ SavedVersion' = SavedVersion
    BY <1>1, <2>1 DEF SavedVersion
  <2>8. Abstract!Ask(r)
    BY <1>0, <2>4, <2>6, <2>7 DEF Abstract!Ask
  <2>. QED
    BY <2>8 DEF Abstract!Next
<1>2. CASE Start(r) /\ output # None
  <2>1. /\ client' = [client EXCEPT ![r].pc = "ended"] /\ client[r].pc = "idle"
        /\ UNCHANGED <<job, output>>
    BY <1>2 DEF Start
  <2>2. (\A q \in Requests \ {r} : client'[q] = client[q]) /\ client'[r].pc = "ended"
    BY <1>0, <2>1, ClientMoves
  <2>3. \A q \in Requests \ {r} : Phase'[q] = Phase[q] /\ Taken'[q] = Taken[q]
    BY <2>1, <2>2, SamePlace
  <2>. QED
    BY <1>0, <2>1, <2>2, <2>3, Ends DEF Abstract!Next
<1>3. CASE Sync(r)
  <2>1. /\ client' = [client EXCEPT ![r].pc = "synced"] /\ client[r].pc = "received"
        /\ UNCHANGED <<job, output>>
    BY <1>3 DEF Sync, server
  <2>2. /\ \A q \in Requests \ {r} : client'[q] = client[q]
        /\ client'[r].pc = "synced" /\ client'[r].got = client[r].got
    BY <1>0, <2>1, ClientMoves
  <2>3. \A q \in Requests : Phase'[q] = Phase[q] /\ Taken'[q] = Taken[q]
    <3>1. Phase'[r] = Phase[r] /\ Taken'[r] = Taken[r]
      BY <1>0, <2>1, <2>2 DEF MappingInv
    <3>. QED
      BY <2>1, <2>2, <3>1, SamePlace
  <2>. QED
    BY <1>0, <2>1, <2>3, Stutters
<1>4. CASE GiveUp(r) \/ Kill(r)
  <2>1. /\ client[r].pc \in {"waiting", "received", "synced"} /\ UNCHANGED <<job, output>>
        /\ \E saved \in BOOLEAN : Ended(r, saved)
    <3>1. client[r].saved \in BOOLEAN
      BY <1>0, ClientFields
    <3>. QED
      BY <1>0, <1>4, <3>1, EndEffect, KillEffect DEF GiveUp, Kill, server
  <2>2. (\A q \in Requests \ {r} : client'[q] = client[q]) /\ client'[r].pc = "ended"
    BY <2>1 DEF Ended
  <2>3. \A q \in Requests \ {r} : Phase'[q] = Phase[q] /\ Taken'[q] = Taken[q]
    BY <2>1, <2>2, SamePlace
  <2>. QED
    BY <1>0, <2>1, <2>2, <2>3, Ends DEF Abstract!Next
<1>5. CASE Publish(r)
  <2>1. /\ client[r].pc = "synced" /\ UNCHANGED job /\ \E saved \in BOOLEAN : End(r, saved)
        /\ \/ UNCHANGED output
           \/ /\ output = None
              /\ output' = [by |-> r, file |-> client[r].got, durable |-> client[r].pc = "synced"]
    BY <1>5 DEF Publish, Ready, LinkAllowed, server
  <2>2. \E saved \in BOOLEAN : Ended(r, saved)
    BY <1>0, <2>1, EndEffect
  <2>3. (\A q \in Requests \ {r} : client'[q] = client[q]) /\ client'[r].pc = "ended"
    BY <2>2 DEF Ended
  <2>4. \A q \in Requests \ {r} : Phase'[q] = Phase[q] /\ Taken'[q] = Taken[q]
    BY <2>1, <2>3, SamePlace
  <2>5. Phase[r] = "captured" /\ Taken[r] = client[r].got.pages[1]
    BY <1>0, <2>1 DEF MappingInv
  <2>6. CASE UNCHANGED output
    BY <1>0, <2>1, <2>3, <2>4, <2>6, Ends DEF Abstract!Next
  <2>7. CASE /\ output = None
             /\ output' = [by |-> r, file |-> client[r].got, durable |-> client[r].pc = "synced"]
    <3>1. output' \in Copy /\ output'.file = client[r].got
      BY <1>0, <2>1, <2>7, ClientFields DEF Copy
    <3>2. SavedVersion' = client[r].got.pages[1]
      BY <3>1 DEF SavedVersion
    <3>. QED
      BY <1>0, <2>1, <2>3, <2>4, <2>5, <2>7, <3>2, Ends DEF Abstract!Next
  <2>. QED
    BY <2>1, <2>6, <2>7
<1>. QED
  BY <1>1, <1>2, <1>3, <1>4, <1>5 DEF Run

\* The end of a download: nothing is noticed if the file is complete, and else
\* the command ends.
LEMMA StreamRefines ==
  ASSUME BackupInv, BackupInv', NEW r \in Requests, StreamEnds(r)
  PROVE  [Abstract!Next]_(Abstract!vars)
<1>0. /\ Cleaned(r) /\ job[r].pc = "open" /\ UNCHANGED <<version, output>>
      /\ MappingInv /\ MappingInv' /\ JobInv(r) /\ TypeOK
  BY StreamEffect, Mapping, MappingNext DEF BackupInv, JobsInv
<1>1. CASE UNCHANGED client /\ client[r].pc = "ended"
  BY <1>0, <1>1, SamePlace, Stutters DEF Cleaned
<1>2. CASE client[r].pc = "waiting" /\ Ended(r, FALSE)
  <2>1. \A q \in Requests \ {r} : Phase'[q] = Phase[q] /\ Taken'[q] = Taken[q]
    BY <1>0, <1>2, SamePlace DEF Cleaned, Ended
  <2>. QED
    BY <1>0, <1>2, <2>1, Ends DEF Ended, Abstract!Next
<1>3. CASE /\ client[r].pc = "waiting" /\ client'[r].pc = "received"
           /\ \A q \in Requests \ {r} : client'[q] = client[q]
           /\ client'[r].got.pages[1] = job[r].pinned
  <2>1. job[r].pinned # None
    BY <1>0 DEF JobInv, Working
  <2>2. Phase'[r] = Phase[r] /\ Taken'[r] = Taken[r]
    BY <1>0, <1>3, <2>1 DEF MappingInv
  <2>3. \A q \in Requests : Phase'[q] = Phase[q] /\ Taken'[q] = Taken[q]
    BY <1>0, <1>3, <2>2, SamePlace DEF Cleaned
  <2>. QED
    BY <1>0, <2>3, Stutters
<1>. QED
  BY <1>1, <1>2, <1>3, StreamEffect

\* A restart loses every request that waits for the server.
LEMMA RestartRefines ==
  ASSUME BackupInv, BackupInv', Restart
  PROVE  Abstract!Lose
<1>. DEFINE R == {r \in Requests : client[r].pc = "waiting" /\ job[r].pc # "closed"}
<1>0. /\ UNCHANGED <<version, client, output>> /\ MappingInv /\ MappingInv'
      /\ job \in [Requests -> Job] /\ \A r \in Requests : ClientInv(r) /\ JobInv(r)
  BY Mapping, MappingNext DEF Restart, command, BackupInv, ClientsInv, JobsInv, TypeOK
<1>1. \A q \in Requests : /\ job'[q].pc = IF job[q].pc = "idle" THEN "idle" ELSE "closed"
                          /\ job'[q].pinned = None
  BY <1>0, RestartEffect
<1>2. ASSUME NEW r \in R
      PROVE  Phase[r] \in {"asked", "captured"} /\ Phase'[r] = "lost" /\ Taken'[r] = None
  BY <1>0, <1>1 DEF MappingInv, ClientInv
<1>3. ASSUME NEW r \in Requests \ R PROVE Phase'[r] = Phase[r] /\ Taken'[r] = Taken[r]
  <2>1. client[r].pc = "waiting" => job[r].pc = "closed" /\ job[r].pinned = None
    BY <1>0 DEF JobInv
  <2>2. \/ client[r].pc # "waiting"
        \/ job'[r].pinned = job[r].pinned /\ (job'[r].pc = "closed" <=> job[r].pc = "closed")
    BY <1>1, <2>1
  <2>. QED
    BY <1>0, <2>2, SamePlace
<1>. QED
  BY <1>0, <1>2, <1>3, Loses

\* A commit, and another program's file, are steps of Snapshot; other users'
\* connections are not noticed.
LEMMA OthersRefine ==
  ASSUME BackupInv, BackupInv', Connect \/ Disconnect \/ Create \/ UNCHANGED vars
  PROVE  [Abstract!Next]_(Abstract!vars)
<1>0. UNCHANGED <<job, client>> /\ TypeOK
  BY DEF Connect, Disconnect, Create, vars, server, command, BackupInv
<1>1. \A q \in Requests : Phase'[q] = Phase[q] /\ Taken'[q] = Taken[q]
  BY <1>0, SamePlace
<1>2. Phase' = Phase /\ Taken' = Taken
  BY <1>1, MappingTyped
<1>3. CASE UNCHANGED <<version, output>>
  BY <1>1, <1>3, Stutters
<1>4. CASE Disconnect /\ version' # version
  <2>1. version' = version + 1 /\ version' \in Versions /\ UNCHANGED output
    BY <1>4 DEF Disconnect, command
  <2>2. version < MaxVersion
    BY <1>0, <2>1 DEF TypeOK, Versions
  <2>3. SavedVersion' = SavedVersion
    BY <2>1 DEF SavedVersion
  <2>4. Abstract!Commit
    BY <1>2, <2>1, <2>2, <2>3 DEF Abstract!Commit
  <2>. QED
    BY <2>4 DEF Abstract!Next
<1>5. CASE Create
  <2>1. SavedVersion = None /\ SavedVersion' = Foreign /\ UNCHANGED version
    BY <1>5 DEF Create, SavedVersion
  <2>2. Abstract!Create
    BY <1>2, <2>1 DEF Abstract!Create
  <2>. QED
    BY <2>2 DEF Abstract!Next
<1>. QED
  BY <1>3, <1>4, <1>5 DEF Connect, Disconnect, vars, command

\* Backup implements Snapshot: through pages copied one by one, failures, kills
\* and restarts, a backup command is one atomic snapshot of the database, left
\* under a name that was free.
THEOREM BackupImplementsSnapshot == Spec => ImplementsSnapshot
<1>1. Init => Abstract!Init
  <2>. SUFFICES ASSUME Init PROVE Abstract!Init
    OBVIOUS
  <2>1. BackupInv /\ MappingInv
    BY InitBackup, Mapping
  <2>2. version = 0 /\ output = None /\ \A r \in Requests : client[r].pc = "idle"
    BY DEF Init
  <2>3. \A r \in Requests : Phase[r] = "idle" /\ Taken[r] = None
    BY <2>1, <2>2 DEF MappingInv
  <2>4. Phase = [r \in Requests |-> "idle"] /\ Taken = [r \in Requests |-> None]
    BY <2>3, MappingTyped
  <2>5. SavedVersion = None
    BY <2>2 DEF SavedVersion
  <2>. QED
    BY <2>2, <2>4, <2>5 DEF Abstract!Init
<1>2. BackupInv /\ BackupInv' /\ [Next]_vars => [Abstract!Next]_(Abstract!vars)
  <2>. SUFFICES ASSUME BackupInv, BackupInv', [Next]_vars
                PROVE  [Abstract!Next]_(Abstract!vars)
    OBVIOUS
  <2>1. CASE Connect \/ Disconnect \/ Create \/ UNCHANGED vars
    BY <2>1, OthersRefine
  <2>2. CASE Restart
    BY <2>2, RestartRefines DEF Abstract!Next
  <2>3. ASSUME NEW r \in Requests, Work(r) \/ StreamEnds(r) \/ Run(r)
        PROVE  [Abstract!Next]_(Abstract!vars)
    BY <2>3, WorkRefines, StreamRefines, RunRefines
  <2>. QED
    BY <2>1, <2>2, <2>3 DEF Next
<1>. QED
  BY <1>1, <1>2, BackupAlways, PTL DEF Spec, ImplementsSnapshot, Abstract!Spec
=============================================================================
