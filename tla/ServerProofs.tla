---------------------------- MODULE ServerProofs ----------------------------
(***************************************************************************)
(* Theorems about Server, for any number of groups and handlers, any       *)
(* bounds, and any number of restarts.                                     *)
(***************************************************************************)
EXTENDS Server, TLAPS

USE ServerAssumption

\* What a step of a handler leaves alone, and what becomes of the requests:
\* another request can at most stop being muted, for the same group.
Others(h) ==
  \A g \in Handlers \ {h} :
    /\ request'[g].pc = request[g].pc /\ request'[g].fp = request[g].fp
    /\ request'[g].muted => request[g].muted

\* The fields of a request have the types of its record.
LEMMA RequestFields ==
  ASSUME NEW r \in Request
  PROVE  /\ r.pc \in {"idle", "accepted", "stored", "unsilenced"}
         /\ r.fp \in Fingerprints \cup {None}
         /\ r.muted \in BOOLEAN
BY DEF Request

\* An idle handler's record is well formed.
LEMMA NoRequestTyped == NoRequest \in Request
BY DEF NoRequest, Request

\* The effect of KeepMuted on well-formed requests.
LEMMA Muted ==
  ASSUME NEW reqs \in [Handlers -> Request], KeepMuted(reqs)
  PROVE  /\ request' \in [Handlers -> Request]
         /\ \A h \in Handlers :
              /\ request'[h].pc = reqs[h].pc
              /\ request'[h].fp = reqs[h].fp
              /\ request'[h].muted <=>
                   reqs[h].muted /\ reqs[h].fp \in InForce(silences', clock')
<1>. DEFINE still(h) == reqs[h].muted /\ reqs[h].fp \in InForce(silences', clock')
<1>1. ASSUME NEW h \in Handlers
      PROVE  \E m \in BOOLEAN :
               /\ m <=> still(h)
               /\ request'[h] = [pc |-> reqs[h].pc, fp |-> reqs[h].fp, muted |-> m]
  <2>1. PICK m \in BOOLEAN : m = still(h)
    OBVIOUS
  <2>2. request'[h] = [reqs[h] EXCEPT !.muted = m]
    BY <2>1 DEF KeepMuted
  <2>3. reqs[h] = [pc |-> reqs[h].pc, fp |-> reqs[h].fp, muted |-> reqs[h].muted]
    BY DEF Request
  <2>. HIDE DEF still
  <2>4. request'[h] = [pc |-> reqs[h].pc, fp |-> reqs[h].fp, muted |-> m]
    BY <2>2, <2>3
  <2>. QED
    BY <2>1, <2>4
<1>2. request' = [h \in Handlers |-> request'[h]]
  BY DEF KeepMuted
<1>. HIDE DEF still
<1>3. ASSUME NEW h \in Handlers
      PROVE  /\ request'[h] \in Request
             /\ request'[h].pc = reqs[h].pc
             /\ request'[h].fp = reqs[h].fp
             /\ request'[h].muted <=> still(h)
  <2>1. PICK m \in BOOLEAN :
               /\ m <=> still(h)
               /\ request'[h] = [pc |-> reqs[h].pc, fp |-> reqs[h].fp, muted |-> m]
    BY <1>1
  <2>2. request'[h].muted = m
    BY <2>1
  <2>. QED
    BY <2>1, <2>2, RequestFields DEF Request
<1>4. request' \in [Handlers -> Request]
  BY <1>2, <1>3
<1>. QED
  BY <1>3, <1>4 DEF still
-----------------------------------------------------------------------------
(* Types                                                                   *)

RowsTyped ==
  /\ status \in [Fingerprints -> Life!Statuses]
  /\ notified \in [Fingerprints -> BOOLEAN]
PostTyped ==
  /\ owed \in [Fingerprints -> 0 .. MaxOwed]
  /\ mailed \subseteq Fingerprints /\ marked \subseteq Fingerprints
  /\ mailer \in {"open", "closing", "closed"}
SilencesTyped == clock \in 0 .. MaxTime /\ silences \in [Fingerprints -> SUBSET Expiries]
RequestsTyped ==
  /\ request \in [Handlers -> Request]
  /\ \A h \in Handlers : request[h].pc # "idle" => request[h].fp # None
ChoresTyped ==
  /\ chores \in Chores
  /\ chores.pc = "resolved" <=> chores.list # {}
ServerTyped ==
  /\ server \in {"serving", "draining", "stopping", "closing", "down"}
  /\ overstayed \in BOOLEAN

\* The type invariant, by component, so that a step touches few of its parts.
LEMMA TypeParts ==
  TypeOK <=> /\ RowsTyped /\ PostTyped /\ SilencesTyped /\ RequestsTyped
             /\ ChoresTyped /\ ServerTyped /\ summarised \subseteq Fingerprints
BY DEF TypeOK, RowsTyped, PostTyped, SilencesTyped, RequestsTyped, ChoresTyped, ServerTyped

\* The atomic operations on the errors table keep its types, and notified
\* changes in Notify alone.
LEMMA RowSteps ==
  ASSUME RowsTyped,
         \/ UNCHANGED rows
         \/ \E f \in Fingerprints : Life!Create(f) \/ Life!Reopen(f) \/ Life!Resolve(f)
         \/ \E S \in SUBSET Fingerprints : Life!AutoResolve(S)
  PROVE  RowsTyped' /\ notified' = notified
BY DEF RowsTyped, rows, Life!Statuses, Life!Create, Life!Reopen, Life!Resolve, Life!AutoResolve

\* The mailer's callback keeps the table's types and marks at most one group.
LEMMA NotifyStep ==
  ASSUME RowsTyped, NEW f \in Fingerprints, Life!Notify(f) \/ UNCHANGED rows
  PROVE  /\ RowsTyped'
         /\ \A g \in Fingerprints : notified'[g] => notified[g] \/ g = f
BY DEF RowsTyped, rows, Life!Notify

\* The mailer's steps keep its types, and a mail that was accepted stays so.
LEMMA PostSteps ==
  ASSUME PostTyped,
         \/ UNCHANGED post
         \/ \E f \in Fingerprints : Mail!LetThrough(f) \/ Mail!Mark(f)
         \/ \E S \in SUBSET Fingerprints : Mail!Attempt(S)
         \/ Mail!Close \/ Mail!CloseReturns
  PROVE  PostTyped' /\ mailed \subseteq mailed'
<1>1. CASE UNCHANGED post
  BY <1>1 DEF PostTyped, post
<1>2. CASE \E f \in Fingerprints : Mail!LetThrough(f)
  BY <1>2 DEF PostTyped, Mail!LetThrough
<1>3. CASE \E f \in Fingerprints : Mail!Mark(f)
  BY <1>3 DEF PostTyped, Mail!Mark
<1>4. ASSUME NEW S \in SUBSET Fingerprints, Mail!Attempt(S)
      PROVE  PostTyped' /\ mailed \subseteq mailed'
  BY <1>4 DEF PostTyped, Mail!Attempt
<1>5. CASE Mail!Close \/ Mail!CloseReturns
  BY <1>5 DEF PostTyped, Mail!Close, Mail!CloseReturns
<1>. QED
  BY <1>1, <1>2, <1>3, <1>4, <1>5
-----------------------------------------------------------------------------
(* What each action does, by component                                     *)

\* A step of handler h touches the errors table but not its notified column,
\* may owe one more notification, and leaves the other processes alone.
LEMMA HandlerFrame ==
  ASSUME NEW h \in Handlers, RequestsTyped, Handle(h)
  PROVE  /\ \/ UNCHANGED rows
            \/ \E f \in Fingerprints : Life!Create(f) \/ Life!Reopen(f) \/ Life!Resolve(f)
         /\ UNCHANGED post \/ \E f \in Fingerprints : Mail!LetThrough(f)
         /\ UNCHANGED <<clock, chores, server, overstayed, summarised>>
<1>. DEFINE f == request[h].fp
<1>1. request[h].pc # "idle" => f \in Fingerprints
  BY RequestFields DEF RequestsTyped
<1>2. CASE \E g \in Fingerprints : Accept(h, g)
  BY <1>2 DEF Accept
<1>3. CASE StoreEvent(h)
  <2>1. f \in Fingerprints
    BY <1>1, <1>3 DEF StoreEvent
  <2>2. Life!Create(f) \/ Life!Reopen(f) \/ UNCHANGED rows
    BY <1>3 DEF StoreEvent
  <2>3. UNCHANGED <<post, clock, chores, server, overstayed, summarised>>
    BY <1>3 DEF StoreEvent
  <2>. HIDE DEF f
  <2>. QED
    BY <2>1, <2>2, <2>3
<1>4. CASE CheckSilence(h)
  BY <1>4 DEF CheckSilence
<1>5. CASE NotifyNewError(h)
  <2>1. f \in Fingerprints
    BY <1>1, <1>5 DEF NotifyNewError
  <2>2. Mail!LetThrough(f) \/ UNCHANGED post
    BY <1>5 DEF NotifyNewError
  <2>3. UNCHANGED <<rows, clock, chores, server, overstayed, summarised>>
    BY <1>5 DEF NotifyNewError
  <2>. HIDE DEF f
  <2>. QED
    BY <2>1, <2>2, <2>3
<1>6. CASE Resolve(h)
  <2>1. f \in Fingerprints
    BY <1>1, <1>6 DEF Resolve
  <2>2. Life!Resolve(f)
    BY <1>6 DEF Resolve
  <2>3. UNCHANGED <<post, clock, chores, server, overstayed, summarised>>
    BY <1>6 DEF Resolve
  <2>. HIDE DEF f
  <2>. QED
    BY <2>1, <2>2, <2>3
<1>7. CASE Silence(h) \/ Unsilence(h) \/ Fail(h)
  BY <1>7 DEF Silence, Unsilence, Fail
<1>. QED
  BY <1>2, <1>3, <1>4, <1>5, <1>6, <1>7 DEF Handle

\* What a step of handler h may do to its own request.
Begins(h) ==
  /\ request[h].pc = "idle" /\ server = "serving"
  /\ request'[h].pc = "accepted" /\ request'[h].fp \in Fingerprints
  /\ request'[h].muted => Covered(request'[h].fp)
  /\ UNCHANGED silences
Ends(h) == request'[h] = NoRequest /\ request[h].pc # "idle"
Advances(h) ==
  /\ \/ request[h].pc = "accepted" /\ request'[h].pc = "stored"
     \/ /\ request[h].pc = "stored" /\ request'[h].pc = "unsilenced"
        /\ ~IsSilenced(request[h].fp)
  /\ request'[h].fp = request[h].fp /\ request'[h].muted = request[h].muted
  /\ UNCHANGED silences

\* Giving a handler a well-formed request disturbs no other handler.
LEMMA Reassign ==
  ASSUME RequestsTyped, NEW h \in Handlers, NEW r \in Request,
         r.pc # "idle" => r.fp # None,
         request' = [request EXCEPT ![h] = r]
  PROVE  RequestsTyped' /\ Others(h) /\ request'[h] = r
BY RequestFields DEF RequestsTyped, Others

\* A handler that answers becomes idle and disturbs no other.
LEMMA FinishStep ==
  ASSUME RequestsTyped, NEW h \in Handlers, Finish(h), request[h].pc # "idle"
  PROVE  RequestsTyped' /\ Others(h) /\ Ends(h)
BY NoRequestTyped, Reassign DEF Finish, Ends, NoRequest

\* A handler that goes on keeps its group and whether it was muted.
LEMMA GotoStep ==
  ASSUME RequestsTyped, NEW h \in Handlers, NEW pc \in {"stored", "unsilenced"},
         Goto(h, pc), request[h].pc # "idle"
  PROVE  /\ RequestsTyped' /\ Others(h)
         /\ request'[h].pc = pc /\ request'[h].fp = request[h].fp
         /\ request'[h].muted = request[h].muted
<1>. DEFINE r == [pc |-> pc, fp |-> request[h].fp, muted |-> request[h].muted]
<1>1. request[h] \in Request
  BY DEF RequestsTyped
<1>2. r \in Request /\ r.fp # None
  BY <1>1, RequestFields DEF Request, RequestsTyped
<1>3. [request[h] EXCEPT !.pc = pc] = r
  BY <1>1 DEF Request
<1>4. request' = [request EXCEPT ![h] = r]
  BY <1>3 DEF Goto
<1>5. RequestsTyped' /\ Others(h) /\ request'[h] = r
  BY <1>2, <1>4, Reassign
<1>. QED
  BY <1>5

\* Every handler step begins, ends or advances one request, and changes the
\* silences of its own group only.
LEMMA HandlerSteps ==
  ASSUME SilencesTyped, RequestsTyped, NEW h \in Handlers, Handle(h)
  PROVE  /\ RequestsTyped' /\ SilencesTyped'
         /\ Others(h)
         /\ Begins(h) \/ Ends(h) \/ Advances(h)
         /\ \A f \in Fingerprints : f # request[h].fp => silences'[f] = silences[f]
<1>. DEFINE f == request[h].fp
<1>1. ASSUME NEW g \in Fingerprints, Accept(h, g)
      PROVE  RequestsTyped' /\ Others(h) /\ Begins(h) /\ UNCHANGED <<clock, silences>>
  <2>. DEFINE r == [pc |-> "accepted", fp |-> g, muted |-> Covered(g)]
  <2>1. r \in Request /\ r.fp # None
    BY DEF Request, Covered
  <2>2. request' = [request EXCEPT ![h] = r]
    BY <1>1 DEF Accept
  <2>3. RequestsTyped' /\ Others(h) /\ request'[h] = r
    BY <2>1, <2>2, Reassign
  <2>. QED
    BY <1>1, <2>3 DEF Accept, Active, Begins
<1>2. CASE StoreEvent(h)
  <2>1. request[h].pc = "accepted" /\ UNCHANGED <<clock, silences>>
    BY <1>2 DEF StoreEvent
  <2>2. Goto(h, "stored") \/ Finish(h)
    BY <1>2 DEF StoreEvent
  <2>3. CASE Goto(h, "stored")
    <3>1. RequestsTyped' /\ Others(h) /\ Advances(h)
      BY <2>1, <2>3, GotoStep DEF Advances
    <3>. QED
      BY <2>1, <3>1 DEF SilencesTyped
  <2>4. CASE Finish(h)
    BY <2>1, <2>4, FinishStep DEF SilencesTyped
  <2>. QED
    BY <2>2, <2>3, <2>4
<1>3. CASE CheckSilence(h)
  <2>1. request[h].pc = "stored" /\ UNCHANGED <<clock, silences>>
    BY <1>3 DEF CheckSilence
  <2>2. Finish(h) \/ (Goto(h, "unsilenced") /\ ~IsSilenced(f))
    BY <1>3 DEF CheckSilence
  <2>3. CASE Goto(h, "unsilenced") /\ ~IsSilenced(f)
    <3>1. RequestsTyped' /\ Others(h) /\ Advances(h)
      BY <2>1, <2>3, GotoStep DEF Advances
    <3>. QED
      BY <2>1, <3>1 DEF SilencesTyped
  <2>4. CASE Finish(h)
    BY <2>1, <2>4, FinishStep DEF SilencesTyped
  <2>. QED
    BY <2>2, <2>3, <2>4
<1>4. CASE NotifyNewError(h) \/ Resolve(h) \/ Fail(h)
  <2>1. request[h].pc # "idle" /\ Finish(h) /\ UNCHANGED <<clock, silences>>
    BY <1>4 DEF NotifyNewError, Resolve, Fail
  <2>. QED
    BY <2>1, FinishStep DEF SilencesTyped
<1>5. CASE Silence(h)
  <2>1. request[h].pc # "idle" /\ Finish(h) /\ UNCHANGED clock
    BY <1>5 DEF Silence
  <2>2. PICK e \in Expiries : silences' = [silences EXCEPT ![f] = silences[f] \cup {e}]
    BY <1>5 DEF Silence
  <2>. QED
    BY <2>1, <2>2, FinishStep DEF SilencesTyped
<1>6. CASE Unsilence(h)
  <2>. DEFINE reqs == [request EXCEPT ![h] = NoRequest]
  <2>1. /\ request[h].pc # "idle" /\ KeepMuted(reqs) /\ UNCHANGED clock
        /\ silences' = [silences EXCEPT ![f] = {}]
    BY <1>6 DEF Unsilence
  <2>2. reqs \in [Handlers -> Request]
    BY NoRequestTyped DEF RequestsTyped
  <2>3. /\ request' \in [Handlers -> Request]
        /\ \A g \in Handlers : /\ request'[g].pc = reqs[g].pc
                               /\ request'[g].fp = reqs[g].fp
                               /\ request'[g].muted => reqs[g].muted
    BY <2>1, <2>2, Muted
  <2>4. \A g \in Handlers \ {h} : reqs[g] = request[g]
    BY DEF RequestsTyped
  <2>5. reqs[h] = [pc |-> "idle", fp |-> None, muted |-> FALSE]
    BY DEF RequestsTyped, NoRequest
  <2>. HIDE DEF reqs
  <2>6. Others(h)
    BY <2>3, <2>4 DEF Others
  <2>7. request'[h] = NoRequest
    <3>1. /\ request'[h].pc = "idle" /\ request'[h].fp = None
          /\ request'[h].muted \in BOOLEAN /\ ~request'[h].muted
      BY <2>3, <2>5, RequestFields
    <3>2. request'[h] \in Request
      BY <2>3
    <3>. QED
      BY <3>1, <3>2 DEF Request, NoRequest
  <2>8. RequestsTyped'
    BY <2>3, <2>4, <2>5 DEF RequestsTyped
  <2>. QED
    BY <2>1, <2>6, <2>7, <2>8 DEF Ends, SilencesTyped
<1>. QED
  BY <1>1, <1>2, <1>3, <1>4, <1>5, <1>6 DEF Handle, SilencesTyped
-----------------------------------------------------------------------------
(* Type correctness                                                        *)

\* Housekeeping keeps the types; it mails only about a list that is not empty.
LEMMA ChoresStepTyped ==
  ASSUME TypeOK, Housekeeping
  PROVE  TypeOK'
<1>. USE TypeParts
<1>. SUFFICES /\ RowsTyped' /\ PostTyped' /\ SilencesTyped' /\ RequestsTyped'
              /\ ChoresTyped' /\ ServerTyped' /\ (summarised \subseteq Fingerprints)'
  BY DEF TypeOK, RowsTyped, PostTyped, SilencesTyped, RequestsTyped, ChoresTyped, ServerTyped
<1>1. CASE AutoResolve
  <2>1. RowsTyped'
    BY <1>1, RowSteps DEF AutoResolve
  <2>2. ChoresTyped'
    BY <1>1 DEF AutoResolve, ChoresTyped, Chores, AfterResolve, Listed
  <2>. QED
    BY <1>1, <2>1, <2>2 DEF AutoResolve, PostTyped, post, SilencesTyped, RequestsTyped, ServerTyped
<1>2. CASE MailSummary
  BY <1>2 DEF MailSummary, RowsTyped, rows, PostTyped, post, SilencesTyped, RequestsTyped,
              ChoresTyped, Chores, ServerTyped
<1>3. CASE PruneSilences
  <2>1. SilencesTyped'
    BY <1>3 DEF PruneSilences, SilencesTyped
  <2>2. RequestsTyped'
    BY <1>3, Muted DEF PruneSilences, RequestsTyped
  <2>3. ChoresTyped'
    BY <1>3 DEF PruneSilences, ChoresTyped, Chores
  <2>. QED
    BY <1>3, <2>1, <2>2, <2>3 DEF PruneSilences, RowsTyped, rows, PostTyped, post, ServerTyped
<1>4. CASE ChoresStop
  BY <1>4 DEF ChoresStop, RowsTyped, rows, PostTyped, post, SilencesTyped, RequestsTyped,
              ChoresTyped, Chores, ServerTyped
<1>. QED
  BY <1>1, <1>2, <1>3, <1>4 DEF Housekeeping

\* Deliveries and their callbacks keep the types.
LEMMA DeliverTyped ==
  ASSUME TypeOK, Deliver
  PROVE  TypeOK'
<1>. SUFFICES /\ RowsTyped' /\ PostTyped' /\ SilencesTyped' /\ RequestsTyped'
              /\ ChoresTyped' /\ ServerTyped' /\ (summarised \subseteq Fingerprints)'
  BY DEF TypeOK, RowsTyped, PostTyped, SilencesTyped, RequestsTyped, ChoresTyped, ServerTyped
<1>1. UNCHANGED <<clock, silences, process, summarised>>
  BY DEF Deliver, Attempt, MarkNotified
<1>2. PostTyped'
  BY TypeParts, PostSteps DEF Deliver, Attempt, MarkNotified
<1>3. RowsTyped'
  BY TypeParts, NotifyStep DEF Deliver, Attempt, MarkNotified, RowsTyped, rows
<1>. QED
  BY <1>1, <1>2, <1>3, TypeParts DEF process, SilencesTyped, RequestsTyped, ChoresTyped, ServerTyped

\* Shutdown, restart and the passing of time keep the types.
LEMMA ShutdownTyped ==
  ASSUME TypeOK, Signal \/ Shutdown \/ Restart \/ Tick
  PROVE  TypeOK'
<1>. USE TypeParts
<1>. SUFFICES /\ RowsTyped' /\ PostTyped' /\ SilencesTyped' /\ RequestsTyped'
              /\ ChoresTyped' /\ ServerTyped' /\ (summarised \subseteq Fingerprints)'
  BY DEF TypeOK, RowsTyped, PostTyped, SilencesTyped, RequestsTyped, ChoresTyped, ServerTyped
<1>1. CASE Signal \/ Drained \/ GraceOver \/ CloseDatabase
  BY <1>1 DEF Signal, Drained, GraceOver, CloseDatabase, RowsTyped, rows, PostTyped, post,
              SilencesTyped, RequestsTyped, ChoresTyped, ServerTyped
<1>2. CASE CloseMailer \/ MailerClosed
  <2>1. PostTyped'
    BY <1>2, PostSteps DEF CloseMailer, MailerClosed
  <2>. QED
    BY <1>2, <2>1 DEF CloseMailer, MailerClosed, process, RowsTyped, rows,
              SilencesTyped, RequestsTyped, ChoresTyped, ServerTyped
<1>3. CASE Restart
  <2>1. RequestsTyped'
    BY <1>3, NoRequestTyped DEF Restart, RequestsTyped, NoRequest
  <2>2. PostTyped'
    BY <1>3 DEF Restart, PostTyped
  <2>. QED
    BY <1>3, <2>1, <2>2 DEF Restart, RowsTyped, rows, SilencesTyped, ChoresTyped, Chores, ServerTyped
<1>4. CASE Tick
  <2>1. RequestsTyped'
    BY <1>4, Muted DEF Tick, RequestsTyped
  <2>2. SilencesTyped'
    BY <1>4 DEF Tick, SilencesTyped
  <2>. QED
    BY <1>4, <2>1, <2>2 DEF Tick, RowsTyped, rows, PostTyped, post, ChoresTyped, ServerTyped
<1>. QED
  BY <1>1, <1>2, <1>3, <1>4 DEF Shutdown

\* Handlers keep the types.
LEMMA HandleTyped ==
  ASSUME TypeOK, NEW h \in Handlers, Handle(h)
  PROVE  TypeOK'
<1>. SUFFICES /\ RowsTyped' /\ PostTyped' /\ SilencesTyped' /\ RequestsTyped'
              /\ ChoresTyped' /\ ServerTyped' /\ (summarised \subseteq Fingerprints)'
  BY DEF TypeOK, RowsTyped, PostTyped, SilencesTyped, RequestsTyped, ChoresTyped, ServerTyped
<1>1. RequestsTyped' /\ SilencesTyped'
  BY TypeParts, HandlerSteps
<1>2. RowsTyped' /\ PostTyped'
  BY TypeParts, HandlerFrame, RowSteps, PostSteps
<1>3. UNCHANGED <<chores, server, overstayed, summarised>>
  BY TypeParts, HandlerFrame
<1>. QED
  BY <1>1, <1>2, <1>3, TypeParts DEF ChoresTyped, ServerTyped

\* The variables keep their types, and a request being served has a group.
THEOREM ServerTypeCorrect == Spec => []TypeOK
<1>1. Init => TypeOK
  <2>. SUFFICES ASSUME Init
                PROVE  /\ RowsTyped /\ PostTyped /\ SilencesTyped /\ RequestsTyped
                       /\ ChoresTyped /\ ServerTyped /\ summarised \subseteq Fingerprints
    BY TypeParts
  <2>1. RowsTyped
    BY DEF Init, RowsTyped, Life!Init, Life!Statuses
  <2>2. PostTyped
    BY DEF Init, PostTyped, Mail!Init
  <2>3. RequestsTyped
    BY NoRequestTyped DEF Init, RequestsTyped, NoRequest
  <2>4. SilencesTyped
    BY DEF Init, SilencesTyped
  <2>5. ChoresTyped /\ ServerTyped /\ summarised \subseteq Fingerprints
    BY DEF Init, ChoresTyped, Chores, ServerTyped
  <2>. QED
    BY <2>1, <2>2, <2>3, <2>4, <2>5
<1>2. TypeOK /\ [Next]_vars => TypeOK'
  <2>. SUFFICES ASSUME TypeOK, [Next]_vars PROVE TypeOK'
    OBVIOUS
  <2>1. CASE UNCHANGED vars
    BY <2>1 DEF vars, rows, post, process, TypeOK
  <2>. QED
    BY <2>1, HandleTyped, ChoresStepTyped, DeliverTyped, ShutdownTyped DEF Next
<1>. QED
  BY <1>1, <1>2, PTL DEF Spec
-----------------------------------------------------------------------------
(* Who has been mailed                                                     *)

\* notified is only ever set for a mailed group, so the list that housekeeping
\* carries from its transaction to its mail, and the mail itself, name no other.
HeardInv ==
  /\ \A f \in Fingerprints : notified[f] => f \in mailed
  /\ chores.list \subseteq mailed
  /\ summarised \subseteq mailed

\* HeardInv is inductive: only the callback of an accepted mail sets notified.
LEMMA HeardStep ==
  ASSUME TypeOK, HeardInv, [Next]_vars
  PROVE  HeardInv'
<1>. USE DEF HeardInv
<1>1. ASSUME NEW h \in Handlers, Handle(h)
      PROVE  HeardInv'
  <2>1. notified' = notified
    BY <1>1, TypeParts, HandlerFrame, RowSteps
  <2>2. mailed \subseteq mailed'
    BY <1>1, TypeParts, HandlerFrame, PostSteps
  <2>3. UNCHANGED <<chores, summarised>>
    BY <1>1, TypeParts, HandlerFrame
  <2>. QED
    BY <2>1, <2>2, <2>3
<1>2. CASE AutoResolve
  <2>1. notified' = notified
    BY <1>2, TypeParts, RowSteps DEF AutoResolve
  <2>2. \A f \in chores'.list : f \in Fingerprints /\ notified[f]
    <3>1. CASE chores' = [pc |-> "pruning", list |-> {}]
      BY <3>1
    <3>2. ASSUME NEW S \in SUBSET Fingerprints,
                 chores' = [pc |-> AfterResolve(Listed(S)), list |-> Listed(S)]
          PROVE  \A f \in chores'.list : f \in Fingerprints /\ notified[f]
      <4>1. chores'.list = Listed(S)
        BY <3>2
      <4>. QED
        BY <4>1 DEF Listed
    <3>. QED
      BY <1>2, <3>1, <3>2 DEF AutoResolve
  <2>3. UNCHANGED <<post, summarised>>
    BY <1>2 DEF AutoResolve
  <2>. QED
    BY <2>1, <2>2, <2>3 DEF post
<1>3. CASE MailSummary
  BY <1>3 DEF MailSummary, rows, post
<1>4. CASE PruneSilences
  BY <1>4, TypeParts DEF PruneSilences, rows, post, ChoresTyped, Chores
<1>5. CASE ChoresStop
  BY <1>5, TypeParts DEF ChoresStop, rows, post, ChoresTyped, Chores
<1>6. CASE Attempt
  <2>1. mailed \subseteq mailed'
    BY <1>6, TypeParts, PostSteps DEF Attempt
  <2>. QED
    BY <1>6, <2>1 DEF Attempt, rows, process
<1>7. CASE MarkNotified
  <2>1. PICK f \in Fingerprints : Mail!Mark(f) /\ (Life!Notify(f) \/ UNCHANGED rows)
    BY <1>7 DEF MarkNotified
  <2>2. \A g \in Fingerprints : notified'[g] => notified[g] \/ g = f
    BY <2>1, TypeParts, NotifyStep
  <2>3. f \in mailed /\ mailed' = mailed
    BY <2>1 DEF Mail!Mark
  <2>. QED
    BY <1>7, <2>2, <2>3 DEF MarkNotified, process
<1>8. CASE Signal \/ Drained \/ GraceOver \/ CloseDatabase \/ Tick
  BY <1>8 DEF Signal, Drained, GraceOver, CloseDatabase, Tick, rows, post
<1>9. CASE CloseMailer \/ MailerClosed
  BY <1>9 DEF CloseMailer, MailerClosed, Mail!Close, Mail!CloseReturns, rows, process
<1>10. CASE Restart
  BY <1>10 DEF Restart, rows
<1>11. CASE UNCHANGED vars
  BY <1>11 DEF vars, rows, post, process
<1>. QED
  BY <1>1, <1>2, <1>3, <1>4, <1>5, <1>6, <1>7, <1>8, <1>9, <1>10, <1>11
  DEF Next, Housekeeping, Deliver, Shutdown

\* A summary of automatic resolutions never names a group the user has not
\* been mailed about, whatever was killed, restarted or failed in between.
THEOREM SummariesAlwaysKnown == Spec => []SummariesNameTheHeardOf
<1>1. Init => HeardInv
  BY DEF Init, HeardInv, Life!Init
<1>2. Spec => []HeardInv
  BY <1>1, HeardStep, ServerTypeCorrect, PTL DEF Spec
<1>3. HeardInv => SummariesNameTheHeardOf
  BY DEF HeardInv, SummariesNameTheHeardOf
<1>. QED
  BY <1>2, <1>3, PTL
-----------------------------------------------------------------------------
(* The order of the shutdown                                               *)

\* Close of the mailer begins when housekeeping is gone and nobody but an
\* overstaying handler is left; the database is closed when it has returned.
OrderInv ==
  /\ server \in {"closing", "down"} <=> mailer # "open"
  /\ server = "down" => mailer = "closed"
  /\ mailer = "closed" => \A f \in Fingerprints : owed[f] = 0
  /\ mailer # "open" => chores.pc = "gone"
  /\ server \in {"stopping", "closing", "down"} =>
       overstayed \/ \A h \in Handlers : request[h].pc = "idle"

\* A closed mailer takes nothing in and has nothing to deliver.
LEMMA ClosedMailer ==
  ASSUME mailer = "closed", \A f \in Fingerprints : owed[f] = 0
  PROVE  /\ \A f \in Fingerprints : ~Mail!LetThrough(f) /\ ~Mail!Mark(f)
         /\ \A S \in SUBSET Fingerprints : Mail!Attempt(S) => S = {}
         /\ ~Mail!Close /\ ~Mail!CloseReturns
<1>1. \A f \in Fingerprints : ~Mail!LetThrough(f) /\ ~Mail!Mark(f)
  BY DEF Mail!LetThrough, Mail!Mark
<1>2. ASSUME NEW S \in SUBSET Fingerprints, Mail!Attempt(S)
      PROVE  S = {}
  BY <1>2 DEF Mail!Attempt
<1>. QED
  BY <1>1, <1>2 DEF Mail!Close, Mail!CloseReturns

\* OrderInv is inductive: each phase of the shutdown waits for the one before.
LEMMA OrderStep ==
  ASSUME TypeOK, OrderInv, [Next]_vars
  PROVE  OrderInv'
<1>. USE DEF OrderInv
<1>1. ASSUME NEW h \in Handlers, Handle(h)
      PROVE  OrderInv'
  <2>1. UNCHANGED <<chores, server, overstayed>>
    BY <1>1, TypeParts, HandlerFrame
  <2>2. UNCHANGED mailer /\ (mailer = "closed" => UNCHANGED owed)
    BY <1>1, TypeParts, HandlerFrame DEF post, Mail!LetThrough
  <2>3. Others(h) /\ (Begins(h) \/ Ends(h) \/ Advances(h))
    BY <1>1, TypeParts, HandlerSteps
  <2>4. ASSUME server # "serving", \A g \in Handlers : request[g].pc = "idle"
        PROVE  \A g \in Handlers : request'[g].pc = "idle"
    BY <2>3, <2>4 DEF Others, Begins, Ends, Advances, NoRequest
  <2>. QED
    BY <2>1, <2>2, <2>4
<1>2. CASE AutoResolve \/ MailSummary \/ ChoresStop
  BY <1>2 DEF AutoResolve, MailSummary, ChoresStop, post
<1>3. CASE PruneSilences \/ Tick
  <2>1. \A h \in Handlers : request'[h].pc = request[h].pc
    BY <1>3, TypeParts, Muted DEF PruneSilences, Tick, RequestsTyped
  <2>2. UNCHANGED <<post, server, overstayed>> /\ (chores.pc = "gone" => UNCHANGED chores)
    BY <1>3 DEF PruneSilences, Tick
  <2>. QED
    BY <2>1, <2>2 DEF post
<1>4. CASE Deliver
  <2>1. UNCHANGED <<mailer, process>>
    BY <1>4 DEF Deliver, Attempt, MarkNotified, Mail!Attempt, Mail!Mark
  <2>2. ASSUME mailer = "closed", NEW f \in Fingerprints
        PROVE  owed'[f] = 0
    <3>1. \A S \in SUBSET Fingerprints : Mail!Attempt(S) => S = {}
      BY <2>2, ClosedMailer
    <3>2. ~MarkNotified
      BY <2>2, ClosedMailer DEF MarkNotified
    <3>3. Mail!Attempt({})
      BY <1>4, <3>1, <3>2 DEF Deliver, Attempt
    <3>. QED
      BY <2>2, <3>3 DEF Mail!Attempt
  <2>. QED
    BY <2>1, <2>2 DEF process
<1>5. CASE Signal \/ Drained \/ GraceOver \/ CloseDatabase
  BY <1>5 DEF Signal, Drained, GraceOver, CloseDatabase, Active, post
<1>6. CASE CloseMailer
  BY <1>6 DEF CloseMailer, Mail!Close
<1>7. CASE MailerClosed
  BY <1>7 DEF MailerClosed, Mail!CloseReturns, process
<1>8. CASE Restart
  BY <1>8 DEF Restart
<1>9. CASE UNCHANGED vars
  BY <1>9 DEF vars, post, process
<1>. QED
  BY <1>1, <1>2, <1>3, <1>4, <1>5, <1>6, <1>7, <1>8, <1>9
  DEF Next, Housekeeping, Shutdown

\* The phases of the shutdown follow their order in every behaviour.
LEMMA OrderAlways == Spec => []OrderInv
<1>1. Init => OrderInv
  BY DEF Init, OrderInv, Mail!Init
<1>. QED
  BY <1>1, OrderStep, ServerTypeCorrect, PTL DEF Spec

\* No delivery, callback or housekeeping is left when the database closes.
THEOREM DatabaseAlwaysLast == Spec => []DatabaseClosesLast
<1>1. OrderInv => DatabaseClosesLast
  BY DEF OrderInv, DatabaseClosesLast, DatabaseOpen
<1>. QED
  BY <1>1, OrderAlways, PTL

\* Only a handler that outstayed the grace period can find the mailer closed.
THEOREM OnlyOverstayedDropped == Spec => []DropsOnlyOverstayed
<1>1. OrderInv => DropsOnlyOverstayed
  BY DEF OrderInv, DropsOnlyOverstayed, Active
<1>. QED
  BY <1>1, OrderAlways, PTL
-----------------------------------------------------------------------------
(* Silences                                                                *)

\* muted does not outlast the silence, and a handler that was muted when it
\* asked can only have been told otherwise by a closed database.
MutedInv ==
  \A h \in Handlers :
    request[h].pc # "idle" /\ request[h].muted =>
      /\ Covered(request[h].fp)
      /\ request[h].pc = "unsilenced" => mailer # "open"

\* Whoever is still muted after a step of another handler is still covered.
LEMMA StillCovered ==
  ASSUME SilencesTyped, RequestsTyped, NEW h \in Handlers, Handle(h),
         NEW g \in Handlers \ {h}, request'[g].muted, Covered(request[g].fp)
  PROVE  request[g].fp \in InForce(silences', clock')
<1>1. clock' = clock
  BY HandlerFrame
<1>2. CASE Unsilence(h)
  <2>. DEFINE reqs == [request EXCEPT ![h] = NoRequest]
  <2>1. KeepMuted(reqs)
    BY <1>2 DEF Unsilence
  <2>2. reqs \in [Handlers -> Request] /\ reqs[g].fp = request[g].fp
    BY NoRequestTyped DEF RequestsTyped
  <2>. HIDE DEF reqs
  <2>. QED
    BY <2>1, <2>2, Muted
<1>3. CASE Silence(h)
  <2>1. PICK e \in Expiries :
          silences' = [silences EXCEPT ![request[h].fp] = silences[request[h].fp] \cup {e}]
    BY <1>3 DEF Silence
  <2>2. \A f \in Fingerprints : silences[f] \subseteq silences'[f]
    BY <2>1 DEF SilencesTyped
  <2>. QED
    BY <1>1, <2>2 DEF Covered, InForce
<1>4. CASE ~Silence(h) /\ ~Unsilence(h)
  <2>1. UNCHANGED silences
    BY <1>4 DEF Handle, Accept, StoreEvent, CheckSilence, NotifyNewError, Resolve, Fail
  <2>. QED
    BY <1>1, <2>1 DEF Covered
<1>. QED
  BY <1>2, <1>3, <1>4

\* MutedInv is inductive: a silence seen from the start is seen by the check,
\* unless the database is closed and the mailer with it.
LEMMA MutedStep ==
  ASSUME TypeOK, OrderInv, MutedInv, [Next]_vars
  PROVE  MutedInv'
<1>. USE DEF MutedInv
<1>1. ASSUME NEW h \in Handlers, Handle(h)
      PROVE  MutedInv'
  <2>1. UNCHANGED <<clock, mailer>>
    BY <1>1, TypeParts, HandlerFrame DEF post, Mail!LetThrough
  <2>2. Others(h) /\ (Begins(h) \/ Ends(h) \/ Advances(h))
    BY <1>1, TypeParts, HandlerSteps
  <2>3. SUFFICES ASSUME NEW g \in Handlers, request'[g].pc # "idle", request'[g].muted
                 PROVE  /\ request'[g].fp \in InForce(silences', clock')
                        /\ request'[g].pc = "unsilenced" => mailer' # "open"
    BY DEF Covered
  <2>4. CASE g # h
    <3>1. /\ request[g].pc = request'[g].pc /\ request[g].fp = request'[g].fp
          /\ request[g].muted
      BY <2>2, <2>3, <2>4 DEF Others
    <3>2. Covered(request[g].fp) /\ (request[g].pc = "unsilenced" => mailer # "open")
      BY <2>3, <3>1
    <3>3. request[g].fp \in InForce(silences', clock')
      BY <1>1, <2>3, <2>4, <3>2, TypeParts, StillCovered
    <3>. QED
      BY <2>1, <3>1, <3>2, <3>3 DEF Covered
  <2>5. CASE g = h /\ Begins(h)
    BY <2>1, <2>3, <2>5 DEF Begins, Covered
  <2>6. CASE g = h /\ Ends(h)
    BY <2>3, <2>6 DEF Ends, NoRequest
  <2>7. CASE g = h /\ Advances(h)
    <3>1. request[h].pc # "idle" /\ request[h].muted /\ request'[h].fp = request[h].fp
      BY <2>3, <2>7 DEF Advances
    <3>2. Covered(request[h].fp) /\ request'[h].fp \in InForce(silences', clock')
      BY <2>1, <2>7, <3>1 DEF Advances, Covered
    <3>3. request'[h].pc = "unsilenced" => server = "down"
      BY <2>7, <3>2 DEF Advances, IsSilenced, DatabaseOpen
    <3>. QED
      BY <2>1, <2>7, <3>2, <3>3 DEF OrderInv
  <2>. QED
    BY <2>2, <2>4, <2>5, <2>6, <2>7
<1>2. CASE PruneSilences \/ Tick
  <2>1. /\ request \in [Handlers -> Request] /\ KeepMuted(request)
        /\ UNCHANGED post
    BY <1>2, TypeParts DEF PruneSilences, Tick, RequestsTyped
  <2>2. \A h \in Handlers :
          /\ request'[h].pc = request[h].pc
          /\ request'[h].fp = request[h].fp
          /\ request'[h].muted <=>
               request[h].muted /\ request[h].fp \in InForce(silences', clock')
    BY <2>1, Muted
  <2>. QED
    BY <2>1, <2>2 DEF Covered, post
<1>3. ASSUME UNCHANGED <<request, silences, clock>>, mailer # "open" => mailer' # "open"
      PROVE  MutedInv'
  BY <1>3 DEF Covered
<1>4. CASE AutoResolve \/ MailSummary \/ ChoresStop
  BY <1>3, <1>4 DEF AutoResolve, MailSummary, ChoresStop, post
<1>5. CASE Deliver
  BY <1>3, <1>5 DEF Deliver, Attempt, MarkNotified, Mail!Attempt, Mail!Mark, process
<1>6. CASE Signal \/ Drained \/ GraceOver \/ CloseDatabase
  BY <1>3, <1>6 DEF Signal, Drained, GraceOver, CloseDatabase, post
<1>7. CASE CloseMailer \/ MailerClosed
  BY <1>3, <1>7 DEF CloseMailer, MailerClosed, Mail!Close, Mail!CloseReturns, process
<1>8. CASE Restart
  BY <1>8 DEF Restart, NoRequest
<1>9. CASE UNCHANGED vars
  BY <1>3, <1>9 DEF vars, post, process
<1>. QED
  BY <1>1, <1>2, <1>4, <1>5, <1>6, <1>7, <1>8, <1>9 DEF Next, Housekeeping, Shutdown

\* A request whose group is silenced throughout never reaches an open mailer.
THEOREM SilencedNeverLetThrough == Spec => []SilencedNotLetThrough
<1>1. Init => MutedInv
  BY DEF Init, MutedInv, NoRequest
<1>2. Spec => []MutedInv
  BY <1>1, MutedStep, OrderAlways, ServerTypeCorrect, PTL DEF Spec
<1>3. MutedInv => SilencedNotLetThrough
  BY DEF MutedInv, SilencedNotLetThrough
<1>. QED
  BY <1>2, <1>3, PTL

\* Neither pruning, a restart nor a request about another group lifts a
\* silence that is in force.
THEOREM SilencesLast == Spec => SilencesEndOnlyOnRequest
<1>. DEFINE Lifted(f) == Covered(f) /\ f \notin InForce(silences', clock)
            Asked(f) == \E h \in Handlers : request[h].fp = f /\ request'[h].pc = "idle"
<1>1. ASSUME TypeOK, [Next]_vars, NEW f \in Fingerprints, Lifted(f)
      PROVE  Asked(f)
  <2>1. silences' # silences
    BY <1>1 DEF Covered
  <2>2. ASSUME NEW h \in Handlers, Handle(h)
        PROVE  Asked(f)
    <3>1. /\ Begins(h) \/ Ends(h) \/ Advances(h)
          /\ f # request[h].fp => silences'[f] = silences[f]
      BY <2>2, <1>1, TypeParts, HandlerSteps
    <3>2. Ends(h)
      BY <2>1, <3>1 DEF Begins, Advances
    <3>3. f = request[h].fp
      BY <1>1, <3>1 DEF Covered, InForce
    <3>. QED
      BY <3>2, <3>3 DEF Ends, NoRequest
  <2>3. CASE PruneSilences
    <3>1. silences'[f] = silences[f] \ Expired(f)
      BY <2>1, <2>3 DEF PruneSilences
    <3>2. PICK e \in silences[f] : e > clock
      BY <1>1 DEF Covered, InForce
    <3>3. e \in Nat /\ clock \in Nat
      BY <1>1, TypeParts DEF SilencesTyped, Expiries, Forever
    <3>4. e \in silences'[f]
      BY <3>1, <3>2, <3>3 DEF Expired
    <3>. QED
      BY <1>1, <3>2, <3>4 DEF InForce
  <2>4. UNCHANGED silences \/ PruneSilences \/ \E h \in Handlers : Handle(h)
    BY <1>1 DEF Next, Housekeeping, AutoResolve, MailSummary, ChoresStop, Deliver, Attempt,
                MarkNotified, Shutdown, Signal, Drained, GraceOver, CloseMailer,
                MailerClosed, CloseDatabase, Restart, Tick, vars
  <2>. QED
    BY <2>1, <2>2, <2>3, <2>4
<1>2. TypeOK /\ [Next]_vars => [\A f \in Fingerprints : Lifted(f) => Asked(f)]_vars
  BY <1>1
<1>. QED
  BY <1>2, ServerTypeCorrect, PTL DEF Spec, SilencesEndOnlyOnRequest
=============================================================================
