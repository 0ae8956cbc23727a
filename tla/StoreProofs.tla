----------------------------- MODULE StoreProofs -----------------------------
(***************************************************************************)
(* Theorems about Store, for any number of groups, handlers and            *)
(* connections and for any of its bounds.                                  *)
(***************************************************************************)
EXTENDS Store, TLAPS

USE StoreAssumption DEF Callers, Statuses

\* A commit elsewhere touches nothing of a running call but its stale flag.
LEMMA OutdatedTx ==
  ASSUME NEW t \in Tx
  PROVE  /\ Outdated(t) \in Tx
         /\ Outdated(t).op = t.op /\ Outdated(t).pc = t.pc
         /\ Outdated(t).fp = t.fp /\ Outdated(t).now = t.now
         /\ Outdated(t).was = t.was /\ Outdated(t).list = t.list
         /\ t.pc = "read" => Outdated(t).stale
         /\ t.pc # "read" => Outdated(t).stale = t.stale
<1>1. CASE t.pc = "read"
  BY <1>1 DEF Outdated, Tx
<1>2. CASE t.pc # "read"
  BY <1>2 DEF Outdated, Tx
<1>. QED
  BY <1>1, <1>2

\* The record of a caller without a Store call is well formed.
LEMMA IdleTx == Idle \in Tx
BY DEF Idle, Tx

\* The type of tx, with the fingerprint that single-group operations carry.
TxTypeOK ==
  /\ tx \in [Callers -> Tx]
  /\ \A c \in Callers : tx[c].op \in {"StoreEvent", "Resolve"} => tx[c].fp # None

\* Ending a call keeps the calls well formed.
LEMMA FinishType ==
  ASSUME TxTypeOK, NEW c \in Callers, Finish(c)
  PROVE  TxTypeOK'
BY IdleTx DEF TxTypeOK, Finish, Idle

\* A commit, which outdates the other snapshots, keeps the calls well formed.
LEMMA FinishAndOutdateType ==
  ASSUME TxTypeOK, NEW c \in Callers, FinishAndOutdate(c)
  PROVE  TxTypeOK'
<1>1. \A d \in Callers : tx'[d] = IF d = c THEN Idle ELSE Outdated(tx[d])
  BY DEF FinishAndOutdate
<1>2. \A d \in Callers : Outdated(tx[d]) \in Tx /\ Outdated(tx[d]).op = tx[d].op
                         /\ Outdated(tx[d]).fp = tx[d].fp
  BY OutdatedTx DEF TxTypeOK
<1>3. tx' \in [Callers -> Tx]
  BY <1>2, IdleTx DEF FinishAndOutdate
<1>. QED
  BY <1>1, <1>2, <1>3 DEF TxTypeOK, Idle

\* A single-statement write outdates every snapshot and keeps them well formed.
LEMMA OutdateAllType ==
  ASSUME TxTypeOK, OutdateAll
  PROVE  TxTypeOK'
<1>1. \A d \in Callers : tx'[d] = Outdated(tx[d])
  BY DEF OutdateAll
<1>2. \A d \in Callers : Outdated(tx[d]) \in Tx /\ Outdated(tx[d]).op = tx[d].op
                         /\ Outdated(tx[d]).fp = tx[d].fp
  BY OutdatedTx DEF TxTypeOK
<1>. QED
  BY <1>1, <1>2 DEF TxTypeOK, OutdateAll

\* Beginning a call keeps the calls well formed.
LEMMA CallType ==
  ASSUME TypeOK, NEW c \in Callers,
         NEW op \in {"StoreEvent", "Resolve", "AutoResolve"},
         NEW f \in Fingerprints \cup {None},
         op # "AutoResolve" => f # None,
         Call(c, op, f)
  PROVE  TypeOK'
<1>1. [Idle EXCEPT !.op = op, !.pc = "called", !.fp = f, !.now = clock] \in Tx
  BY DEF Idle, Tx, TypeOK
<1>2. TxTypeOK'
  BY <1>1 DEF TxTypeOK, Call, TypeOK, Idle
<1>. QED
  BY <1>2 DEF TxTypeOK, Call, TypeOK

\* Pinning a snapshot keeps the calls well formed.
LEMMA SelectType ==
  ASSUME TypeOK, NEW c \in Callers, NEW op, NEW was \in Statuses,
         NEW list \in SUBSET Fingerprints, Select(c, op, was, list)
  PROVE  TypeOK'
<1>. DEFINE new == [tx[c] EXCEPT !.pc = "read", !.was = was, !.list = list]
<1>1. tx[c] \in Tx
  BY DEF TypeOK
<1>2. new \in Tx /\ new.op = tx[c].op /\ new.fp = tx[c].fp
  BY <1>1 DEF Tx
<1>3. tx' = [tx EXCEPT ![c] = new]
  BY DEF Select
<1>4. TxTypeOK'
  BY <1>2, <1>3 DEF TxTypeOK, TypeOK
<1>. QED
  BY <1>4 DEF TxTypeOK, Select, TypeOK

\* Resolving a set of groups keeps rows and history well formed.
LEMMA MarkResolvedType ==
  ASSUME TypeOK, NEW S, NEW heard, MarkResolved(S, heard)
  PROVE  /\ errors' \in [Fingerprints -> Row]
         /\ told' \in [Fingerprints -> Told]
         /\ UNCHANGED <<clock, occurrences>>
<1>1. \A f \in Fingerprints : [errors[f] EXCEPT !.status = "resolved"] \in Row
  BY DEF TypeOK, Row
<1>2. ASSUME NEW f \in Fingerprints, NEW x \in Nat, NEW y \in Nat
      PROVE  [told[f] EXCEPT !.resolved = x, !.announced = y] \in Told
  BY DEF TypeOK, Told
<1>3. \A f \in Fingerprints : told[f].resolved \in Nat /\ told[f].announced \in Nat
  BY DEF TypeOK, Told
<1>4. errors' \in [Fingerprints -> Row]
  BY <1>1 DEF MarkResolved, TypeOK
<1>5. told' \in [Fingerprints -> Told]
  <2>1. ASSUME NEW f \in Fingerprints
        PROVE  [told[f] EXCEPT
                  !.resolved = IF f \in S THEN told[f].resolved + 1 ELSE told[f].resolved,
                  !.announced = IF f \in heard THEN told[f].announced + 1 ELSE told[f].announced]
               \in Told
    <3>. DEFINE x == IF f \in S THEN told[f].resolved + 1 ELSE told[f].resolved
                y == IF f \in heard THEN told[f].announced + 1 ELSE told[f].announced
    <3>1. x \in Nat /\ y \in Nat
      BY <1>3
    <3>. HIDE DEF x, y
    <3>2. [told[f] EXCEPT !.resolved = x, !.announced = y] \in Told
      BY <1>2, <3>1
    <3>. QED
      BY <3>2 DEF x, y
  <2>. QED
    BY <2>1 DEF MarkResolved
<1>. QED
  BY <1>4, <1>5 DEF MarkResolved

\* Committing an event keeps rows, occurrences and history well formed.
LEMMA StoreEventCommitType ==
  ASSUME TypeOK, NEW c \in Callers, StoreEventCommit(c)
  PROVE  TypeOK'
<1>. DEFINE f == tx[c].fp
            now == tx[c].now
<1>1. tx[c] \in Tx /\ f \in Fingerprints /\ now \in Nat
  BY DEF TypeOK, Tx, StoreEventCommit
<1>2. errors[f] \in Row /\ told[f] \in Told
  BY <1>1 DEF TypeOK
<1>3. Upserted(errors[f], now) \in Row
  BY <1>1, <1>2 DEF Upserted, Row
<1>4. errors' \in [Fingerprints -> Row]
  BY <1>3 DEF TypeOK, StoreEventCommit
<1>5. occurrences' \in [Fingerprints -> SUBSET Nat]
  BY <1>1 DEF TypeOK, StoreEventCommit
<1>6. Stored(told[f], tx[c].was, now) \in Told
  <2>. DEFINE x == IF tx[c].was = "absent" THEN told[f].new + 1 ELSE told[f].new
              y == IF tx[c].was = "resolved" THEN told[f].regression + 1
                                             ELSE told[f].regression
              z == IF told[f].latest < now THEN now ELSE told[f].latest
  <2>1. x \in Nat /\ y \in Nat /\ z \in Nat
    BY <1>1, <1>2 DEF Told
  <2>2. Stored(told[f], tx[c].was, now) =
          [told[f] EXCEPT !.new = x, !.regression = y, !.latest = z]
    BY DEF Stored
  <2>. HIDE DEF x, y, z
  <2>. QED
    BY <1>2, <2>1, <2>2 DEF Told
<1>7. told' \in [Fingerprints -> Told]
  BY <1>6 DEF StoreEventCommit, TypeOK
<1>8. TxTypeOK'
  BY FinishAndOutdateType DEF TypeOK, TxTypeOK, StoreEventCommit
<1>. QED
  BY <1>4, <1>5, <1>7, <1>8 DEF TypeOK, TxTypeOK, StoreEventCommit

\* Every variable keeps its type in every reachable state.
THEOREM TypeCorrect == Spec => []TypeOK
<1>1. Init => TypeOK
  BY DEF Init, TypeOK, Row, NoRow, Tx, Idle, Told
<1>2. TypeOK /\ [Next]_vars => TypeOK'
  <2> SUFFICES ASSUME TypeOK, [Next]_vars PROVE TypeOK'
    OBVIOUS
  <2>0. TxTypeOK
    BY DEF TypeOK, TxTypeOK
  <2>1. ASSUME NEW c \in Handlers, NEW f \in Fingerprints, StoreEventCall(c, f)
        PROVE TypeOK'
    BY <2>1, CallType DEF StoreEventCall
  <2>2. ASSUME NEW c \in Handlers, NEW f \in Fingerprints, ResolveCall(c, f)
        PROVE TypeOK'
    BY <2>2, CallType DEF ResolveCall
  <2>3. CASE AutoResolveCall(Maintenance)
    BY <2>3, CallType DEF AutoResolveCall
  <2>4. ASSUME NEW c \in Callers, StoreEventSelect(c)
        PROVE TypeOK'
    <3>1. tx[c].op = "StoreEvent" /\ tx[c] \in Tx
      BY <2>4 DEF StoreEventSelect, Select, TypeOK
    <3>2. tx[c].fp \in Fingerprints
      BY <3>1 DEF TypeOK, Tx
    <3>3. errors[tx[c].fp].status \in Statuses
      BY <3>2 DEF TypeOK, Row
    <3>. QED
      BY <2>4, <3>3, SelectType DEF StoreEventSelect
  <2>5. ASSUME NEW c \in Callers, StoreEventCommit(c)
        PROVE TypeOK'
    BY <2>5, StoreEventCommitType
  <2>6. ASSUME NEW c \in Callers, ResolveSelect(c)
        PROVE TypeOK'
    <3>1. tx[c].op = "Resolve" /\ tx[c] \in Tx
      BY <2>6 DEF ResolveSelect, Select, TypeOK
    <3>2. {f \in {tx[c].fp} : errors[f].status = "open"} \in SUBSET Fingerprints
      BY <3>1 DEF TypeOK, Tx
    <3>. QED
      BY <2>6, <3>2, SelectType DEF ResolveSelect
  <2>7. ASSUME NEW c \in Callers, ResolveNothing(c)
        PROVE TypeOK'
    BY <2>0, <2>7, FinishType DEF ResolveNothing, TypeOK, TxTypeOK
  <2>8. ASSUME NEW c \in Callers, ResolveCommit(c)
        PROVE TypeOK'
    BY <2>0, <2>8, FinishAndOutdateType, MarkResolvedType
    DEF ResolveCommit, TypeOK, TxTypeOK
  <2>9. ASSUME NEW c \in Callers, AutoResolveSelect(c)
        PROVE TypeOK'
    <3>1. {f \in Unseen(tx[c].now) : errors[f].notified} \in SUBSET Fingerprints
      BY DEF Unseen
    <3>. QED
      BY <2>9, <3>1, SelectType DEF AutoResolveSelect
  <2>10. ASSUME NEW c \in Callers, AutoResolveCommit(c)
         PROVE TypeOK'
    <3>1. TxTypeOK'
      BY <2>0, <2>10, FinishType, FinishAndOutdateType DEF AutoResolveCommit
    <3>. QED
      BY <3>1, <2>10, MarkResolvedType DEF AutoResolveCommit, TypeOK, TxTypeOK
  <2>11. ASSUME NEW c \in Callers, Upgrade(c)
         PROVE TypeOK'
    <3>1. tx[c] \in Tx
      BY DEF TypeOK
    <3>2. [tx[c] EXCEPT !.pc = "write"] \in Tx
      BY <3>1 DEF Tx
    <3>. QED
      BY <2>11, <3>1, <3>2 DEF Upgrade, TypeOK, Tx
  <2>12. ASSUME NEW c \in Callers, Abort(c)
         PROVE TypeOK'
    BY <2>0, <2>12, FinishType DEF Abort, TypeOK, TxTypeOK
  <2>13. ASSUME NEW f \in Fingerprints, MarkNotified(f)
         PROVE TypeOK'
    <3>1. [errors[f] EXCEPT !.notified = TRUE] \in Row
      BY DEF TypeOK, Row
    <3>. QED
      BY <2>0, <2>13, <3>1, OutdateAllType DEF MarkNotified, TypeOK, TxTypeOK
  <2>14. ASSUME NEW t \in 0 .. MaxTime + 1, GCOccurrences(t)
         PROVE TypeOK'
    <3>1. occurrences' \in [Fingerprints -> SUBSET Nat]
      BY <2>14 DEF GCOccurrences, TypeOK
    <3>. QED
      BY <2>0, <2>14, <3>1, OutdateAllType DEF GCOccurrences, TypeOK, TxTypeOK
  <2>15. CASE Tick
    BY <2>15 DEF Tick, TypeOK
  <2>16. CASE UNCHANGED vars
    BY <2>16 DEF vars, TypeOK
  <2>. QED
    BY <2>1, <2>2, <2>3, <2>4, <2>5, <2>6, <2>7, <2>8, <2>9, <2>10, <2>11,
       <2>12, <2>13, <2>14, <2>15, <2>16
    DEF Next, StoreEvent, Resolve, AutoResolve
<1>. QED
  BY <1>1, <1>2, PTL DEF Spec
-----------------------------------------------------------------------------
(* The inductive invariant.  EachChangeToldOnce alone is not inductive: that  *)
(* a commit tells the truth depends on the snapshot it decided on still being *)
(* current, which in turn depends on there being one writer at a time.        *)

SnapshotInv == TypeOK /\ OneWriter /\ CommitsSeeTheTruth
ToldInv == EachChangeToldOnce /\ AnnouncedWasResolved

\* A call that neither commits nor takes the lock leaves the invariant alone,
\* provided its new snapshot, if any, is true.
LEMMA PrivateStep ==
  ASSUME SnapshotInv, NEW c \in Callers, NEW t \in Tx,
         tx' = [tx EXCEPT ![c] = t], errors' = errors,
         t.pc = "write" => WriteLockFree,
         MayCommit(t) => SawTheTruth(t)
  PROVE  OneWriter' /\ CommitsSeeTheTruth'
<1>. USE DEF SnapshotInv
<1>1. \A d \in Callers : tx'[d] = IF d = c THEN t ELSE tx[d]
  BY DEF TypeOK
<1>2. OneWriter'
  BY <1>1 DEF OneWriter, WriteLockFree
<1>3. ASSUME NEW d \in Callers, MayCommit(tx'[d])
      PROVE  SawTheTruth(tx'[d])
  BY <1>1, <1>3 DEF CommitsSeeTheTruth
<1>4. ASSUME NEW d \in Callers
      PROVE  SawTheTruth(tx'[d]) => SawTheTruth(tx[d])'
  BY DEF SawTheTruth, Unseen
<1>. QED
  BY <1>2, <1>3, <1>4 DEF CommitsSeeTheTruth, MayCommit

\* After a commit by the only writer, or a statement run while there is none,
\* every other snapshot is outdated: nothing is left to be true.
LEMMA OutdatingStep ==
  ASSUME SnapshotInv,
         \/ OutdateAll /\ WriteLockFree
         \/ \E c \in Callers : tx[c].pc = "write" /\ FinishAndOutdate(c)
  PROVE  OneWriter' /\ CommitsSeeTheTruth'
<1>. USE DEF SnapshotInv
<1>1. ASSUME NEW d \in Callers
      PROVE  tx'[d].pc # "write" /\ ~MayCommit(tx'[d])
  <2>1. tx[d] \in Tx
    BY DEF TypeOK
  <2>2. CASE OutdateAll /\ WriteLockFree
    BY <2>1, <2>2, OutdatedTx DEF OutdateAll, WriteLockFree, MayCommit
  <2>3. CASE \E c \in Callers : tx[c].pc = "write" /\ FinishAndOutdate(c)
    <3>1. PICK c \in Callers : tx[c].pc = "write" /\ FinishAndOutdate(c)
      BY <2>3
    <3>2. tx'[d] = IF d = c THEN Idle ELSE Outdated(tx[d])
      BY <3>1 DEF FinishAndOutdate
    <3>3. CASE d = c
      BY <3>2, <3>3 DEF Idle, MayCommit
    <3>4. CASE d # c
      <4>1. tx[d].pc # "write"
        BY <3>1, <3>4 DEF OneWriter
      <4>. QED
        BY <2>1, <3>2, <3>4, <4>1, OutdatedTx DEF MayCommit
    <3>. QED
      BY <3>3, <3>4
  <2>. QED
    BY <2>2, <2>3
<1>. QED
  BY <1>1 DEF OneWriter, CommitsSeeTheTruth, MayCommit

\* SnapshotInv is inductive: a commit leaves a snapshot's rows alone or outdates
\* the snapshot.
LEMMA SnapshotStep == SnapshotInv /\ TypeOK' /\ [Next]_vars => OneWriter' /\ CommitsSeeTheTruth'
<1> SUFFICES ASSUME SnapshotInv, TypeOK', [Next]_vars
             PROVE  OneWriter' /\ CommitsSeeTheTruth'
  OBVIOUS
<1>0. \A c \in Callers : tx[c] \in Tx /\ tx'[c] \in Tx
  BY DEF SnapshotInv, TypeOK
<1>1. ASSUME NEW c \in Callers, NEW op \in {"StoreEvent", "Resolve", "AutoResolve"},
             NEW f \in Fingerprints \cup {None}, Call(c, op, f)
      PROVE  OneWriter' /\ CommitsSeeTheTruth'
  <2>. DEFINE t == [Idle EXCEPT !.op = op, !.pc = "called", !.fp = f, !.now = clock]
  <2>1. t \in Tx /\ t.pc = "called"
    BY DEF Idle, Tx, SnapshotInv, TypeOK
  <2>2. ~MayCommit(t)
    BY <2>1 DEF MayCommit
  <2>. HIDE DEF t
  <2>3. tx' = [tx EXCEPT ![c] = t] /\ errors' = errors
    BY <1>1 DEF Call, t
  <2>. QED
    BY <2>1, <2>2, <2>3, PrivateStep
<1>2. ASSUME NEW c \in Callers, NEW op, NEW was \in Statuses,
             NEW list \in SUBSET Fingerprints, Select(c, op, was, list),
             op = "StoreEvent" => was = errors[tx[c].fp].status,
             op = "Resolve" => list = {f \in {tx[c].fp} : errors[f].status = "open"},
             op = "AutoResolve" => list = {f \in Unseen(tx[c].now) : errors[f].notified}
      PROVE  OneWriter' /\ CommitsSeeTheTruth'
  <2>. DEFINE t == [tx[c] EXCEPT !.pc = "read", !.was = was, !.list = list]
  <2>1. /\ t \in Tx /\ t.pc = "read" /\ t.op = op
        /\ t.was = was /\ t.list = list /\ t.fp = tx[c].fp /\ t.now = tx[c].now
    <3>1. tx[c].op = op
      BY <1>2 DEF Select
    <3>2. t \in Tx /\ t.pc = "read" /\ t.op = tx[c].op
          /\ t.was = was /\ t.list = list /\ t.fp = tx[c].fp /\ t.now = tx[c].now
      BY <1>0 DEF Tx
    <3>. QED
      BY <3>1, <3>2
  <2>. HIDE DEF t
  <2>2. SawTheTruth(t)
    BY <1>2, <2>1 DEF SawTheTruth
  <2>3. tx' = [tx EXCEPT ![c] = t] /\ errors' = errors
    BY <1>2 DEF Select, t
  <2>. QED
    BY <2>1, <2>2, <2>3, PrivateStep
<1>3. ASSUME NEW c \in Callers, Finish(c), errors' = errors
      PROVE  OneWriter' /\ CommitsSeeTheTruth'
  BY <1>3, PrivateStep, IdleTx DEF Finish, MayCommit, Idle
<1>4. ASSUME NEW c \in Handlers, NEW f \in Fingerprints, StoreEventCall(c, f)
      PROVE  OneWriter' /\ CommitsSeeTheTruth'
  BY <1>1, <1>4 DEF StoreEventCall
<1>5. ASSUME NEW c \in Handlers, NEW f \in Fingerprints, ResolveCall(c, f)
      PROVE  OneWriter' /\ CommitsSeeTheTruth'
  BY <1>1, <1>5 DEF ResolveCall
<1>6. CASE AutoResolveCall(Maintenance)
  BY <1>1, <1>6 DEF AutoResolveCall
<1>7. ASSUME NEW c \in Callers, StoreEventSelect(c)
      PROVE  OneWriter' /\ CommitsSeeTheTruth'
  <2>1. tx[c].fp \in Fingerprints
    <3>1. tx[c].op = "StoreEvent"
      BY <1>7 DEF StoreEventSelect, Select
    <3>. QED
      BY <1>0, <3>1 DEF SnapshotInv, TypeOK, Tx
  <2>2. errors[tx[c].fp].status \in Statuses
    BY <2>1 DEF SnapshotInv, TypeOK, Row
  <2>. QED
    BY <1>2, <1>7, <2>2 DEF StoreEventSelect
<1>8. ASSUME NEW c \in Callers, ResolveSelect(c)
      PROVE  OneWriter' /\ CommitsSeeTheTruth'
  <2>1. tx[c].fp \in Fingerprints
    <3>1. tx[c].op = "Resolve"
      BY <1>8 DEF ResolveSelect, Select
    <3>. QED
      BY <1>0, <3>1 DEF SnapshotInv, TypeOK, Tx
  <2>. QED
    BY <1>2, <1>8, <2>1 DEF ResolveSelect
<1>9. ASSUME NEW c \in Callers, AutoResolveSelect(c)
      PROVE  OneWriter' /\ CommitsSeeTheTruth'
  <2>1. {f \in Unseen(tx[c].now) : errors[f].notified} \in SUBSET Fingerprints
    BY DEF Unseen
  <2>. QED
    BY <1>2, <1>9, <2>1 DEF AutoResolveSelect
<1>10. ASSUME NEW c \in Callers, Upgrade(c)
       PROVE  OneWriter' /\ CommitsSeeTheTruth'
  <2>. DEFINE t == [tx[c] EXCEPT !.pc = "write"]
  <2>1. /\ t \in Tx /\ t.op = tx[c].op /\ t.was = tx[c].was
        /\ t.list = tx[c].list /\ t.fp = tx[c].fp /\ t.now = tx[c].now
    BY <1>0 DEF Tx
  <2>. HIDE DEF t
  <2>2. SawTheTruth(tx[c])
    BY <1>10 DEF Upgrade, MayCommit, SnapshotInv, CommitsSeeTheTruth
  <2>3. SawTheTruth(t)
    BY <2>1, <2>2 DEF SawTheTruth
  <2>4. tx' = [tx EXCEPT ![c] = t] /\ errors' = errors /\ WriteLockFree
    BY <1>10 DEF Upgrade, t
  <2>. QED
    BY <2>1, <2>3, <2>4, PrivateStep
<1>11. ASSUME NEW c \in Callers, Abort(c) \/ ResolveNothing(c)
       PROVE  OneWriter' /\ CommitsSeeTheTruth'
  BY <1>3, <1>11 DEF Abort, ResolveNothing
<1>12. ASSUME NEW c \in Callers, StoreEventCommit(c) \/ ResolveCommit(c)
       PROVE  OneWriter' /\ CommitsSeeTheTruth'
  BY <1>12, OutdatingStep DEF StoreEventCommit, ResolveCommit
<1>13. ASSUME NEW c \in Callers, AutoResolveCommit(c)
       PROVE  OneWriter' /\ CommitsSeeTheTruth'
  <2>1. CASE Unseen(tx[c].now) = {}
    <3>1. errors' = errors
      BY <1>13, <2>1 DEF AutoResolveCommit, MarkResolved, SnapshotInv, TypeOK
    <3>. QED
      BY <1>3, <1>13, <2>1, <3>1 DEF AutoResolveCommit
  <2>2. CASE Unseen(tx[c].now) # {}
    BY <1>13, <2>2, OutdatingStep DEF AutoResolveCommit
  <2>. QED
    BY <2>1, <2>2
<1>14. ASSUME NEW f \in Fingerprints, MarkNotified(f)
       PROVE  OneWriter' /\ CommitsSeeTheTruth'
  BY <1>14, OutdatingStep DEF MarkNotified, Statement
<1>15. ASSUME NEW t \in 0 .. MaxTime + 1, GCOccurrences(t)
       PROVE  OneWriter' /\ CommitsSeeTheTruth'
  BY <1>15, OutdatingStep DEF GCOccurrences, Statement
<1>16. CASE Tick \/ UNCHANGED vars
  BY <1>16 DEF Tick, vars, SnapshotInv, OneWriter, CommitsSeeTheTruth, MayCommit,
     SawTheTruth, Unseen
<1>. QED
  BY <1>4, <1>5, <1>6, <1>7, <1>8, <1>9, <1>10, <1>11, <1>12, <1>13, <1>14,
     <1>15, <1>16
  DEF Next, StoreEvent, Resolve, AutoResolve

\* What any transaction may still commit was decided on the rows it changes.
THEOREM SnapshotsHold == Spec => [](OneWriter /\ CommitsSeeTheTruth)
<1>1. Init => OneWriter /\ CommitsSeeTheTruth
  BY DEF Init, Idle, OneWriter, CommitsSeeTheTruth, MayCommit
<1>2. TypeOK /\ TypeOK' /\ OneWriter /\ CommitsSeeTheTruth /\ [Next]_vars
        => OneWriter' /\ CommitsSeeTheTruth'
  BY SnapshotStep DEF SnapshotInv
<1>. QED
  BY <1>1, <1>2, TypeCorrect, PTL DEF Spec
-----------------------------------------------------------------------------
(* What callers are told.                                                   *)

\* The two commits of a resolver, and what their list is.
LEMMA ResolverCommit ==
  ASSUME SnapshotInv, NEW c \in Callers, ResolveCommit(c) \/ AutoResolveCommit(c)
  PROVE  \E S \in SUBSET Fingerprints :
           /\ MarkResolved(S, tx[c].list)
           /\ \A f \in S : errors[f].status = "open"
           /\ tx[c].list = IF tx[c].op = "Resolve"
                           THEN S ELSE {f \in S : errors[f].notified}
<1>1. MayCommit(tx[c]) /\ tx[c] \in Tx
  BY DEF ResolveCommit, AutoResolveCommit, MayCommit, SnapshotInv, TypeOK
<1>2. SawTheTruth(tx[c])
  BY <1>1 DEF SnapshotInv, CommitsSeeTheTruth
<1>3. CASE ResolveCommit(c)
  <2>. DEFINE S == {f \in {tx[c].fp} : errors[f].status = "open"}
  <2>1. MarkResolved(S, tx[c].list) /\ tx[c].op = "Resolve"
    BY <1>3 DEF ResolveCommit
  <2>2. S \in SUBSET Fingerprints
    BY <1>1, <2>1 DEF SnapshotInv, TypeOK, Tx
  <2>3. tx[c].list = S
    BY <1>2, <2>1 DEF SawTheTruth
  <2>. QED
    BY <2>1, <2>2, <2>3
<1>4. CASE AutoResolveCommit(c)
  <2>. DEFINE S == Unseen(tx[c].now)
  <2>1. MarkResolved(S, tx[c].list) /\ tx[c].op = "AutoResolve"
    BY <1>4 DEF AutoResolveCommit
  <2>2. S \in SUBSET Fingerprints /\ \A f \in S : errors[f].status = "open"
    BY DEF Unseen
  <2>3. tx[c].list = {f \in S : errors[f].notified}
    BY <1>2, <2>1 DEF SawTheTruth
  <2>. QED
    BY <2>1, <2>2, <2>3
<1>. QED
  BY <1>3, <1>4

\* Every step commits an event, marks a set of groups resolved, records one
\* notification, or leaves groups and history as they are.
LEMMA StepKinds ==
  ASSUME [Next]_vars
  PROVE  \/ \E c \in Callers : StoreEventCommit(c)
         \/ \E c \in Callers : ResolveCommit(c) \/ AutoResolveCommit(c)
         \/ \E f \in Fingerprints : MarkNotified(f)
         \/ errors' = errors /\ told' = told
BY DEF Next, vars, StoreEvent, Resolve, AutoResolve, StoreEventCall, ResolveCall,
   AutoResolveCall, Call, StoreEventSelect, ResolveSelect, AutoResolveSelect,
   Select, ResolveNothing, Upgrade, Abort, GCOccurrences, Tick

\* What the commit of an event does to rows and history.
LEMMA StoreEventEffect ==
  ASSUME SnapshotInv, NEW c \in Callers, StoreEventCommit(c)
  PROVE  \E f \in Fingerprints :
           /\ tx[c].fp = f
           /\ errors' = [errors EXCEPT ![f] = Upserted(errors[f], tx[c].now)]
           /\ told' = [told EXCEPT ![f] = Stored(told[f], errors[f].status, tx[c].now)]
<1>1. tx[c] \in Tx /\ MayCommit(tx[c]) /\ tx[c].op = "StoreEvent"
  BY DEF SnapshotInv, TypeOK, StoreEventCommit, MayCommit
<1>2. tx[c].fp \in Fingerprints /\ tx[c].was = errors[tx[c].fp].status
  BY <1>1 DEF SnapshotInv, TypeOK, Tx, CommitsSeeTheTruth, SawTheTruth
<1>. QED
  BY <1>2 DEF StoreEventCommit

\* What a stored event adds to a group's history, field by field.
LEMMA StoredFields ==
  ASSUME NEW h \in Told, NEW was \in Statuses, NEW now \in Nat
  PROVE  /\ Stored(h, was, now).new = IF was = "absent" THEN h.new + 1 ELSE h.new
         /\ Stored(h, was, now).regression =
              IF was = "resolved" THEN h.regression + 1 ELSE h.regression
         /\ Stored(h, was, now).resolved = h.resolved
         /\ Stored(h, was, now).announced = h.announced
         /\ Stored(h, was, now).latest = IF h.latest < now THEN now ELSE h.latest
BY DEF Stored, Told

\* What a resolution changes of a row and its history, field by field.
LEMMA MarkResolvedFields ==
  ASSUME TypeOK, NEW S \in SUBSET Fingerprints, NEW heard, MarkResolved(S, heard),
         NEW f \in Fingerprints
  PROVE  /\ errors'[f].status = IF f \in S THEN "resolved" ELSE errors[f].status
         /\ errors'[f].notified = errors[f].notified
         /\ errors'[f].lastSeen = errors[f].lastSeen
         /\ told'[f].new = told[f].new
         /\ told'[f].regression = told[f].regression
         /\ told'[f].latest = told[f].latest
         /\ told'[f].resolved = IF f \in S THEN told[f].resolved + 1 ELSE told[f].resolved
         /\ told'[f].announced = IF f \in heard THEN told[f].announced + 1 ELSE told[f].announced
<1>1. errors[f] \in Row /\ told[f] \in Told
  BY DEF TypeOK
<1>2. errors'[f] = IF f \in S THEN [errors[f] EXCEPT !.status = "resolved"] ELSE errors[f]
  BY DEF MarkResolved
<1>3. told'[f] = [told[f] EXCEPT
        !.resolved = IF f \in S THEN told[f].resolved + 1 ELSE told[f].resolved,
        !.announced = IF f \in heard THEN told[f].announced + 1 ELSE told[f].announced]
  BY DEF MarkResolved
<1>. QED
  BY <1>1, <1>2, <1>3 DEF Row, Told

\* MarkNotified changes nothing but notified.
LEMMA MarkNotifiedFields ==
  ASSUME TypeOK, NEW g \in Fingerprints, MarkNotified(g), NEW f \in Fingerprints
  PROVE  /\ errors'[f].status = errors[f].status
         /\ errors'[f].lastSeen = errors[f].lastSeen
         /\ errors'[f].notified = (f = g \/ errors[f].notified)
<1>1. errors[f] \in Row
  BY DEF TypeOK
<1>2. errors'[f] = IF f = g THEN [errors[f] EXCEPT !.notified = TRUE] ELSE errors[f]
  BY DEF MarkNotified, TypeOK
<1>. QED
  BY <1>1, <1>2 DEF Row

\* ToldInv is inductive: a commit tells what it does and does what it read.
LEMMA ToldStep == SnapshotInv /\ ToldInv /\ [Next]_vars => ToldInv'
<1> SUFFICES ASSUME SnapshotInv, ToldInv, [Next]_vars, NEW f \in Fingerprints
             PROVE  /\ told'[f].new = IF errors'[f].status = "absent" THEN 0 ELSE 1
                    /\ told'[f].resolved = told'[f].regression +
                         (IF errors'[f].status = "resolved" THEN 1 ELSE 0)
                    /\ told'[f].announced <= told'[f].resolved
  BY DEF ToldInv, EachChangeToldOnce, AnnouncedWasResolved
<1>0. /\ TypeOK /\ errors[f] \in Row /\ told[f] \in Told
      /\ told[f].new = IF errors[f].status = "absent" THEN 0 ELSE 1
      /\ told[f].resolved = told[f].regression +
           (IF errors[f].status = "resolved" THEN 1 ELSE 0)
      /\ told[f].announced <= told[f].resolved
  BY DEF SnapshotInv, TypeOK, ToldInv, EachChangeToldOnce, AnnouncedWasResolved
<1>1. ASSUME NEW c \in Callers, StoreEventCommit(c)
      PROVE  /\ told'[f].new = IF errors'[f].status = "absent" THEN 0 ELSE 1
             /\ told'[f].resolved = told'[f].regression +
                  (IF errors'[f].status = "resolved" THEN 1 ELSE 0)
             /\ told'[f].announced <= told'[f].resolved
  <2>1. PICK g \in Fingerprints :
          /\ errors' = [errors EXCEPT ![g] = Upserted(errors[g], tx[c].now)]
          /\ told' = [told EXCEPT ![g] = Stored(told[g], errors[g].status, tx[c].now)]
    BY <1>1, StoreEventEffect
  <2>2. CASE f = g
    <3>1. errors'[f].status = "open"
      BY <1>0, <2>1, <2>2 DEF TypeOK, Upserted
    <3>2. told'[f] = Stored(told[f], errors[f].status, tx[c].now)
      BY <1>0, <2>1, <2>2 DEF TypeOK
    <3>3. tx[c].now \in Nat /\ errors[f].status \in Statuses
      BY <1>0 DEF TypeOK, Tx, Row
    <3>. QED
      BY <1>0, <3>1, <3>2, <3>3, StoredFields DEF Told
  <2>3. CASE f # g
    BY <1>0, <2>1, <2>3 DEF TypeOK
  <2>. QED
    BY <2>2, <2>3
<1>2. ASSUME NEW c \in Callers, ResolveCommit(c) \/ AutoResolveCommit(c)
      PROVE  /\ told'[f].new = IF errors'[f].status = "absent" THEN 0 ELSE 1
             /\ told'[f].resolved = told'[f].regression +
                  (IF errors'[f].status = "resolved" THEN 1 ELSE 0)
             /\ told'[f].announced <= told'[f].resolved
  <2>1. PICK S \in SUBSET Fingerprints :
          /\ MarkResolved(S, tx[c].list)
          /\ \A g \in S : errors[g].status = "open"
          /\ tx[c].list \subseteq S
    <3>1. PICK S \in SUBSET Fingerprints :
            /\ MarkResolved(S, tx[c].list)
            /\ \A g \in S : errors[g].status = "open"
            /\ tx[c].list = IF tx[c].op = "Resolve"
                            THEN S ELSE {g \in S : errors[g].notified}
      BY <1>2, ResolverCommit
    <3>2. tx[c].list \subseteq S
      BY <3>1
    <3>. QED
      BY <3>1, <3>2
  <2>2. /\ errors'[f].status = IF f \in S THEN "resolved" ELSE errors[f].status
        /\ told'[f].new = told[f].new
        /\ told'[f].regression = told[f].regression
        /\ told'[f].resolved = IF f \in S THEN told[f].resolved + 1 ELSE told[f].resolved
        /\ told'[f].announced = IF f \in tx[c].list THEN told[f].announced + 1
                                                     ELSE told[f].announced
    BY <1>0, <2>1, MarkResolvedFields
  <2>. QED
    BY <1>0, <2>1, <2>2 DEF Told
<1>3. ASSUME NEW g \in Fingerprints, MarkNotified(g)
      PROVE  told' = told /\ errors'[f].status = errors[f].status
  BY <1>0, <1>3, MarkNotifiedFields DEF MarkNotified
<1>4. CASE errors' = errors /\ told' = told
  BY <1>0, <1>4
<1>. QED
  BY <1>0, <1>1, <1>2, <1>3, <1>4, StepKinds

\* One caller is told that a group is new, resolutions and regressions
\* alternate, and no resolution is announced twice.
THEOREM ToldOnce == Spec => [](EachChangeToldOnce /\ AnnouncedWasResolved)
<1>1. Init => ToldInv
  BY DEF Init, NoRow, ToldInv, EachChangeToldOnce, AnnouncedWasResolved
<1>2. TypeOK /\ OneWriter /\ CommitsSeeTheTruth /\ ToldInv /\ [Next]_vars => ToldInv'
  BY ToldStep DEF SnapshotInv
<1>3. ToldInv <=> EachChangeToldOnce /\ AnnouncedWasResolved
  BY DEF ToldInv
<1>. QED
  BY <1>1, <1>2, <1>3, TypeCorrect, SnapshotsHold, PTL DEF Spec
-----------------------------------------------------------------------------
(* Time: the bound MaxLag on a call carries over to last_seen.              *)

LagInv ==
  /\ \A c \in Callers : tx[c].pc # "idle" =>
       tx[c].now <= clock /\ clock <= tx[c].now + MaxLag
  /\ \A f \in Fingerprints : told[f].latest <= clock
  /\ LastSeenTrails

\* LagInv is inductive: last_seen is set to a clock reading at most MaxLag old.
LEMMA LagStep == TypeOK /\ TypeOK' /\ SnapshotInv /\ LagInv /\ [Next]_vars => LagInv'
<1> SUFFICES ASSUME TypeOK, TypeOK', SnapshotInv, LagInv, [Next]_vars
             PROVE  LagInv'
  OBVIOUS
<1>1. /\ \A c \in Callers : tx[c].now \in Nat
      /\ \A f \in Fingerprints : told[f].latest \in Nat /\ errors[f].lastSeen \in Nat
      /\ clock \in Nat /\ clock' \in Nat
  BY DEF TypeOK, Tx, Told, Row
<1>2. ASSUME NEW c \in Callers, tx'[c].pc # "idle"
      PROVE  tx'[c].now <= clock' /\ clock' <= tx'[c].now + MaxLag
  <2>1. CASE Tick
    BY <1>1, <1>2, <2>1 DEF Tick, LagInv
  <2>2. CASE ~Tick
    <3>1. clock' = clock
      BY <2>2 DEF Next, vars, StoreEvent, Resolve, AutoResolve, StoreEventCall,
         ResolveCall, AutoResolveCall, Call, StoreEventSelect, ResolveSelect,
         AutoResolveSelect, Select, ResolveNothing, Upgrade, Abort, GCOccurrences,
         StoreEventCommit, ResolveCommit, AutoResolveCommit, MarkResolved, MarkNotified
    <3>2. \/ tx'[c].now = clock
          \/ tx[c].pc # "idle" /\ tx'[c].now = tx[c].now
      <4>0. tx[c] \in Tx
        BY DEF TypeOK
      <4>1. ASSUME NEW d \in Callers, NEW op, NEW f, Call(d, op, f)
            PROVE  tx'[c].now = clock \/ (tx[c].pc # "idle" /\ tx'[c].now = tx[c].now)
        BY <1>2, <4>1 DEF Call, TypeOK, Idle
      <4>2. ASSUME NEW d \in Callers, NEW op, NEW was, NEW list, Select(d, op, was, list)
            PROVE  tx[c].pc # "idle" /\ tx'[c].now = tx[c].now
        BY <1>2, <4>0, <4>2 DEF Select, TypeOK, Tx
      <4>3. ASSUME NEW d \in Callers, Finish(d)
            PROVE  tx[c].pc # "idle" /\ tx'[c].now = tx[c].now
        BY <1>2, <4>3 DEF Finish, TypeOK, Idle
      <4>4. ASSUME NEW d \in Callers, FinishAndOutdate(d)
            PROVE  tx[c].pc # "idle" /\ tx'[c].now = tx[c].now
        BY <1>2, <4>0, <4>4, OutdatedTx DEF FinishAndOutdate, Idle
      <4>5. ASSUME OutdateAll
            PROVE  tx[c].pc # "idle" /\ tx'[c].now = tx[c].now
        BY <1>2, <4>0, <4>5, OutdatedTx DEF OutdateAll
      <4>6. ASSUME NEW d \in Callers, Upgrade(d)
            PROVE  tx[c].pc # "idle" /\ tx'[c].now = tx[c].now
        BY <1>2, <4>0, <4>6 DEF Upgrade, TypeOK, Tx
      <4>7. CASE UNCHANGED vars
        BY <1>2, <4>7 DEF vars
      <4>. QED
        BY <2>2, <4>1, <4>2, <4>3, <4>4, <4>5, <4>6, <4>7
        DEF Next, StoreEvent, Resolve, AutoResolve, StoreEventCall, ResolveCall,
            AutoResolveCall, StoreEventSelect, ResolveSelect, AutoResolveSelect,
            ResolveNothing, Abort, GCOccurrences, StoreEventCommit, ResolveCommit,
            AutoResolveCommit, MarkNotified
    <3>. QED
      BY <1>1, <3>1, <3>2 DEF LagInv
  <2>. QED
    BY <2>1, <2>2
<1>3. ASSUME NEW f \in Fingerprints
      PROVE  told'[f].latest <= clock' /\ told'[f].latest <= errors'[f].lastSeen + MaxLag
  <2>0. /\ clock <= clock'
        /\ told[f].latest <= clock /\ told[f].latest <= errors[f].lastSeen + MaxLag
    <3>1. clock' = clock \/ Tick
      BY DEF Next, vars, StoreEvent, Resolve, AutoResolve, StoreEventCall,
         ResolveCall, AutoResolveCall, Call, StoreEventSelect, ResolveSelect,
         AutoResolveSelect, Select, ResolveNothing, Upgrade, Abort, GCOccurrences,
         StoreEventCommit, ResolveCommit, AutoResolveCommit, MarkResolved, MarkNotified
    <3>. QED
      BY <1>1, <3>1 DEF Tick, LagInv, LastSeenTrails
  <2>1. ASSUME NEW c \in Callers, StoreEventCommit(c)
        PROVE  told'[f].latest <= clock' /\ told'[f].latest <= errors'[f].lastSeen + MaxLag
    <3>1. PICK g \in Fingerprints :
            /\ errors' = [errors EXCEPT ![g] = Upserted(errors[g], tx[c].now)]
            /\ told' = [told EXCEPT ![g] = Stored(told[g], errors[g].status, tx[c].now)]
      BY <2>1, StoreEventEffect
    <3>2. tx[c].now <= clock /\ clock <= tx[c].now + MaxLag
      BY <2>1 DEF LagInv, StoreEventCommit
    <3>3. CASE f = g
      <4>1. errors'[f].lastSeen = tx[c].now
        BY <3>1, <3>3 DEF TypeOK, Upserted
      <4>2. told'[f].latest = IF told[f].latest < tx[c].now THEN tx[c].now ELSE told[f].latest
        <5>1. told[f] \in Told /\ errors[f].status \in Statuses
          BY DEF TypeOK, Row
        <5>2. told'[f] = Stored(told[f], errors[f].status, tx[c].now)
          BY <3>1, <3>3 DEF TypeOK
        <5>. QED
          BY <1>1, <5>1, <5>2, StoredFields
      <4>. QED
        BY <1>1, <2>0, <3>2, <4>1, <4>2
    <3>4. CASE f # g
      <4>1. told'[f] = told[f] /\ errors'[f] = errors[f]
        BY <3>1, <3>4 DEF TypeOK
      <4>. QED
        BY <1>1, <2>0, <4>1
    <3>. QED
      BY <3>3, <3>4
  <2>2. ASSUME NEW c \in Callers, ResolveCommit(c) \/ AutoResolveCommit(c)
        PROVE  told'[f].latest <= clock' /\ told'[f].latest <= errors'[f].lastSeen + MaxLag
    <3>1. told'[f].latest = told[f].latest /\ errors'[f].lastSeen = errors[f].lastSeen
      BY <2>2, ResolverCommit, MarkResolvedFields
    <3>. QED
      BY <1>1, <2>0, <3>1
  <2>3. ASSUME NEW g \in Fingerprints, MarkNotified(g)
        PROVE  told'[f].latest <= clock' /\ told'[f].latest <= errors'[f].lastSeen + MaxLag
    <3>1. told' = told /\ errors'[f].lastSeen = errors[f].lastSeen
      BY <2>3, MarkNotifiedFields DEF MarkNotified
    <3>. QED
      BY <1>1, <2>0, <3>1
  <2>4. CASE errors' = errors /\ told' = told
    BY <1>1, <2>0, <2>4
  <2>. QED
    BY <2>1, <2>2, <2>3, <2>4, StepKinds
<1>. QED
  BY <1>2, <1>3 DEF LagInv, LastSeenTrails

\* LagInv holds in every behaviour.
LEMMA LagHolds == Spec => []LagInv
<1>1. Init => LagInv
  BY DEF Init, Idle, NoRow, LagInv, LastSeenTrails
<1>2. TypeOK /\ TypeOK' /\ OneWriter /\ CommitsSeeTheTruth /\ LagInv /\ [Next]_vars
        => LagInv'
  BY LagStep DEF SnapshotInv
<1>. QED
  BY <1>1, <1>2, TypeCorrect, SnapshotsHold, PTL DEF Spec

\* last_seen trails the newest stored event by at most the longest call.
THEOREM LastSeenTrailsAlways == Spec => []LastSeenTrails
<1>1. LagInv => LastSeenTrails
  BY DEF LagInv
<1>. QED
  BY <1>1, LagHolds, PTL

\* Housekeeping leaves a group open that had an event recently.
THEOREM NoFreshAutoResolveEver == Spec => NoFreshAutoResolve
<1>. DEFINE Claim ==
       \A f \in Fingerprints :
         (/\ tx[Maintenance].pc = "write" /\ tx[Maintenance].op = "AutoResolve"
          /\ errors[f].status = "open" /\ errors'[f].status = "resolved")
         => told[f].latest < tx[Maintenance].now - ResolveAfter + MaxLag
<1>1. TypeOK /\ OneWriter /\ CommitsSeeTheTruth /\ LagInv /\ [Next]_vars => [Claim]_vars
  <2> SUFFICES ASSUME TypeOK, OneWriter, CommitsSeeTheTruth, LagInv, [Next]_vars,
                      NEW f \in Fingerprints,
                      tx[Maintenance].pc = "write", tx[Maintenance].op = "AutoResolve",
                      errors[f].status = "open", errors'[f].status = "resolved"
               PROVE  told[f].latest < tx[Maintenance].now - ResolveAfter + MaxLag
    OBVIOUS
  <2>1. PICK c \in Callers :
          StoreEventCommit(c) \/ ResolveCommit(c) \/ AutoResolveCommit(c)
    <3>1. ~\E g \in Fingerprints : MarkNotified(g)
      BY MarkNotifiedFields
    <3>. QED
      BY <3>1, StepKinds
  <2>2. c = Maintenance
    BY <2>1 DEF OneWriter, StoreEventCommit, ResolveCommit, AutoResolveCommit
  <2>3. AutoResolveCommit(c)
    BY <2>1, <2>2 DEF StoreEventCommit, ResolveCommit
  <2>4. f \in Unseen(tx[c].now)
    BY <2>3 DEF AutoResolveCommit, MarkResolved
  <2>5. errors[f].lastSeen < tx[c].now - ResolveAfter
    BY <2>4 DEF Unseen
  <2>6. told[f].latest <= errors[f].lastSeen + MaxLag
    BY DEF LagInv, LastSeenTrails
  <2>7. told[f].latest \in Nat /\ errors[f].lastSeen \in Nat /\ tx[c].now \in Nat
    BY DEF TypeOK, Told, Row, Tx
  <2>. QED
    BY <2>2, <2>5, <2>6, <2>7
<1>. QED
  BY <1>1, TypeCorrect, SnapshotsHold, LagHolds, PTL DEF Spec, NoFreshAutoResolve
-----------------------------------------------------------------------------
(* The store implements the atomic lifecycle.                               *)

\* Every step of the store is a step of Lifecycle or leaves its variables alone.
LEMMA RefinementStep ==
  TypeOK /\ TypeOK' /\ OneWriter /\ CommitsSeeTheTruth /\ [Next]_vars => [L!Next]_(L!vars)
<1> SUFFICES ASSUME TypeOK, TypeOK', OneWriter, CommitsSeeTheTruth, [Next]_vars
             PROVE  [L!Next]_(L!vars)
  OBVIOUS
<1>. SnapshotInv
  BY DEF SnapshotInv
<1>1. ASSUME NEW c \in Callers, StoreEventCommit(c)
      PROVE  [L!Next]_(L!vars)
  <2>1. PICK f \in Fingerprints :
          /\ errors' = [errors EXCEPT ![f] = Upserted(errors[f], tx[c].now)]
          /\ told' = [told EXCEPT ![f] = Stored(told[f], errors[f].status, tx[c].now)]
    BY <1>1, StoreEventEffect
  <2>2. told[f] \in Told /\ errors[f].status \in Statuses /\ tx[c].now \in Nat
    BY DEF TypeOK, Row, Tx
  <2>3. /\ errors'[f].status = "open" /\ errors'[f].notified = errors[f].notified
        /\ told'[f].new = IF errors[f].status = "absent" THEN told[f].new + 1 ELSE told[f].new
        /\ told'[f].regression = IF errors[f].status = "resolved"
                                 THEN told[f].regression + 1 ELSE told[f].regression
        /\ told'[f].announced = told[f].announced
    BY <2>1, <2>2, StoredFields DEF TypeOK, Upserted
  <2>4. \A g \in Fingerprints : g # f => errors'[g] = errors[g] /\ told'[g] = told[g]
    BY <2>1 DEF TypeOK
  <2>5. CASE errors[f].status = "absent"
    <3>1. L!Create(f)
      BY <2>3, <2>4, <2>5 DEF L!Create
    <3>. QED
      BY <3>1 DEF L!Next
  <2>6. CASE errors[f].status = "resolved"
    <3>1. L!Reopen(f)
      BY <2>3, <2>4, <2>6 DEF L!Reopen
    <3>. QED
      BY <3>1 DEF L!Next
  <2>7. CASE errors[f].status = "open"
    BY <2>3, <2>4, <2>7 DEF L!vars
  <2>. QED
    BY <2>2, <2>5, <2>6, <2>7
<1>2. ASSUME NEW c \in Callers, ResolveCommit(c) \/ AutoResolveCommit(c)
      PROVE  [L!Next]_(L!vars)
  <2>1. PICK S \in SUBSET Fingerprints :
          /\ MarkResolved(S, tx[c].list)
          /\ \A f \in S : errors[f].status = "open"
          /\ tx[c].list = IF tx[c].op = "Resolve"
                          THEN S ELSE {f \in S : errors[f].notified}
    BY <1>2, ResolverCommit
  <2>2. ASSUME NEW f \in Fingerprints
        PROVE  /\ errors'[f].status = IF f \in S THEN "resolved" ELSE errors[f].status
               /\ errors'[f].notified = errors[f].notified
               /\ told'[f].new = told[f].new
               /\ told'[f].regression = told[f].regression
               /\ told'[f].announced = IF f \in tx[c].list THEN told[f].announced + 1
                                                           ELSE told[f].announced
    BY <2>1, MarkResolvedFields
  <2>3. CASE S = {}
    <3>1. \A f \in Fingerprints : f \notin tx[c].list
      BY <2>1, <2>3
    <3>. QED
      BY <2>2, <2>3, <3>1 DEF L!vars
  <2>4. CASE tx[c].op = "AutoResolve" /\ S # {}
    <3>1. \A f \in Fingerprints : f \in tx[c].list <=> f \in S /\ errors[f].notified
      BY <2>1, <2>4
    <3>2. L!AutoResolve(S)
      BY <2>1, <2>2, <2>4, <3>1 DEF L!AutoResolve
    <3>. QED
      BY <3>2 DEF L!Next
  <2>5. CASE tx[c].op = "Resolve" /\ S # {}
    <3>1. PICK f \in Fingerprints : S = {f}
      <4>1. MayCommit(tx[c]) /\ tx[c].op = "Resolve"
        BY <1>2, <2>5 DEF ResolveCommit, AutoResolveCommit, MayCommit
      <4>2. S \subseteq {tx[c].fp}
        BY <2>1, <4>1 DEF CommitsSeeTheTruth, SawTheTruth
      <4>. QED
        BY <2>5, <4>2
    <3>2. tx[c].list = {f}
      BY <2>1, <2>5, <3>1
    <3>3. errors[f].status = "open" /\ errors'[f].status = "resolved"
          /\ told'[f].announced = told[f].announced + 1
      BY <2>1, <2>2, <3>1, <3>2
    <3>4. \A g \in Fingerprints : g # f => /\ errors'[g].status = errors[g].status
                                           /\ told'[g].announced = told[g].announced
      BY <2>2, <3>1, <3>2
    <3>5. [g \in Fingerprints |-> errors'[g].status]
            = [[g \in Fingerprints |-> errors[g].status] EXCEPT ![f] = "resolved"]
      BY <3>3, <3>4
    <3>6. [g \in Fingerprints |-> told'[g].announced]
            = [[g \in Fingerprints |-> told[g].announced] EXCEPT ![f] = told[f].announced + 1]
      BY <3>3, <3>4
    <3>7. L!Resolve(f)
      BY <2>2, <3>3, <3>5, <3>6 DEF L!Resolve
    <3>. QED
      BY <3>7 DEF L!Next
  <2>. QED
    BY <1>2, <2>3, <2>4, <2>5 DEF ResolveCommit, AutoResolveCommit
<1>3. ASSUME NEW f \in Fingerprints, MarkNotified(f)
      PROVE  [L!Next]_(L!vars)
  <2>1. told' = told /\ errors[f].status # "absent"
    BY <1>3 DEF MarkNotified
  <2>2. \A g \in Fingerprints : /\ errors'[g].status = errors[g].status
                                /\ errors'[g].notified = (g = f \/ errors[g].notified)
    BY <1>3, MarkNotifiedFields
  <2>3. \A g \in Fingerprints : errors[g].notified \in BOOLEAN
    BY DEF TypeOK, Row
  <2>4. L!Notify(f)
    BY <2>1, <2>2, <2>3 DEF L!Notify
  <2>. QED
    BY <2>4 DEF L!Next
<1>4. CASE errors' = errors /\ told' = told
  BY <1>4 DEF L!vars
<1>. QED
  BY <1>1, <1>2, <1>3, <1>4, StepKinds

\* Every behaviour of the transactional store is a behaviour of the lifecycle.
THEOREM StoreImplementsLifecycle == Spec => ImplementsLifecycle
<1>1. Init => L!Init
  BY DEF Init, L!Init, NoRow
<1>. QED
  BY <1>1, RefinementStep, TypeCorrect, SnapshotsHold, PTL
  DEF Spec, ImplementsLifecycle, L!Spec
=============================================================================
