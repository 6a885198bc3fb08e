------------------------- MODULE ConnectorSyncProofs -------------------------
(***************************************************************************)
(* What the lock of coordination.py guarantees to the connector syncs, for *)
(* every number of deliveries, handlers, documents and faults.             *)
(***************************************************************************)
EXTENDS ConnectorSync, TLAPS

-----------------------------------------------------------------------------
(* Type correctness: each part of TypeOK is preserved by the steps that    *)
(* leave its variables alone, so that a step's proof is about what it      *)
(* changes.                                                                *)

LEMMA LockFrame ==
    ASSUME LockTypeOK, UNCHANGED <<workerMode, lockVars>>
    PROVE  LockTypeOK'
BY DEF LockTypeOK, lockVars

LEMMA RunFrame ==
    ASSUME RunTypeOK, UNCHANGED runVars
    PROVE  RunTypeOK'
BY DEF RunTypeOK, runVars

LEMMA RowFrame ==
    ASSUME RowTypeOK, UNCHANGED rowVars
    PROVE  RowTypeOK'
BY DEF RowTypeOK, rowVars

LEMMA DocFrame ==
    ASSUME DocTypeOK, UNCHANGED docVars
    PROVE  DocTypeOK'
BY DEF DocTypeOK, docVars

LEMMA ApiFrame ==
    ASSUME ApiTypeOK, UNCHANGED apiVars
    PROVE  ApiTypeOK'
BY DEF ApiTypeOK, apiVars

LEMMA NothingType == Nothing \in [Doc -> Stored]
BY ConstantsAssumption DEF Nothing, Stored

\* A fault, or none, leaves a natural number of them.
LEMMA FaultType ==
    ASSUME faultsLeft \in Nat, NoFault \/ \E f \in AllFaults : Happens(f)
    PROVE  faultsLeft' \in Nat
BY DEF NoFault, Happens

\* A delivery's end.
LEMMA EndType ==
    ASSUME RunTypeOK, NEW r \in Run, NEW to \in Phase, End(r, to)
    PROVE  RunTypeOK'
BY NothingType DEF RunTypeOK, End

\* A step that moves a delivery on and changes nothing else about it.
LEMMA GotoType ==
    ASSUME RunTypeOK, NEW r \in Run, NEW to \in Phase,
           pc' = [pc EXCEPT ![r] = to],
           UNCHANGED <<renewing, lapsed, fetched, todo, doc, outcome>>
    PROVE  RunTypeOK'
BY DEF RunTypeOK

LEMMA UpdateType ==
    ASSUME RowTypeOK,
           NEW s \in {"queued", "running", "ok", "partial", "error"}, Update(s)
    PROVE  RowTypeOK'
BY DEF RowTypeOK, Update

\* A handler that moves on and keeps its list.
LEMMA EnterType ==
    ASSUME ApiTypeOK, NEW q \in Handler, NEW from,
           NEW to \in {"idle", "queue", "dispatch", "delete", "list", "purge"},
           Enter(q, from, to), UNCHANGED listed
    PROVE  ApiTypeOK'
BY DEF ApiTypeOK, Enter

\* The lock's own operations.
LEMMA LockStepType ==
    ASSUME LockTypeOK, NEW r \in Run, UNCHANGED workerMode,
           Grant(r) \/ Extend(r) \/ Free(r) \/ Expire
    PROVE  LockTypeOK'
BY ConstantsAssumption DEF LockTypeOK, Grant, Extend, Free, Expire

-----------------------------------------------------------------------------

LEMMA InitType == Init => TypeOK
<1> SUFFICES ASSUME Init PROVE TypeOK
    OBVIOUS
<1>1. LockTypeOK
    BY DEF Init, LockInit, LockTypeOK
<1>2. RunTypeOK
    BY NothingType DEF Init, RunTypeOK, Phase
<1>3. RowTypeOK /\ ApiTypeOK
    BY DEF Init, RowTypeOK, ApiTypeOK
<1>4. DocTypeOK
    <2>1. 1 \in Version
        BY ConstantsAssumption DEF Version
    <2> QED
        BY <2>1, NothingType DEF Init, DocTypeOK
<1>5. queue \in Nat /\ faultsLeft \in Nat
    BY ConstantsAssumption DEF Init
<1> QED
    BY <1>1, <1>2, <1>3, <1>4, <1>5 DEF TypeOK

\* The steps of a delivery that the worker takes.
LEMMA ProgressType ==
    ASSUME TypeOK, NEW r \in Run, Progress(r)
    PROVE  TypeOK'
<1> USE DEF TypeOK, Phase, Working
<1>1. CASE Acquire(r)
    BY <1>1, LockStepType, RowFrame, DocFrame, ApiFrame
       DEF Acquire, Goto, RunTypeOK
<1>2. CASE Skip(r)
    BY <1>2, LockFrame, RowFrame, DocFrame, ApiFrame, EndType DEF Skip, NoFault, Happens
<1>3. CASE Lookup(r)
    BY <1>3, LockFrame, RowFrame, DocFrame, ApiFrame, GotoType DEF Lookup, Goto, lockVars
<1>4. CASE Mark(r)
    BY <1>4, LockFrame, UpdateType, DocFrame, ApiFrame, GotoType DEF Mark, Goto, lockVars
<1>5. CASE Fetch(r)
    <2>1. PICK unread \in SUBSET Doc :
              /\ fetched' = [fetched EXCEPT
                      ![r] = [d \in Doc |-> IF d \in unread THEN 0 ELSE source[d]]]
              /\ outcome' = [outcome EXCEPT ![r] = IF unread = {} THEN @ ELSE "partial"]
        BY <1>5 DEF Fetch
    <2>2. [d \in Doc |-> IF d \in unread THEN 0 ELSE source[d]] \in [Doc -> Stored]
        BY ConstantsAssumption DEF DocTypeOK, Version, Stored
    <2>3. fetched' \in [Run -> [Doc -> Stored]] /\ outcome' \in [Run -> {"ok", "partial", "error"}]
        BY <2>1, <2>2 DEF RunTypeOK
    <2>4. RunTypeOK'
        BY <1>5, <2>3 DEF Fetch, Goto, RunTypeOK
    <2> QED
        BY <1>5, <2>4, LockFrame, RowFrame, DocFrame, ApiFrame DEF Fetch
<1>6. CASE FetchFails(r)
    BY <1>6, LockFrame, RowFrame, DocFrame, ApiFrame DEF FetchFails, Goto, RunTypeOK
<1>7. CASE Compare(r)
    BY <1>7, LockFrame, RowFrame, DocFrame, ApiFrame DEF Compare, Goto, RunTypeOK
<1>8. CASE \E d \in Doc : Persist(r, d)
    BY <1>8, LockFrame, RowFrame, ApiFrame DEF Persist, Goto, RunTypeOK, DocTypeOK
<1>9. CASE \E d \in Doc : DocFails(r, d)
    BY <1>9, LockFrame, RowFrame, DocFrame, ApiFrame DEF DocFails, Goto, RunTypeOK
<1>10. CASE Record(r)
    <2>1. RunTypeOK'
        BY <1>10 DEF Record, Goto, RunTypeOK
    <2>2. DocTypeOK'
        <3>1. fetched[r] \in [Doc -> Stored]
            BY DEF RunTypeOK
        <3>2. CASE doc[r] \in Doc
            BY <1>10, <3>1, <3>2 DEF Record, DocTypeOK
        <3>3. CASE doc[r] \notin Doc
            <4>1. recorded' = recorded
                BY <1>10, <3>3 DEF Record, DocTypeOK
            <4> QED
                BY <1>10, <4>1 DEF Record, DocTypeOK
        <3> QED
            BY <3>2, <3>3
    <2> QED
        BY <1>10, <2>1, <2>2, LockFrame, RowFrame, ApiFrame DEF Record
<1>11. CASE DocFailsLate(r)
    BY <1>11, LockFrame, RowFrame, DocFrame, ApiFrame DEF DocFailsLate, Goto, RunTypeOK
<1>12. CASE LoopEnds(r)
    BY <1>12, LockFrame, RowFrame, DocFrame, ApiFrame, GotoType DEF LoopEnds, Goto, lockVars
<1>13. CASE UnexpectedError(r)
    BY <1>13, LockFrame, RowFrame, DocFrame, ApiFrame
       DEF UnexpectedError, Happens, RunTypeOK
<1>14. CASE Finish(r)
    BY <1>14, LockFrame, UpdateType, DocFrame, ApiFrame, GotoType
       DEF Finish, Goto, RunTypeOK, lockVars
<1>15. CASE JobFails(r)
    <2>1. RunTypeOK'
        BY <1>15, GotoType DEF JobFails
    <2> QED
        BY <1>15, <2>1, LockFrame, RowFrame, DocFrame, ApiFrame DEF JobFails, Happens
<1>16. CASE Release(r)
    BY <1>16, LockStepType, LockFrame, RowFrame, DocFrame, ApiFrame, EndType
       DEF Release, NoFault, Happens
<1> QED
    BY <1>1, <1>2, <1>3, <1>4, <1>5, <1>6, <1>7, <1>8, <1>9, <1>10, <1>11, <1>12,
       <1>13, <1>14, <1>15, <1>16, Progress(r) DEF Progress

\* Every other step.
LEMMA EnvironmentType ==
    ASSUME TypeOK, NEW r \in Run, Take(r) \/ Dies(r) \/ Redeliver(r) \/ Renew(r) \/ RenewFails(r)
    PROVE  TypeOK'
<1> USE DEF TypeOK, Phase, Working
<1>1. CASE Take(r)
    <2>1. RunTypeOK'
        BY <1>1, GotoType DEF Take, Goto
    <2>2. queue' \in Nat
        BY <1>1 DEF Take
    <2> QED
        BY <1>1, <2>1, <2>2, LockFrame, RowFrame, DocFrame, ApiFrame DEF Take, lockVars
<1>2. CASE KillChild(r)
    BY <1>2, LockFrame, RowFrame, DocFrame, ApiFrame, EndType DEF KillChild, Happens
<1>3. CASE LoseHost(r)
    BY <1>3, LockFrame, RowFrame, DocFrame, ApiFrame, EndType DEF LoseHost, Happens
<1>4. CASE Redeliver(r)
    <2>1. RunTypeOK'
        BY <1>4, GotoType DEF Redeliver, Goto
    <2>2. queue' \in Nat
        BY <1>4 DEF Redeliver
    <2> QED
        BY <1>4, <2>1, <2>2, LockFrame, RowFrame, DocFrame, ApiFrame DEF Redeliver
<1>5. CASE Renew(r)
    BY <1>5, LockStepType, LockFrame, RowFrame, DocFrame, ApiFrame DEF Renew, RunTypeOK
<1>6. CASE RenewFails(r)
    BY <1>6, LockFrame, RowFrame, DocFrame, ApiFrame DEF RenewFails, Happens, RunTypeOK
<1> QED
    BY <1>1, <1>2, <1>3, <1>4, <1>5, <1>6 DEF Dies

LEMMA HandlerType ==
    ASSUME TypeOK, NEW q \in Handler,
           SyncCheck(q) \/ DeleteCheck(q) \/ Handle(q) \/ ApiDies(q)
    PROVE  TypeOK'
<1> USE DEF TypeOK
<1>1. CASE SyncCheck(q)
    BY <1>1, LockFrame, RunFrame, RowFrame, DocFrame, EnterType DEF SyncCheck
<1>2. CASE DeleteCheck(q)
    BY <1>2, LockFrame, RunFrame, RowFrame, DocFrame, EnterType DEF DeleteCheck
<1>3. CASE SyncQueue(q)
    BY <1>3, LockFrame, RunFrame, UpdateType, DocFrame, EnterType DEF SyncQueue
<1>4. CASE SyncDispatch(q)
    BY <1>4, LockFrame, RunFrame, RowFrame, DocFrame, EnterType
       DEF SyncDispatch, NoFault, Happens
<1>5. CASE DeleteList(q)
    BY <1>5, LockFrame, RunFrame, RowFrame, DocFrame DEF DeleteList, Enter, ApiTypeOK
<1>6. CASE DeleteCommit(q)
    <2>1. RowTypeOK'
        BY <1>6 DEF DeleteCommit, RowTypeOK
    <2>2. DocTypeOK'
        <3>1. 0 \in Stored
            BY ConstantsAssumption DEF Stored
        <3>2. artifact' \in [Doc -> Stored]
            BY <1>6, <3>1 DEF DeleteCommit, DocTypeOK
        <3> QED
            BY <1>6, <3>2, NothingType DEF DeleteCommit, DocTypeOK
    <2>3. ApiTypeOK'
        BY <1>6 DEF DeleteCommit, ApiTypeOK
    <2> QED
        BY <1>6, <2>1, <2>2, <2>3, LockFrame, RunFrame DEF DeleteCommit
<1>7. CASE ApiDies(q)
    BY <1>7, LockFrame, RunFrame, RowFrame, DocFrame DEF ApiDies, Happens, ApiTypeOK
<1> QED
    BY <1>1, <1>2, <1>3, <1>4, <1>5, <1>6, <1>7 DEF Handle

\* The writers that are no sync and no handler of the connector's.
Beside == DeleteSpace \/ \E d \in Doc : EditArtifact(d) \/ DeleteArtifact(d)

LEMMA BesideType ==
    ASSUME TypeOK, Beside
    PROVE  TypeOK'
<1>1. LockTypeOK' /\ RunTypeOK' /\ ApiTypeOK' /\ queue' \in Nat /\ faultsLeft' \in Nat
    BY LockFrame, RunFrame, ApiFrame
       DEF TypeOK, Beside, DeleteSpace, EditArtifact, DeleteArtifact, BesideSyncs
<1>2. RowTypeOK'
    BY DEF TypeOK, Beside, DeleteSpace, EditArtifact, DeleteArtifact, BesideSyncs, RowTypeOK
<1>3. 0 \in Stored
    BY ConstantsAssumption DEF Stored
<1>4. DocTypeOK'
    BY <1>3, NothingType
       DEF TypeOK, Beside, DeleteSpace, EditArtifact, DeleteArtifact, BesideSyncs, DocTypeOK
<1> QED
    BY <1>1, <1>2, <1>4 DEF TypeOK

\* None of them touches the lock, the deliveries or the handlers.
LEMMA BesideLeaves ==
    ASSUME Beside
    PROVE  UNCHANGED <<workerMode, lockVars, queue, runVars, status, source, apiVars, faultsLeft>>
BY DEF Beside, DeleteSpace, EditArtifact, DeleteArtifact, BesideSyncs

LEMMA NextType == TypeOK /\ [Next]_vars => TypeOK'
<1> SUFFICES ASSUME TypeOK, [Next]_vars PROVE TypeOK'
    OBVIOUS
<1> USE DEF TypeOK
<1>1. CASE \E r \in Run : Take(r) \/ Progress(r) \/ Dies(r) \/ Redeliver(r)
                          \/ Renew(r) \/ RenewFails(r)
    BY <1>1, ProgressType, EnvironmentType
<1>2. CASE Lapse
    <2>1. LockTypeOK'
        BY <1>2 DEF Lapse, Expire, LockTypeOK
    <2>2. RunTypeOK'
        BY <1>2 DEF Lapse, Critical, RunTypeOK
    <2> QED
        BY <1>2, <2>1, <2>2, RowFrame, DocFrame, ApiFrame DEF Lapse, NoFault, Happens
<1>3. CASE ProcessDies
    <2>1. LockTypeOK'
        BY <1>3 DEF ProcessDies, LockTypeOK
    <2>2. RunTypeOK'
        BY <1>3, NothingType DEF ProcessDies, RunTypeOK, Phase
    <2>3. ApiTypeOK'
        BY <1>3 DEF ProcessDies, ApiTypeOK
    <2> QED
        BY <1>3, <2>1, <2>2, <2>3, RowFrame, DocFrame DEF ProcessDies, Happens
<1>4. CASE \E q \in Handler : SyncCheck(q) \/ DeleteCheck(q) \/ Handle(q) \/ ApiDies(q)
    BY <1>4, HandlerType
<1>5. CASE \E d \in Doc : SourceChanges(d)
    BY <1>5, LockFrame, RunFrame, RowFrame, ApiFrame DEF SourceChanges, DocTypeOK
<1>6. CASE UNCHANGED vars
    BY <1>6, LockFrame, RunFrame, RowFrame, DocFrame, ApiFrame DEF vars
<1>7. CASE Beside
    BY <1>7, BesideType
<1> QED
    BY <1>1, <1>2, <1>3, <1>4, <1>5, <1>6, <1>7 DEF Next, Beside

\* Every state of every execution is of the declared types: in particular no
\* worker takes a task the queue does not hold, and the lock's entry always has
\* the token of a delivery while it is live.
THEOREM TypeCorrect == Spec => []TypeOK
<1>1. Init => TypeOK
    BY InitType
<1>2. TypeOK /\ [Next]_vars => TypeOK'
    BY NextType
<1> QED
    BY <1>1, <1>2, PTL DEF Spec
-----------------------------------------------------------------------------
(* Mutual exclusion.  MutualExclusion is not inductive: it says nothing of *)
(* who holds the lock.  LockInv does.                                      *)

LEMMA LockInvInit == Init => LockInv
BY DEF Init, LockInv, Critical, Working

\* A step inside or outside the block that leaves the lock alone.
LEMMA LockInvFrame ==
    ASSUME LockInv, UNCHANGED <<owner, live, renewing, lapsed>>,
           Critical' = Critical
    PROVE  LockInv'
BY DEF LockInv

\* A delivery that ends, with the lock left alone or its own lock released.
LEMMA LockInvEnd ==
    ASSUME TypeOK, LockInv, NEW r \in Run, NEW to \in {"idle", "dead"}, End(r, to),
           UNCHANGED <<owner, live>> \/ Free(r)
    PROVE  LockInv'
<1>1. Critical' = Critical \ {r}
    BY DEF Critical, End, TypeOK, RunTypeOK, Working
<1>2. \A s \in Critical' : s \in lapsed' \/ (owner' = s /\ live')
    BY <1>1 DEF LockInv, End, Free
<1> QED
    BY <1>1, <1>2 DEF LockInv, End

\* A delivery that moves on, staying on its side of the block's entry.
LEMMA CriticalMove ==
    ASSUME TypeOK, NEW r \in Run, NEW to, pc' = [pc EXCEPT ![r] = to],
           pc[r] \in Working <=> to \in Working
    PROVE  Critical' = Critical
BY DEF Critical, TypeOK, RunTypeOK

LEMMA LockInvNext == TypeOK /\ LockInv /\ [Next]_vars => LockInv'
<1> SUFFICES ASSUME TypeOK, LockInv, [Next]_vars PROVE LockInv'
    OBVIOUS
<1>1. ASSUME NEW r \in Run, Take(r) \/ Redeliver(r) PROVE LockInv'
    BY <1>1, CriticalMove, LockInvFrame DEF Take, Redeliver, Goto, Working, lockVars
<1>2. ASSUME NEW r \in Run, Progress(r) PROVE LockInv'
    <2>1. CASE Acquire(r)
        <3>1. Critical' = Critical \cup {r} /\ r \notin Critical
            BY <2>1 DEF Acquire, Goto, Critical, Working, TypeOK, RunTypeOK
        <3>2. Critical \subseteq lapsed
            BY <2>1 DEF Acquire, Grant, Held, LockInv
        <3> QED
            BY <2>1, <3>1, <3>2 DEF Acquire, Grant, LockInv
    <2>2. CASE Skip(r)
        BY <2>2, LockInvEnd DEF Skip, lockVars
    <2>3. CASE Release(r)
        BY <2>3, LockInvEnd DEF Release, lockVars
    <2>4. CASE Lookup(r) \/ Mark(r) \/ Fetch(r) \/ FetchFails(r) \/ Compare(r)
        BY <2>4, CriticalMove, LockInvFrame
           DEF Lookup, Mark, Fetch, FetchFails, Compare, Goto, Working, lockVars
    <2>5. CASE \E d \in Doc : Persist(r, d) \/ DocFails(r, d)
        BY <2>5, CriticalMove, LockInvFrame DEF Persist, DocFails, Goto, Working, lockVars
    <2>6. CASE Record(r) \/ DocFailsLate(r) \/ LoopEnds(r) \/ UnexpectedError(r)
        BY <2>6, CriticalMove, LockInvFrame
           DEF Record, DocFailsLate, LoopEnds, UnexpectedError, Goto, Working, lockVars
    <2>7. CASE Finish(r) \/ JobFails(r)
        BY <2>7, CriticalMove, LockInvFrame DEF Finish, JobFails, Goto, Working, lockVars
    <2> QED
        BY <1>2, <2>1, <2>2, <2>3, <2>4, <2>5, <2>6, <2>7 DEF Progress
<1>3. ASSUME NEW r \in Run, Dies(r) PROVE LockInv'
    BY <1>3, LockInvEnd DEF Dies, KillChild, LoseHost, lockVars
<1>4. ASSUME NEW r \in Run, Renew(r) PROVE LockInv'
    <2>1. Critical' = Critical
        BY <1>4 DEF Renew, Critical
    <2>2. CASE ~live /\ Extend(r) /\ lapsed' = lapsed \ {r} /\ UNCHANGED renewing
        BY <2>1, <2>2 DEF Extend, LockInv
    <2>3. CASE renewing' = renewing \ {r} /\ UNCHANGED <<lockVars, lapsed>>
        BY <2>1, <2>3 DEF LockInv, lockVars
    <2> QED
        BY <1>4, <2>2, <2>3 DEF Renew
<1>5. ASSUME NEW r \in Run, RenewFails(r) PROVE LockInv'
    BY <1>5 DEF RenewFails, LockInv, Critical, lockVars
<1>6. CASE Lapse
    BY <1>6 DEF Lapse, Expire, LockInv, Critical
<1>7. CASE ProcessDies
    BY <1>7 DEF ProcessDies, LockInv, Critical, Working
<1>8. ASSUME NEW q \in Handler, SyncCheck(q) \/ DeleteCheck(q) \/ Handle(q) \/ ApiDies(q)
      PROVE  LockInv'
    BY <1>8 DEF SyncCheck, DeleteCheck, Handle, SyncQueue, SyncDispatch, DeleteList,
                DeleteCommit, ApiDies, LockInv, Critical, lockVars, runVars
<1>9. ASSUME NEW d \in Doc, SourceChanges(d) PROVE LockInv'
    BY <1>9 DEF SourceChanges, LockInv, Critical, lockVars, runVars
<1>10. CASE UNCHANGED vars
    BY <1>10 DEF vars, LockInv, Critical, lockVars, runVars
<1>11. CASE Beside
    BY <1>11, BesideLeaves DEF LockInv, Critical, lockVars, runVars
<1> QED
    BY <1>1, <1>2, <1>3, <1>4, <1>5, <1>6, <1>7, <1>8, <1>9, <1>10, <1>11 DEF Next, Beside

THEOREM LockInvariant == Spec => []LockInv
<1>1. Init => LockInv
    BY LockInvInit
<1>2. TypeOK /\ LockInv /\ [Next]_vars => LockInv'
    BY LockInvNext
<1> QED
    BY <1>1, <1>2, TypeCorrect, PTL DEF Spec

\* Two deliveries work at once only if the lock of one of them expired under it,
\* whatever fails or dies (acquire, extend and release of coordination.py).
THEOREM Exclusion == Spec => []MutualExclusion
<1>1. LockInv => MutualExclusion
    BY DEF LockInv, MutualExclusion
<1> QED
    BY <1>1, LockInvariant, PTL

\* A delivery that holds the lock and renews it loses it only by its own end or
\* to a stall.
THEOREM Holding == Spec => HolderKeepsLock
<1> DEFINE Kept(r) ==
        /\ owner = r /\ live /\ r \in renewing
        /\ ~(owner' = r /\ live')
        => pc'[r] = "idle" \/ (r \in lapsed' /\ faultsLeft' < faultsLeft)
<1>1. TypeOK /\ LockInv /\ [Next]_vars => [\A r \in Run : Kept(r)]_vars
    <2> SUFFICES ASSUME TypeOK, LockInv, Next, NEW r \in Run,
                        owner = r, live, r \in renewing, ~(owner' = r /\ live')
                 PROVE  pc'[r] = "idle" \/ (r \in lapsed' /\ faultsLeft' < faultsLeft)
        OBVIOUS
    <2>1. ASSUME NEW s \in Run, Progress(s)
          PROVE  pc'[r] = "idle"
        <3>1. CASE Acquire(s)
            BY <3>1 DEF Acquire, Grant, Held
        <3>2. CASE Release(s)
            BY <3>2 DEF Release, Free, End, lockVars, TypeOK, RunTypeOK
        <3>3. CASE UNCHANGED <<owner, live>>
            BY <3>3
        <3> QED
            BY <2>1, <3>1, <3>2, <3>3
               DEF Progress, Skip, Lookup, Mark, Fetch, FetchFails, Compare, Persist,
                   DocFails, Record, DocFailsLate, LoopEnds, UnexpectedError, Finish,
                   JobFails, lockVars
    <2>2. CASE Lapse
        BY <2>2 DEF Lapse, Expire, Happens, LockInv, TypeOK
    <2>3. CASE ProcessDies
        BY <2>3 DEF ProcessDies
    <2>4. ASSUME NEW s \in Run, Renew(s) PROVE FALSE
        BY <2>4 DEF Renew, Extend, lockVars
    <2>5. ASSUME NEW s \in Run, Take(s) \/ Dies(s) \/ Redeliver(s) \/ RenewFails(s)
          PROVE  FALSE
        BY <2>5 DEF Take, Dies, KillChild, LoseHost, Redeliver, RenewFails, lockVars
    <2>6. ASSUME NEW q \in Handler,
                 SyncCheck(q) \/ DeleteCheck(q) \/ Handle(q) \/ ApiDies(q)
          PROVE  FALSE
        BY <2>6 DEF SyncCheck, DeleteCheck, Handle, SyncQueue, SyncDispatch, DeleteList,
                    DeleteCommit, ApiDies, lockVars
    <2>7. ASSUME NEW d \in Doc, SourceChanges(d) PROVE FALSE
        BY <2>7 DEF SourceChanges, lockVars
    <2>8. CASE Beside
        BY <2>8, BesideLeaves DEF lockVars
    <2> QED
        BY <2>1, <2>2, <2>3, <2>4, <2>5, <2>6, <2>7, <2>8 DEF Next, Beside
<1> QED
    BY <1>1, TypeCorrect, LockInvariant, PTL DEF Spec, HolderKeepsLock

-----------------------------------------------------------------------------
(* Without a failing Redis or a stalled event loop, nothing expires under  *)
(* a working delivery, and one works at a time.                            *)

ReliableInv ==
    /\ LockInv
    /\ lapsed = {}
    /\ Critical \subseteq renewing

LEMMA ReliableNext ==
    ASSUME Fault \cap {"redis", "stall"} = {}
    PROVE  TypeOK /\ ReliableInv /\ [Next]_vars => ReliableInv'
<1> SUFFICES ASSUME TypeOK, ReliableInv, [Next]_vars PROVE ReliableInv'
    OBVIOUS
<1>1. LockInv'
    BY LockInvNext DEF ReliableInv
<1>2. ~Happens("redis") /\ ~Happens("stall")
    BY DEF Happens
<1> SUFFICES lapsed' = {} /\ Critical' \subseteq renewing'
    BY <1>1 DEF ReliableInv
<1>3. ASSUME NEW r \in Run, Take(r) \/ Redeliver(r)
      PROVE  lapsed' = {} /\ Critical' \subseteq renewing'
    BY <1>3, CriticalMove DEF ReliableInv, Take, Redeliver, Goto, Working
<1>4. ASSUME NEW r \in Run, NEW to \in {"idle", "dead"}, End(r, to)
      PROVE  lapsed' = {} /\ Critical' \subseteq renewing'
    BY <1>4 DEF ReliableInv, End, Critical, TypeOK, RunTypeOK, Working
<1>5. ASSUME NEW r \in Run, Progress(r)
      PROVE  lapsed' = {} /\ Critical' \subseteq renewing'
    <2>1. CASE Acquire(r)
        BY <2>1 DEF ReliableInv, Acquire, Goto, Critical, TypeOK, RunTypeOK
    <2>2. CASE Skip(r) \/ Release(r)
        BY <2>2, <1>4 DEF Skip, Release
    <2>3. CASE Lookup(r) \/ Mark(r) \/ Fetch(r) \/ FetchFails(r) \/ Compare(r)
        BY <2>3, CriticalMove
           DEF ReliableInv, Lookup, Mark, Fetch, FetchFails, Compare, Goto, Working
    <2>4. CASE \E d \in Doc : Persist(r, d) \/ DocFails(r, d)
        BY <2>4, CriticalMove DEF ReliableInv, Persist, DocFails, Goto, Working
    <2>5. CASE Record(r) \/ DocFailsLate(r) \/ LoopEnds(r) \/ UnexpectedError(r)
        BY <2>5, CriticalMove
           DEF ReliableInv, Record, DocFailsLate, LoopEnds, UnexpectedError, Goto, Working
    <2>6. CASE Finish(r) \/ JobFails(r)
        BY <2>6, CriticalMove DEF ReliableInv, Finish, JobFails, Goto, Working
    <2> QED
        BY <1>5, <2>1, <2>2, <2>3, <2>4, <2>5, <2>6 DEF Progress
<1>6. ASSUME NEW r \in Run, Dies(r)
      PROVE  lapsed' = {} /\ Critical' \subseteq renewing'
    BY <1>6, <1>4 DEF Dies, KillChild, LoseHost
<1>7. ASSUME NEW r \in Run, Renew(r) \/ RenewFails(r)
      PROVE  lapsed' = {} /\ Critical' \subseteq renewing'
    BY <1>2, <1>7 DEF ReliableInv, LockInv, Renew, RenewFails, Critical, lockVars
<1>8. CASE Lapse
    BY <1>2, <1>8 DEF ReliableInv, Lapse, Critical
<1>9. CASE ProcessDies
    BY <1>9 DEF ProcessDies, Critical, Working
<1>10. ASSUME NEW q \in Handler,
              SyncCheck(q) \/ DeleteCheck(q) \/ Handle(q) \/ ApiDies(q)
       PROVE  lapsed' = {} /\ Critical' \subseteq renewing'
    BY <1>10 DEF SyncCheck, DeleteCheck, Handle, SyncQueue, SyncDispatch, DeleteList,
                 DeleteCommit, ApiDies, ReliableInv, Critical, runVars
<1>11. ASSUME NEW d \in Doc, SourceChanges(d)
       PROVE  lapsed' = {} /\ Critical' \subseteq renewing'
    BY <1>11 DEF SourceChanges, ReliableInv, Critical, runVars
<1>12. CASE UNCHANGED vars
    BY <1>12 DEF vars, ReliableInv, Critical, runVars
<1>13. CASE Beside
    BY <1>13, BesideLeaves DEF ReliableInv, Critical, runVars
<1> QED
    BY <1>3, <1>5, <1>6, <1>7, <1>8, <1>9, <1>10, <1>11, <1>12, <1>13 DEF Next, Beside

\* worker.py, lines 10-12: a redelivered or duplicate task never runs alongside
\* another copy, whoever dies and whatever the API does meanwhile.
THEOREM NoCopyAlongside ==
    ASSUME Fault \cap {"redis", "stall"} = {}
    PROVE  Spec => []NeverAlongside
<1>1. Init => ReliableInv
    BY LockInvInit DEF ReliableInv, Init, Critical, Working
<1>2. TypeOK /\ ReliableInv /\ [Next]_vars => ReliableInv'
    BY ReliableNext
<1>3. ReliableInv => NeverAlongside
    BY DEF ReliableInv, LockInv, NeverAlongside
<1> QED
    BY <1>1, <1>2, <1>3, TypeCorrect, PTL DEF Spec

-----------------------------------------------------------------------------
(* What the artifacts hold, while one delivery works at a time and no      *)
(* document goes back to an older content.  Neither OkMeansStored nor      *)
(* NoRegress is inductive: a skipped document is stored because its        *)
(* recorded hash is not ahead of its artifact unless users changed that,   *)
(* an artifact does not go back because no fetched content is behind it,   *)
(* and nobody but the working delivery has one.                            *)

\* The artifact holds what a delivery fetched, but for what users made of it since.
Holds(r, d) == artifact[d] = fetched[r][d] \/ d \in edited

\* What a delivery has stored, by the point it has reached.
RunStored(r) ==
    /\ outcome[r] = "ok" /\ pc[r] = "compare" => \A d \in Doc : fetched[r][d] # 0
    /\ pc[r] \in {"ingest", "record"} => \A d \in todo[r] : fetched[r][d] # 0
    /\ outcome[r] = "ok" /\ pc[r] \in {"ingest", "record"}
       => \A d \in Doc \ todo[r] : recorded[d] = fetched[r][d] /\ Holds(r, d)
    /\ pc[r] = "record" => doc[r] \in todo[r] /\ Holds(r, doc[r])
    /\ outcome[r] = "ok" /\ pc[r] = "finish"
       => \A d \in Doc : recorded[d] = fetched[r][d] /\ Holds(r, d)

StoredInv ==
    /\ \A d \in Doc : artifact[d] <= source[d] /\ recorded[d] <= source[d]
    /\ \A r \in Run, d \in Doc :
          /\ fetched[r][d] <= source[d]
          /\ fetched[r][d] = 0 \/ (artifact[d] <= fetched[r][d] /\ recorded[d] <= fetched[r][d])
    /\ \A r \in Run : r \notin Critical => fetched[r] = Nothing
    /\ row = "present" => /\ \A d \in Doc \ edited : recorded[d] <= artifact[d]
                          /\ \A r \in Run : RunStored(r)

\* Contents are natural numbers, and every source has one.
LEMMA ContentType ==
    ASSUME TypeOK
    PROVE  /\ \A d \in Doc : source[d] \in Nat \ {0} /\ artifact[d] \in Nat /\ recorded[d] \in Nat
           /\ \A r \in Run, d \in Doc : fetched[r][d] \in Nat
<1>1. Version \subseteq Nat \ {0} /\ Stored \subseteq Nat
    BY ConstantsAssumption DEF Version, Stored
<1> QED
    BY <1>1 DEF TypeOK, DocTypeOK, RunTypeOK

LEMMA StoredInit == Init => StoredInv
BY ContentType, InitType DEF Init, StoredInv, RunStored, Nothing, Critical, Working

\* A delivery that is outside the block after a step has stored nothing it must answer for.
LEMMA RunStoredOutside ==
    ASSUME NEW r \in Run, r \notin Critical'
    PROVE  RunStored(r)'
BY DEF RunStored, Critical, Working

\* A step of one delivery that leaves the documents alone, and its own fetched
\* contents too unless it ends.
LEMMA StoredMove ==
    ASSUME TypeOK, StoredInv, UNCHANGED docVars, row' = row, NEW r \in Run,
           \A s \in Run \ {r} : /\ pc'[s] = pc[s]
                                /\ fetched'[s] = fetched[s]
                                /\ todo'[s] = todo[s]
                                /\ doc'[s] = doc[s]
                                /\ outcome'[s] = outcome[s],
           fetched'[r] \in {fetched[r], Nothing},
           pc'[r] \in Working \/ fetched'[r] = Nothing,
           row = "present" => RunStored(r)'
    PROVE  StoredInv'
<1>1. \A s \in Run \ {r} : RunStored(s) => RunStored(s)'
    BY DEF RunStored, Holds, docVars
<1>2. \A d \in Doc : Nothing[d] = 0 /\ 0 <= source[d]
    BY ContentType DEF Nothing
<1>3. \A s \in Run, d \in Doc :
          fetched'[s][d] = fetched[s][d] \/ fetched'[s][d] = 0
    BY <1>2
<1>4. \A s \in Run, d \in Doc :
          /\ fetched'[s][d] <= source'[d]
          /\ \/ fetched'[s][d] = 0
             \/ artifact'[d] <= fetched'[s][d] /\ recorded'[d] <= fetched'[s][d]
    BY <1>2, <1>3 DEF StoredInv, docVars
<1>5. \A s \in Run : s \notin Critical' => fetched'[s] = Nothing
    BY DEF StoredInv, Critical
<1> QED
    BY <1>1, <1>4, <1>5 DEF StoredInv, docVars

\* A delivery's end.
LEMMA StoredEnd ==
    ASSUME TypeOK, StoredInv, UNCHANGED <<docVars, row>>,
           NEW r \in Run, NEW to \in {"idle", "dead"}, End(r, to)
    PROVE  StoredInv'
<1>1. RunStored(r)'
    BY DEF RunStored, End, TypeOK, RunTypeOK
<1> QED
    BY <1>1, StoredMove DEF End, TypeOK, RunTypeOK

\* A step that moves a working delivery on, and may change its outcome or shorten
\* its list, but neither what it fetched nor the documents.
LEMMA StoredOn ==
    ASSUME TypeOK, StoredInv, UNCHANGED <<docVars, row, fetched>>,
           NEW r \in Run,
           \A s \in Run \ {r} : /\ pc'[s] = pc[s]
                                /\ todo'[s] = todo[s]
                                /\ doc'[s] = doc[s]
                                /\ outcome'[s] = outcome[s],
           pc'[r] \in Working \/ r \notin Critical,
           row = "present" => RunStored(r)'
    PROVE  StoredInv'
<1>1. pc'[r] \in Working \/ fetched'[r] = Nothing
    BY DEF StoredInv, Critical
<1> QED
    BY <1>1, StoredMove

LEMMA StoredProgress ==
    ASSUME TypeOK, ReliableInv, ReliableInv', StoredInv, NEW r \in Run, Progress(r)
    PROVE  StoredInv'
<1> USE DEF TypeOK, RunTypeOK
<1>1. CASE Acquire(r)
    <2>1. RunStored(r)'
        BY <1>1 DEF Acquire, Goto, RunStored
    <2> QED
        BY <1>1, <2>1, StoredOn DEF Acquire, Goto, Working, docVars, rowVars
<1>2. CASE Skip(r) \/ Release(r)
    BY <1>2, StoredEnd DEF Skip, Release, rowVars
<1>3. CASE Lookup(r) \/ Mark(r) \/ Finish(r) \/ JobFails(r)
    <2>1. RunStored(r)' /\ row' = row
        BY <1>3 DEF Lookup, Mark, Finish, JobFails, Update, Goto, RunStored, rowVars
    <2> QED
        BY <1>3, <2>1, StoredOn
           DEF Lookup, Mark, Finish, JobFails, Goto, Working, docVars, rowVars
<1>4. CASE FetchFails(r) \/ UnexpectedError(r)
    <2>1. RunStored(r)'
        BY <1>4 DEF FetchFails, UnexpectedError, Goto, RunStored
    <2> QED
        BY <1>4, <2>1, StoredOn
           DEF FetchFails, UnexpectedError, Goto, Working, docVars, rowVars
<1>5. CASE Fetch(r)
    <2>1. PICK unread \in SUBSET Doc :
              /\ fetched' = [fetched EXCEPT ![r] = [d \in Doc |-> IF d \in unread THEN 0 ELSE source[d]]]
              /\ outcome' = [outcome EXCEPT ![r] = IF unread = {} THEN @ ELSE "partial"]
        BY <1>5 DEF Fetch
    <2>2. UNCHANGED <<row, source, artifact, recorded, edited, todo, doc>>
        BY <1>5 DEF Fetch, rowVars, docVars
    <2>3. /\ \A d \in Doc : fetched'[r][d] = IF d \in unread THEN 0 ELSE source[d]
          /\ outcome'[r] = "ok" => unread = {}
          /\ pc'[r] = "compare"
        BY <1>5, <2>1 DEF Fetch, Goto
    <2>4. \A s \in Run \ {r} : fetched'[s] = fetched[s] /\ outcome'[s] = outcome[s] /\ pc'[s] = pc[s]
        BY <1>5, <2>1 DEF Fetch, Goto
    <2>5. RunStored(r)'
        BY <2>3, ContentType DEF RunStored
    <2>6. \A s \in Run \ {r} : RunStored(s) => RunStored(s)'
        BY <2>2, <2>4 DEF RunStored, Holds
    <2>7. \A s \in Run, d \in Doc :
              /\ fetched'[s][d] <= source'[d]
              /\ \/ fetched'[s][d] = 0
                 \/ artifact'[d] <= fetched'[s][d] /\ recorded'[d] <= fetched'[s][d]
        <3> SUFFICES ASSUME NEW s \in Run, NEW d \in Doc
                     PROVE  /\ fetched'[s][d] <= source'[d]
                            /\ \/ fetched'[s][d] = 0
                               \/ /\ artifact'[d] <= fetched'[s][d]
                                  /\ recorded'[d] <= fetched'[s][d]
            OBVIOUS
        <3>1. CASE s = r
            BY <3>1, <2>2, <2>3, ContentType DEF StoredInv
        <3>2. CASE s # r
            BY <3>2, <2>2, <2>4 DEF StoredInv
        <3> QED
            BY <3>1, <3>2
    <2>8. \A s \in Run : s \notin Critical' => fetched'[s] = Nothing
        BY <2>3, <2>4 DEF StoredInv, Critical, Working
    <2> QED
        BY <2>2, <2>5, <2>6, <2>7, <2>8 DEF StoredInv
<1>6. CASE Compare(r)
    <2>1. row = "present" => RunStored(r)'
        <3> SUFFICES ASSUME row = "present" PROVE RunStored(r)'
            OBVIOUS
        <3>1. /\ todo'[r] = {d \in Doc : fetched[r][d] \notin {0, recorded[d]}}
              /\ pc[r] = "compare" /\ pc'[r] = "ingest"
              /\ UNCHANGED <<fetched, outcome, artifact, recorded, edited>>
            BY <1>6 DEF Compare, Goto, docVars
        <3>2. outcome[r] = "ok" => \A d \in Doc : fetched[r][d] # 0
            BY <3>1 DEF StoredInv, RunStored
        <3>3. ASSUME outcome[r] = "ok", NEW d \in Doc \ todo'[r]
              PROVE  recorded[d] = fetched[r][d] /\ Holds(r, d)
            <4>1. fetched[r][d] = recorded[d] /\ fetched[r][d] # 0
                BY <3>1, <3>2, <3>3
            <4>2. artifact[d] \in Nat /\ fetched[r][d] \in Nat
                BY ContentType
            <4>3. d \in edited \/ fetched[r][d] <= artifact[d]
                BY <4>1 DEF StoredInv
            <4>4. artifact[d] <= fetched[r][d]
                BY <4>1 DEF StoredInv
            <4>5. CASE d \in edited
                BY <4>1, <4>5 DEF Holds
            <4>6. CASE d \notin edited
                <5>1. fetched[r][d] = artifact[d]
                    BY SMTT(30), <4>2, <4>3, <4>4, <4>6
                <5> QED
                    BY <4>1, <5>1 DEF Holds
            <4> QED
                BY <4>5, <4>6
        <3> QED
            BY <3>1, <3>2, <3>3 DEF RunStored, Holds
    <2> QED
        BY <1>6, <2>1, StoredOn DEF Compare, Goto, Working, docVars, rowVars
<1>7. CASE \E d \in Doc : Persist(r, d)
    <2>1. PICK d \in Doc : Persist(r, d)
        BY <1>7
    <2>2. /\ pc[r] = "ingest" /\ pc'[r] = "record" /\ doc'[r] = d
          /\ d \in todo[r]
          /\ artifact' = [artifact EXCEPT ![d] = fetched[r][d]]
          /\ edited' = edited \ {d}
          /\ UNCHANGED <<row, source, recorded, fetched, todo, outcome>>
        BY <2>1 DEF Persist, Goto, rowVars
    <2>3. /\ artifact'[d] = fetched[r][d]
          /\ \A e \in Doc \ {d} : artifact'[e] = artifact[e]
        BY <2>2 DEF DocTypeOK
    <2>4. Critical' = {r}
        BY <2>2 DEF Critical, Working, ReliableInv, LockInv
    <2>5. \A s \in Run : s \notin Critical' => fetched'[s] = Nothing
        <3>1. Critical = {r}
            BY <2>2 DEF Critical, Working, ReliableInv, LockInv
        <3> QED
            BY <2>2, <2>4, <3>1 DEF StoredInv
    <2>6. \A s \in Run, e \in Doc :
              /\ fetched'[s][e] <= source'[e]
              /\ \/ fetched'[s][e] = 0
                 \/ artifact'[e] <= fetched'[s][e] /\ recorded'[e] <= fetched'[s][e]
        <3> SUFFICES ASSUME NEW s \in Run, NEW e \in Doc
                     PROVE  fetched[s][e] = 0 \/ artifact'[e] <= fetched[s][e]
            BY <2>2 DEF StoredInv
        <3>1. CASE s = r
            BY <3>1, <2>3, ContentType DEF StoredInv
        <3>2. CASE s # r
            BY <3>2, <2>2, <2>4, <2>5 DEF Nothing
        <3> QED
            BY <3>1, <3>2
    <2>7. \A e \in Doc : artifact'[e] <= source'[e] /\ recorded'[e] <= source'[e]
        BY <2>2, <2>3 DEF StoredInv
    <2>8. ASSUME row = "present"
          PROVE  /\ \A e \in Doc \ edited' : recorded'[e] <= artifact'[e]
                 /\ \A s \in Run : RunStored(s)'
        <3>1. fetched[r][d] # 0 /\ recorded[d] <= fetched[r][d] /\ RunStored(r)
            BY <2>2, <2>8 DEF StoredInv, RunStored
        <3>2. \A e \in Doc \ edited' : recorded'[e] <= artifact'[e]
            BY <2>2, <2>3, <2>8, <3>1 DEF StoredInv
        <3>3. RunStored(r)'
            BY <2>2, <2>3, <3>1 DEF RunStored, Holds
        <3>4. \A s \in Run \ {r} : RunStored(s)'
            BY <2>4, RunStoredOutside
        <3> QED
            BY <3>2, <3>3, <3>4
    <2> QED
        BY <2>2, <2>5, <2>6, <2>7, <2>8 DEF StoredInv
<1>8. CASE Record(r)
    <2>1. /\ pc[r] = "record" /\ pc'[r] = "ingest"
          /\ recorded' = [recorded EXCEPT ![doc[r]] = fetched[r][doc[r]]]
          /\ todo'[r] = todo[r] \ {doc[r]}
          /\ \A s \in Run \ {r} : pc'[s] = pc[s]
          /\ UNCHANGED <<row, source, artifact, edited, fetched, outcome>>
        BY <1>8 DEF Record, Goto, rowVars
    <2>2. Critical' = Critical
        BY <1>8, CriticalMove DEF Record, Goto, Working
    <2>3. Critical' = {r}
        BY <2>1 DEF Critical, Working, ReliableInv, LockInv
    <2>5. \A e \in Doc : recorded'[e] = IF e = doc[r] THEN fetched[r][e] ELSE recorded[e]
        BY <2>1 DEF DocTypeOK
    <2>4. ASSUME row = "present"
          PROVE  /\ \A e \in Doc \ edited' : recorded'[e] <= artifact'[e]
                 /\ \A s \in Run : RunStored(s)'
        <3>1. RunStored(r) /\ \A e \in Doc \ edited : recorded[e] <= artifact[e]
            BY <2>4 DEF StoredInv
        <3>2. \A e \in Doc \ edited' : recorded'[e] <= artifact'[e]
            BY <2>1, <2>5, <3>1, ContentType DEF RunStored, Holds
        <3>3. RunStored(r)'
            BY <2>1, <2>5, <3>1 DEF RunStored, Holds
        <3>4. \A s \in Run \ {r} : RunStored(s)'
            BY <2>3, RunStoredOutside
        <3> QED
            BY <3>2, <3>3, <3>4
    <2>6. \A e \in Doc : recorded'[e] <= source'[e]
        BY <2>1, <2>5 DEF StoredInv
    <2>7. \A s \in Run, e \in Doc :
              \/ fetched'[s][e] = 0
              \/ artifact'[e] <= fetched'[s][e] /\ recorded'[e] <= fetched'[s][e]
        <3> SUFFICES ASSUME NEW s \in Run, NEW e \in Doc
                     PROVE  fetched[s][e] = 0 \/ recorded'[e] <= fetched[s][e]
            BY <2>1 DEF StoredInv
        <3>1. CASE s = r
            BY <3>1, <2>5, ContentType DEF StoredInv
        <3>2. CASE s # r
            BY <3>2, <2>2, <2>3 DEF StoredInv, Nothing
        <3> QED
            BY <3>1, <3>2
    <2> QED
        BY <2>1, <2>2, <2>4, <2>6, <2>7 DEF StoredInv
<1>9. CASE \E d \in Doc : DocFails(r, d)
    <2>1. RunStored(r) => RunStored(r)'
        BY <1>9 DEF DocFails, Goto, RunStored, Holds
    <2> QED
        BY <1>9, <2>1, StoredOn DEF DocFails, Goto, Working, docVars, rowVars, StoredInv
<1>10. CASE DocFailsLate(r)
    <2>1. RunStored(r) => RunStored(r)'
        BY <1>10 DEF DocFailsLate, Goto, RunStored, Holds
    <2> QED
        BY <1>10, <2>1, StoredOn DEF DocFailsLate, Goto, Working, docVars, rowVars, StoredInv
<1>11. CASE LoopEnds(r)
    <2>1. RunStored(r) => RunStored(r)'
        BY <1>11 DEF LoopEnds, Goto, RunStored, Holds, docVars
    <2> QED
        BY <1>11, <2>1, StoredOn DEF LoopEnds, Goto, Working, docVars, rowVars, StoredInv
<1> QED
    BY <1>1, <1>2, <1>3, <1>4, <1>5, <1>6, <1>7, <1>8, <1>9, <1>10, <1>11 DEF Progress

\* What a deletion of the row leaves of artifacts and records.
LEMMA StoredEmptied ==
    ASSUME TypeOK, StoredInv, row' # "present", UNCHANGED <<source, runVars>>,
           \A d \in Doc : artifact'[d] \in {0, artifact[d]} /\ recorded'[d] = 0
    PROVE  StoredInv'
<1>1. \A d \in Doc : artifact'[d] <= source'[d] /\ recorded'[d] <= source'[d]
    BY ContentType DEF StoredInv
<1>2. \A r \in Run, d \in Doc :
          \/ fetched[r][d] = 0
          \/ artifact'[d] <= fetched[r][d] /\ recorded'[d] <= fetched[r][d]
    BY ContentType DEF StoredInv
<1>3. Critical' = Critical
    BY DEF Critical, runVars
<1> QED
    BY <1>1, <1>2, <1>3 DEF StoredInv, runVars

\* Edits and deletions of artifacts take nothing from what the syncs answer for.
LEMMA StoredBeside ==
    ASSUME TypeOK, StoredInv, Beside
    PROVE  StoredInv'
<1>1. CASE DeleteSpace
    <2>1. row' # "present" /\ UNCHANGED <<source, runVars>>
        BY <1>1 DEF DeleteSpace, BesideSyncs
    <2>2. \A d \in Doc : artifact'[d] = 0 /\ recorded'[d] = 0
        BY <1>1 DEF DeleteSpace, Nothing
    <2> QED
        BY <2>1, <2>2, StoredEmptied
<1>2. ASSUME NEW e \in Doc, EditArtifact(e) \/ DeleteArtifact(e)
      PROVE  StoredInv'
    <2>1. UNCHANGED <<row, recorded, source, runVars>>
        BY <1>2 DEF EditArtifact, DeleteArtifact, BesideSyncs
    <2>2. \A d \in Doc : artifact'[d] = artifact[d] \/ (d = e /\ artifact'[d] = 0)
        BY <1>2 DEF EditArtifact, DeleteArtifact, TypeOK, DocTypeOK
    <2>3. \A d \in Doc : artifact'[d] <= source'[d]
        BY <2>1, <2>2, ContentType DEF StoredInv
    <2>4. \A r \in Run, d \in Doc : fetched[r][d] = 0 \/ artifact'[d] <= fetched[r][d]
        BY <2>2, ContentType DEF StoredInv
    <2>5. row = "present" => edited' = edited \cup {e}
        BY <1>2 DEF EditArtifact, DeleteArtifact
    <2>6. ASSUME row = "present", NEW r \in Run, RunStored(r)
          PROVE  RunStored(r)'
        <3>1. \A d \in Doc : Holds(r, d) => Holds(r, d)'
            BY <2>1, <2>2, <2>5, <2>6 DEF Holds, runVars
        <3>2. todo[r] \subseteq Doc
            BY DEF TypeOK, RunTypeOK
        <3> QED
            BY <2>1, <2>6, <3>1, <3>2 DEF RunStored, runVars
    <2>7. row = "present" => \A d \in Doc \ edited' : recorded'[d] <= artifact'[d]
        BY <2>1, <2>2, <2>5 DEF StoredInv
    <2>8. Critical' = Critical
        BY <2>1 DEF Critical, runVars
    <2> QED
        BY <2>1, <2>3, <2>4, <2>6, <2>7, <2>8 DEF StoredInv, runVars
<1> QED
    BY <1>1, <1>2 DEF Beside

\* A deletion empties artifacts and their records together with the row; the
\* sources only move forward.
LEMMA StoredHandler ==
    ASSUME TypeOK, StoredInv, NEW q \in Handler,
           SyncCheck(q) \/ DeleteCheck(q) \/ Handle(q) \/ ApiDies(q)
    PROVE  StoredInv'
<1>1. UNCHANGED runVars /\ Critical' = Critical
    BY DEF SyncCheck, DeleteCheck, Handle, SyncQueue, SyncDispatch, DeleteList, DeleteCommit,
           ApiDies, Critical, runVars
<1>2. \A r \in Run : UNCHANGED docVars /\ RunStored(r) => RunStored(r)'
    BY <1>1 DEF RunStored, Holds, runVars, docVars
<1>3. CASE UNCHANGED <<row, docVars>>
    BY <1>1, <1>2, <1>3 DEF StoredInv, docVars, runVars
<1>4. CASE DeleteCommit(q)
    <2>1. row' # "present" /\ source' = source
        BY <1>4 DEF DeleteCommit
    <2>2. \A d \in Doc : artifact'[d] \in {0, artifact[d]} /\ recorded'[d] = 0
        BY <1>4 DEF DeleteCommit, Nothing
    <2> QED
        BY <1>1, <2>1, <2>2, StoredEmptied
<1> QED
    BY <1>3, <1>4
       DEF SyncCheck, DeleteCheck, Handle, SyncQueue, SyncDispatch, DeleteList, ApiDies,
           Update, rowVars

LEMMA StoredNext ==
    ASSUME ~Reverts, TypeOK, ReliableInv, ReliableInv', StoredInv, [Next]_vars
    PROVE  StoredInv'
<1>1. ASSUME NEW r \in Run, Take(r) \/ Redeliver(r) PROVE StoredInv'
    <2>1. RunStored(r)'
        BY <1>1 DEF Take, Redeliver, Goto, RunStored, TypeOK, RunTypeOK
    <2> QED
        BY <1>1, <2>1, StoredOn
           DEF Take, Redeliver, Goto, Critical, Working, docVars, rowVars, TypeOK, RunTypeOK
<1>2. ASSUME NEW r \in Run, Progress(r) PROVE StoredInv'
    BY <1>2, StoredProgress
<1>3. ASSUME NEW r \in Run, Dies(r) PROVE StoredInv'
    BY <1>3, StoredEnd DEF Dies, KillChild, LoseHost, rowVars
<1>4. CASE UNCHANGED <<pc, fetched, todo, doc, outcome, row, docVars>>
    BY <1>4 DEF StoredInv, RunStored, Holds, Critical, docVars
<1>5. CASE ProcessDies
    <2>1. \A r \in Run : RunStored(r)'
        BY <1>5 DEF ProcessDies, RunStored
    <2>2. \A r \in Run, d \in Doc : fetched'[r][d] = 0
        BY <1>5 DEF ProcessDies, Nothing
    <2>3. \A d \in Doc : 0 <= source[d]
        BY ContentType
    <2> QED
        BY <1>5, <2>1, <2>2, <2>3 DEF ProcessDies, StoredInv, rowVars, docVars
<1>6. ASSUME NEW q \in Handler, SyncCheck(q) \/ DeleteCheck(q) \/ Handle(q) \/ ApiDies(q)
      PROVE  StoredInv'
    BY <1>6, StoredHandler
<1>7. ASSUME NEW d \in Doc, SourceChanges(d) PROVE StoredInv'
    <2>1. \A e \in Doc : source[e] <= source'[e] /\ source'[e] \in Nat
        BY <1>7, ConstantsAssumption, ContentType DEF SourceChanges, Version, TypeOK, DocTypeOK
    <2>2. UNCHANGED <<pc, fetched, todo, doc, outcome, row, artifact, recorded, edited>>
        BY <1>7 DEF SourceChanges, runVars, rowVars
    <2>3. \A e \in Doc : artifact'[e] <= source'[e] /\ recorded'[e] <= source'[e]
        BY <2>1, <2>2, ContentType DEF StoredInv
    <2>4. \A r \in Run, e \in Doc : fetched'[r][e] <= source'[e]
        BY <2>1, <2>2, ContentType DEF StoredInv
    <2> QED
        BY <2>2, <2>3, <2>4 DEF StoredInv, RunStored, Holds, Critical
<1>8. CASE UNCHANGED vars
    BY <1>4, <1>8 DEF vars, runVars, rowVars
<1>9. CASE Beside
    BY <1>9, StoredBeside
<1> QED
    BY <1>1, <1>2, <1>3, <1>4, <1>5, <1>6, <1>7, <1>8, <1>9
       DEF Next, Beside, Renew, RenewFails, Lapse, rowVars

\* The deliveries have stored what they must answer for, at every moment.
LEMMA StoredAlways ==
    ASSUME Fault \cap {"redis", "stall"} = {}, ~Reverts
    PROVE  Spec => [](ReliableInv /\ StoredInv)
<1>1. Init => ReliableInv /\ StoredInv
    BY LockInvInit, StoredInit DEF ReliableInv, Init, Critical, Working
<1>2. TypeOK /\ ReliableInv /\ StoredInv /\ [Next]_vars => ReliableInv' /\ StoredInv'
    BY ReliableNext, StoredNext
<1> QED
    BY <1>1, <1>2, TypeCorrect, PTL DEF Spec

\* A sync that is about to report "ok" has recorded and stored all it fetched,
\* whatever died before it between a document's two commits (the hash is recorded
\* last, and a document is skipped only by its recorded hash) and whatever else
\* wrote the artifacts: only what users edited or deleted since a sync stored it
\* holds something else.
THEOREM OkIsStored ==
    ASSUME Fault \cap {"redis", "stall"} = {}, ~Reverts
    PROVE  Spec => []OkMeansStored
<1>1. TypeOK /\ StoredInv => OkMeansStored
    <2> SUFFICES ASSUME TypeOK, StoredInv, NEW r \in Run,
                        pc[r] = "finish", outcome[r] = "ok", row = "present"
                 PROVE  \A d \in Doc : /\ recorded[d] = fetched[r][d]
                                       /\ artifact[d] = fetched[r][d] \/ d \in edited
        BY DEF OkMeansStored
    <2> QED
        BY DEF StoredInv, RunStored, Holds
<1> QED
    BY <1>1, StoredAlways, TypeCorrect, PTL

\* No sync replaces an artifact by an older content of its document, interrupted,
\* redelivered or raced by the API as it may be.
THEOREM NothingRegresses ==
    ASSUME Fault \cap {"redis", "stall"} = {}, ~Reverts
    PROVE  Spec => NoRegress
<1> DEFINE Forward == \A d \in Doc : artifact'[d] >= artifact[d] \/ artifact'[d] = 0
<1>1. TypeOK /\ StoredInv /\ [Next]_vars => [Forward]_vars
    <2> SUFFICES ASSUME TypeOK, StoredInv, Next, NEW d \in Doc
                 PROVE  artifact'[d] >= artifact[d] \/ artifact'[d] = 0
        OBVIOUS
    <2>1. CASE artifact' = artifact
        BY <2>1, ContentType
    <2>2. ASSUME NEW r \in Run, NEW e \in Doc, Persist(r, e)
          PROVE  artifact'[d] >= artifact[d] \/ artifact'[d] = 0
        <3>1. artifact' = [artifact EXCEPT ![e] = fetched[r][e]]
            BY <2>2 DEF Persist
        <3>2. artifact'[d] = IF d = e THEN fetched[r][d] ELSE artifact[d]
            BY <3>1 DEF TypeOK, DocTypeOK
        <3> QED
            BY <3>2, ContentType DEF StoredInv
    <2>3. ASSUME NEW q \in Handler, DeleteCommit(q)
          PROVE  artifact'[d] >= artifact[d] \/ artifact'[d] = 0
        BY <2>3, ContentType DEF DeleteCommit
    <2>4. CASE Beside
        BY <2>4, ContentType
           DEF Beside, DeleteSpace, EditArtifact, DeleteArtifact, Nothing, TypeOK, DocTypeOK
    <2> QED
        BY <2>1, <2>2, <2>3, <2>4
           DEF Next, Beside, Take, Progress, Dies, KillChild, LoseHost, Redeliver, Renew, RenewFails,
               Acquire, Skip, Lookup, Mark, Fetch, FetchFails, Compare, DocFails, Record,
               DocFailsLate, LoopEnds, UnexpectedError, Finish, JobFails, Release, Lapse,
               ProcessDies, SyncCheck, DeleteCheck, Handle, SyncQueue, SyncDispatch,
               DeleteList, ApiDies, SourceChanges, docVars
<1> QED
    BY <1>1, StoredAlways, TypeCorrect, PTL DEF Spec, NoRegress

-----------------------------------------------------------------------------
(* The displayed status implements ConnectorLifecycle.  The one state the  *)
(* abstract machine must rule out, a task for a connector still shown as   *)
(* "never", needs an invariant of its own.                                 *)

\* The connector was asked to sync, or is gone.
Accepted == row # "present" \/ status # "never"

AcceptedInv ==
    \/ Accepted
    \/ /\ queue = 0
       /\ \A r \in Run : pc[r] = "idle"
       /\ \A q \in Handler : rpc[q] # "dispatch"
       /\ ~live

LEMMA AcceptedStays ==
    ASSUME TypeOK, Accepted, [Next]_vars
    PROVE  Accepted'
<1>1. ASSUME NEW s \in {"queued", "running", "ok", "partial", "error"}, Update(s)
      PROVE  Accepted'
    BY <1>1 DEF Accepted, Update
<1>2. CASE UNCHANGED rowVars
    BY <1>2 DEF Accepted, rowVars
<1>3. ASSUME NEW r \in Run, Mark(r) \/ Finish(r) PROVE Accepted'
    BY <1>1, <1>3 DEF Mark, Finish, TypeOK, RunTypeOK
<1>4. ASSUME NEW r \in Run,
             Take(r) \/ Progress(r) \/ Dies(r) \/ Redeliver(r) \/ Renew(r) \/ RenewFails(r)
      PROVE  Accepted'
    BY <1>2, <1>3, <1>4
       DEF Take, Progress, Acquire, Skip, Lookup, Fetch, FetchFails, Compare, Persist,
           DocFails, Record, DocFailsLate, LoopEnds, UnexpectedError, JobFails, Release,
           Dies, KillChild, LoseHost, Redeliver, Renew, RenewFails
<1>5. ASSUME NEW q \in Handler, SyncCheck(q) \/ DeleteCheck(q) \/ Handle(q) \/ ApiDies(q)
      PROVE  Accepted'
    <2>1. CASE SyncQueue(q)
        BY <1>1, <2>1 DEF SyncQueue
    <2>2. CASE DeleteCommit(q)
        BY <2>2 DEF DeleteCommit, Accepted
    <2> QED
        BY <1>2, <1>5, <2>1, <2>2
           DEF Handle, SyncCheck, DeleteCheck, SyncDispatch, DeleteList, ApiDies
<1>6. CASE Beside
    BY <1>6, BesideLeaves DEF Beside, DeleteSpace, EditArtifact, DeleteArtifact, Accepted
<1> QED
    BY <1>2, <1>4, <1>5, <1>6 DEF Next, Beside, Lapse, ProcessDies, SourceChanges, vars

LEMMA AcceptedNext ==
    ASSUME TypeOK, LockInv, AcceptedInv, [Next]_vars
    PROVE  AcceptedInv'
<1>1. CASE Accepted
    BY <1>1, AcceptedStays DEF AcceptedInv
<1> SUFFICES ASSUME ~Accepted PROVE AcceptedInv'
    BY <1>1
<1>2. /\ queue = 0 /\ ~live
      /\ \A r \in Run : pc[r] = "idle"
      /\ \A q \in Handler : rpc[q] # "dispatch"
    BY DEF AcceptedInv
<1>3. Critical = {} /\ renewing = {}
    BY <1>2 DEF Critical, Working, LockInv
<1>4. ASSUME NEW r \in Run,
             Take(r) \/ Progress(r) \/ Dies(r) \/ Redeliver(r) \/ Renew(r) \/ RenewFails(r)
      PROVE  FALSE
    BY <1>2, <1>3, <1>4
       DEF Take, Progress, Goto, Acquire, Skip, Lookup, Mark, Fetch, FetchFails, Compare,
           Persist, DocFails, Record, DocFailsLate, LoopEnds, UnexpectedError, Finish,
           JobFails, Release, Dies, KillChild, LoseHost, Redeliver, Renew, RenewFails
<1>5. ASSUME NEW q \in Handler, SyncQueue(q) PROVE Accepted'
    BY <1>5 DEF SyncQueue, Update, Accepted
<1>6. ASSUME NEW q \in Handler,
             SyncCheck(q) \/ DeleteCheck(q) \/ SyncDispatch(q) \/ DeleteList(q)
             \/ DeleteCommit(q) \/ ApiDies(q)
      PROVE  AcceptedInv'
    BY <1>2, <1>6
       DEF SyncCheck, DeleteCheck, SyncDispatch, DeleteList, DeleteCommit, ApiDies, Enter,
           AcceptedInv, TypeOK, ApiTypeOK, lockVars, runVars
<1>7. CASE Lapse \/ ProcessDies
    BY <1>2, <1>7 DEF Lapse, Expire, ProcessDies, AcceptedInv
<1>8. CASE (\E d \in Doc : SourceChanges(d)) \/ UNCHANGED vars
    BY <1>2, <1>8 DEF SourceChanges, vars, AcceptedInv, lockVars, runVars, apiVars
<1>9. CASE Beside
    BY <1>2, <1>9, BesideLeaves DEF AcceptedInv, lockVars, runVars, apiVars
<1> QED
    BY <1>4, <1>5, <1>6, <1>7, <1>8, <1>9 DEF Next, Beside, Handle, AcceptedInv

\* A change of the row or of the lock is a step of the life cycle.
LEMMA LockGone ==
    ASSUME TypeOK, Accepted, live, ~live', UNCHANGED rowVars
    PROVE  [Lifecycle!Next]_Shown
BY DEF Shown, Accepted, rowVars, TypeOK, RowTypeOK, Lifecycle!Next, Lifecycle!Queue,
       Lifecycle!Stop, Lifecycle!Outcome

LEMMA LockTaken ==
    ASSUME TypeOK, Accepted, ~live, live', UNCHANGED rowVars
    PROVE  [Lifecycle!Next]_Shown
BY DEF Shown, Accepted, rowVars, TypeOK, RowTypeOK, Lifecycle!Next, Lifecycle!Start

LEMMA NothingShown ==
    ASSUME live' = live, UNCHANGED rowVars
    PROVE  [Lifecycle!Next]_Shown
BY DEF Shown, rowVars

LEMMA UpdatedUnderLock ==
    ASSUME NEW s, Update(s), live, live'
    PROVE  UNCHANGED Shown
BY DEF Shown, Update

\* The steps of a task on its delivery.
LEMMA ProgressShown ==
    ASSUME TypeOK, ReliableInv, Accepted, NEW r \in Run, Progress(r)
    PROVE  [Lifecycle!Next]_Shown
<1>1. pc[r] \in Working => owner = r /\ live
    BY DEF ReliableInv, LockInv, Critical
<1>2. CASE Acquire(r)
    BY <1>2, LockTaken DEF Acquire, Grant, Held
<1>3. CASE Release(r)
    <2>1. CASE live' = live
        BY <1>3, <2>1, NothingShown DEF Release
    <2>2. CASE live' # live
        BY <1>1, <1>3, <2>2, LockGone DEF Release, Free, Working, lockVars
    <2> QED
        BY <2>1, <2>2
<1>4. CASE Mark(r) \/ Finish(r)
    BY <1>1, <1>4, UpdatedUnderLock DEF Mark, Finish, Goto, Working, lockVars
<1>5. CASE UNCHANGED <<live, rowVars>>
    BY <1>5, NothingShown
<1> QED
    BY <1>2, <1>3, <1>4, <1>5
       DEF Progress, Skip, Lookup, Fetch, FetchFails, Compare, Persist, DocFails, Record,
           DocFailsLate, LoopEnds, UnexpectedError, JobFails, lockVars

LEMMA HandlerShown ==
    ASSUME TypeOK, NEW q \in Handler,
           SyncCheck(q) \/ DeleteCheck(q) \/ Handle(q) \/ ApiDies(q)
    PROVE  [Lifecycle!Next]_Shown
<1>1. CASE SyncQueue(q)
    BY <1>1 DEF SyncQueue, Update, Shown, TypeOK, RowTypeOK, lockVars, Lifecycle!Next,
                Lifecycle!Queue
<1>2. CASE DeleteCommit(q)
    BY <1>2 DEF DeleteCommit, Shown, TypeOK, RowTypeOK, lockVars, Lifecycle!Next,
                Lifecycle!Delete
<1>3. CASE UNCHANGED <<live, rowVars>>
    BY <1>3, NothingShown
<1> QED
    BY <1>1, <1>2, <1>3
       DEF Handle, SyncCheck, DeleteCheck, SyncDispatch, DeleteList, ApiDies, lockVars

LEMMA ShownNext ==
    ASSUME Fault \cap {"redis", "stall"} = {},
           TypeOK, ReliableInv, AcceptedInv, [Next]_vars
    PROVE  [Lifecycle!Next]_Shown
<1>1. ASSUME NEW r \in Run, Progress(r) PROVE [Lifecycle!Next]_Shown
    <2>1. CASE Accepted
        BY <1>1, <2>1, ProgressShown
    <2>2. CASE ~Accepted
        BY <1>1, <2>2
           DEF AcceptedInv, Progress, Goto, Acquire, Skip, Lookup, Mark, Fetch, FetchFails,
               Compare, Persist, DocFails, Record, DocFailsLate, LoopEnds, UnexpectedError,
               Finish, JobFails, Release
    <2> QED
        BY <2>1, <2>2
<1>2. ASSUME NEW r \in Run, Renew(r) PROVE [Lifecycle!Next]_Shown
    <2>1. owner = r /\ live
        BY <1>2 DEF Renew, ReliableInv, LockInv
    <2> QED
        BY <1>2, <2>1, NothingShown DEF Renew, lockVars
<1>3. ASSUME NEW r \in Run, Take(r) \/ Dies(r) \/ Redeliver(r) \/ RenewFails(r)
      PROVE  [Lifecycle!Next]_Shown
    BY <1>3, NothingShown DEF Take, Dies, KillChild, LoseHost, Redeliver, RenewFails, lockVars
<1>4. CASE Lapse
    BY <1>4, LockGone DEF Lapse, Expire, AcceptedInv
<1>5. CASE ProcessDies
    BY <1>5, LockGone, NothingShown DEF ProcessDies, AcceptedInv, TypeOK, LockTypeOK
<1>6. ASSUME NEW q \in Handler, SyncCheck(q) \/ DeleteCheck(q) \/ Handle(q) \/ ApiDies(q)
      PROVE  [Lifecycle!Next]_Shown
    BY <1>6, HandlerShown
<1>7. CASE (\E d \in Doc : SourceChanges(d)) \/ UNCHANGED vars
    BY <1>7, NothingShown DEF SourceChanges, vars, lockVars
<1>8. CASE Beside
    <2>1. CASE DeleteSpace
        BY <2>1 DEF DeleteSpace, BesideSyncs, Shown, TypeOK, RowTypeOK, lockVars,
                    Lifecycle!Next, Lifecycle!Delete
    <2>2. CASE UNCHANGED <<live, rowVars>>
        BY <2>2, NothingShown
    <2> QED
        BY <1>8, <2>1, <2>2, BesideLeaves
           DEF Beside, EditArtifact, DeleteArtifact, lockVars, rowVars
<1> QED
    BY <1>1, <1>2, <1>3, <1>4, <1>5, <1>6, <1>7, <1>8 DEF Next, Beside

\* What the page shows follows the connector's life cycle: an outcome comes from
\* a running sync only, and a deleted connector never comes back (_public, the
\* handlers of routers/connectors.py and _run_sync_locked).
THEOREM ShowsLifecycle ==
    ASSUME Fault \cap {"redis", "stall"} = {}
    PROVE  Spec => FollowsLifecycle
<1>1. Init => Lifecycle!Init
    BY DEF Init, LockInit, Shown, Lifecycle!Init
<1>2. Init => AcceptedInv
    BY DEF Init, LockInit, AcceptedInv
<1>3. Init => ReliableInv
    BY LockInvInit DEF ReliableInv, Init, Critical, Working
<1>4. TypeOK /\ ReliableInv /\ [Next]_vars => ReliableInv'
    BY ReliableNext
<1>5. TypeOK /\ ReliableInv /\ AcceptedInv /\ [Next]_vars => AcceptedInv'
    BY AcceptedNext DEF ReliableInv
<1>6. TypeOK /\ ReliableInv /\ AcceptedInv /\ [Next]_vars => [Lifecycle!Next]_Shown
    BY ShownNext
<1> QED
    BY <1>1, <1>2, <1>3, <1>4, <1>5, <1>6, TypeCorrect, PTL
       DEF Spec, FollowsLifecycle, Lifecycle!Spec
=============================================================================
