---------------------------- MODULE ConnectorSync ----------------------------
(***************************************************************************)
(* One connector of app/services/connectors/sync.py: the API handlers that *)
(* queue a sync or delete the connector (routers/connectors.py), the tasks *)
(* the worker runs for it (worker.py), the lock they share                 *)
(* (coordination.py) and the database rows they all write.  A handler is   *)
(* split where it awaits, and never inside a database transaction's        *)
(* commit.  Locks of different connectors share nothing, so one connector  *)
(* stands for all.  Beside them are the other writers of its artifacts:    *)
(* the routes that edit and delete an artifact (routers/knowledge.py) and  *)
(* the deletion of the whole space.  Neither knows of the lock, and the    *)
(* first two know nothing of the content hashes the next sync trusts.      *)
(***************************************************************************)
EXTENDS Naturals, FiniteSets

CONSTANTS
    Run,        \* deliveries of the sync task; each takes the lock with its own token
    NoRun,      \* no token
    Handler,    \* API requests in progress
    Doc,        \* the documents of the source
    NoDoc,
    MaxVersion, \* bound: the contents a document may have, oldest first
    Reverts,    \* whether a document may go back to an older content
    Fault,      \* the faults this instance allows, of AllFaults
    MaxFaults,  \* bound: how many happen
    MaxTasks    \* bound: tasks queued, on their way to the queue, or running

AllFaults == {"kill", "hostloss", "redis", "stall", "db", "api"}

ASSUME ConstantsAssumption ==
    /\ NoRun \notin Run
    /\ NoDoc \notin Doc
    /\ MaxVersion \in Nat \ {0}
    /\ Reverts \in BOOLEAN
    /\ Fault \subseteq AllFaults
    /\ MaxFaults \in Nat
    /\ MaxTasks \in Nat

VARIABLES
    workerMode, owner, live,          \* the connector's lock: see Locks
    queue,      \* tasks waiting on the broker
    pc,         \* where each delivery's task is; "dead" is unacknowledged on a lost host
    renewing,   \* the deliveries whose renewer task still runs
    lapsed,     \* history: working deliveries whose lock expired under them
    fetched,    \* per delivery, what was read from the source, 0 where nothing
    todo,       \* per delivery, the documents still to ingest
    doc,        \* per delivery, the document being ingested
    outcome,    \* per delivery, the last_status it will write
    row,        \* the Connector row: present, deleted, or purged with its artifacts
    status,     \* its last_status
    source,     \* the contents at the external source
    artifact,   \* the contents of the artifacts, 0 where there is none
    recorded,   \* the content hashes of the SyncedDocument rows, 0 where there is none
    edited,     \* history: while the row is there, the documents whose artifact was edited or
                \* deleted by others since a sync stored it
    rpc,        \* where each API handler is
    listed,     \* per handler, the artifacts a delete found
    faultsLeft

lockVars == <<owner, live>>
runVars == <<pc, renewing, lapsed, fetched, todo, doc, outcome>>
rowVars == <<row, status>>
docVars == <<source, artifact, recorded, edited>>
apiVars == <<rpc, listed>>
vars == <<workerMode, lockVars, queue, runVars, rowVars, docVars, apiVars, faultsLeft>>

INSTANCE Locks WITH Token <- Run, NoToken <- NoRun

Version == 1 .. MaxVersion
Stored == 0 .. MaxVersion
Nothing == [d \in Doc |-> 0]

Working == {"lookup", "mark", "fetch", "compare", "ingest", "record", "finish", "release"}

\* The deliveries inside held_lock's block.
Critical == {r \in Run : pc[r] \in Working}

Phase == Working \cup {"idle", "acquire", "dead"}

RunTypeOK ==
    /\ pc \in [Run -> Phase]
    /\ renewing \subseteq Run
    /\ lapsed \subseteq Run
    /\ fetched \in [Run -> [Doc -> Stored]]
    /\ todo \in [Run -> SUBSET Doc]
    /\ doc \in [Run -> Doc \cup {NoDoc}]
    /\ outcome \in [Run -> {"ok", "partial", "error"}]

RowTypeOK ==
    /\ row \in {"present", "deleted", "purged"}
    /\ status \in {"never", "queued", "running", "ok", "partial", "error"}

DocTypeOK ==
    /\ source \in [Doc -> Version]
    /\ artifact \in [Doc -> Stored]
    /\ recorded \in [Doc -> Stored]
    /\ edited \subseteq Doc

ApiTypeOK ==
    /\ rpc \in [Handler -> {"idle", "queue", "dispatch", "delete", "list", "purge"}]
    /\ listed \in [Handler -> SUBSET Doc]

TypeOK ==
    /\ LockTypeOK
    /\ RunTypeOK
    /\ RowTypeOK
    /\ DocTypeOK
    /\ ApiTypeOK
    /\ queue \in Nat
    /\ faultsLeft \in Nat

\* The connector as create_connector leaves it.
Init ==
    /\ LockInit
    /\ queue = 0
    /\ pc = [r \in Run |-> "idle"]
    /\ renewing = {}
    /\ lapsed = {}
    /\ fetched = [r \in Run |-> Nothing]
    /\ todo = [r \in Run |-> {}]
    /\ doc = [r \in Run |-> NoDoc]
    /\ outcome = [r \in Run |-> "ok"]
    /\ row = "present"
    /\ status = "never"
    /\ source = [d \in Doc |-> 1]
    /\ artifact = Nothing
    /\ recorded = Nothing
    /\ edited = {}
    /\ rpc = [q \in Handler |-> "idle"]
    /\ listed = [q \in Handler |-> {}]
    /\ faultsLeft = MaxFaults

-----------------------------------------------------------------------------
(* Helpers.                                                                *)

Happens(f) == f \in Fault /\ faultsLeft > 0 /\ faultsLeft' = faultsLeft - 1

NoFault == UNCHANGED faultsLeft

Goto(r, from, to) == pc[r] = from /\ pc' = [pc EXCEPT ![r] = to]

\* ConnectorRepository.update: UPDATE ... WHERE id, without UPSERT.
\* (Mutant: with UPSERT, it would bring a deleted row back.)
Upsert(s) == status' = s /\ row' = "present"
Update(s) ==
    /\ status' = IF row = "present" THEN s ELSE status
    /\ UNCHANGED row

\* The delivery is over: its renewer and its memory are gone.
End(r, to) ==
    /\ pc' = [pc EXCEPT ![r] = to]
    /\ renewing' = renewing \ {r}
    /\ lapsed' = lapsed \ {r}
    /\ fetched' = [fetched EXCEPT ![r] = Nothing]
    /\ todo' = [todo EXCEPT ![r] = {}]
    /\ doc' = [doc EXCEPT ![r] = NoDoc]
    /\ outcome' = [outcome EXCEPT ![r] = "ok"]

-----------------------------------------------------------------------------
(* The worker: one delivery of kh.sync_connector.                          *)

\* The broker hands a task to a worker process.  The token it will use is fresh.
\* (Mutant: without looking at the queue.)
TakeAnyway(r) ==
    /\ Goto(r, "idle", "acquire")
    /\ queue' = queue - 1
    /\ UNCHANGED <<workerMode, owner, live, renewing, lapsed, fetched, todo, doc, outcome,
                   rowVars, docVars, apiVars, faultsLeft>>
Take(r) ==
    /\ queue > 0
    /\ owner # r
    /\ Goto(r, "idle", "acquire")
    /\ queue' = queue - 1
    /\ UNCHANGED <<workerMode, owner, live, renewing, lapsed, fetched, todo, doc, outcome,
                   rowVars, docVars, apiVars, faultsLeft>>

\* held_lock takes the lock and starts its renewer.
\* (Mutant: the renewer is never started.)
AcquireUnrenewed(r) ==
    /\ Goto(r, "acquire", "lookup")
    /\ Grant(r)
    /\ UNCHANGED <<workerMode, queue, renewing, lapsed, fetched, todo, doc, outcome,
                   rowVars, docVars, apiVars, faultsLeft>>
Acquire(r) ==
    /\ Goto(r, "acquire", "lookup")
    /\ Grant(r)
    /\ renewing' = renewing \cup {r}
    /\ UNCHANGED <<workerMode, queue, lapsed, fetched, todo, doc, outcome,
                   rowVars, docVars, apiVars, faultsLeft>>

\* Someone else holds the lock, or Redis fails the call: the task ends, and is
\* acknowledged either way (an exception acknowledges too).
Skip(r) ==
    /\ pc[r] = "acquire"
    /\ \/ Held /\ NoFault
       \/ workerMode /\ Happens("redis")
    /\ End(r, "idle")
    /\ UNCHANGED <<workerMode, lockVars, queue, rowVars, docVars, apiVars>>

\* _run_sync_locked reads the connector; a deleted one ends the sync.
Lookup(r) ==
    /\ Goto(r, "lookup", IF row = "present" THEN "mark" ELSE "release")
    /\ UNCHANGED <<workerMode, lockVars, queue, renewing, lapsed, fetched, todo, doc, outcome,
                   rowVars, docVars, apiVars, faultsLeft>>

\* It commits last_status = "running".
Mark(r) ==
    /\ Goto(r, "mark", "fetch")
    /\ Update("running")
    /\ UNCHANGED <<workerMode, lockVars, queue, renewing, lapsed, fetched, todo, doc, outcome,
                   docVars, apiVars, faultsLeft>>

\* run_sync reads the source; documents it could not read make the sync partial.
Fetch(r) ==
    /\ Goto(r, "fetch", "compare")
    /\ \E unread \in SUBSET Doc :
         /\ fetched' = [fetched EXCEPT ![r] = [d \in Doc |-> IF d \in unread THEN 0 ELSE source[d]]]
         /\ outcome' = [outcome EXCEPT ![r] = IF unread = {} THEN @ ELSE "partial"]
    /\ UNCHANGED <<workerMode, lockVars, queue, renewing, lapsed, todo, doc,
                   rowVars, docVars, apiVars, faultsLeft>>

\* The source cannot be read (ConnectorError), or reading it crashes.
FetchFails(r) ==
    /\ Goto(r, "fetch", "finish")
    /\ outcome' = [outcome EXCEPT ![r] = "error"]
    /\ UNCHANGED <<workerMode, lockVars, queue, renewing, lapsed, fetched, todo, doc,
                   rowVars, docVars, apiVars, faultsLeft>>

\* It reads the known hashes once; documents whose hash is known are skipped.
Compare(r) ==
    /\ Goto(r, "compare", "ingest")
    /\ todo' = [todo EXCEPT ![r] = {d \in Doc : fetched[r][d] \notin {0, recorded[d]}}]
    /\ UNCHANGED <<workerMode, lockVars, queue, renewing, lapsed, fetched, doc, outcome,
                   rowVars, docVars, apiVars, faultsLeft>>

\* persist_artifact: the first commit of a document.
Persist(r, d) ==
    /\ Goto(r, "ingest", "record")
    /\ d \in todo[r]
    /\ doc' = [doc EXCEPT ![r] = d]
    /\ artifact' = [artifact EXCEPT ![d] = fetched[r][d]]
    /\ edited' = edited \ {d}
    /\ UNCHANGED <<workerMode, lockVars, queue, renewing, lapsed, fetched, todo, outcome,
                   rowVars, source, recorded, apiVars, faultsLeft>>

\* record_document, an UPSERT, and the second commit.
Record(r) ==
    /\ Goto(r, "record", "ingest")
    /\ recorded' = [recorded EXCEPT ![doc[r]] = fetched[r][doc[r]]]
    /\ todo' = [todo EXCEPT ![r] = @ \ {doc[r]}]
    /\ doc' = [doc EXCEPT ![r] = NoDoc]
    /\ UNCHANGED <<workerMode, lockVars, queue, renewing, lapsed, fetched, outcome,
                   rowVars, source, artifact, edited, apiVars, faultsLeft>>

\* A document fails before its first commit (extraction, database).
\* (Mutant: its hash is recorded all the same.)
DocFailsRecorded(r, d) ==
    /\ Goto(r, "ingest", "ingest")
    /\ d \in todo[r]
    /\ todo' = [todo EXCEPT ![r] = @ \ {d}]
    /\ outcome' = [outcome EXCEPT ![r] = "partial"]
    /\ recorded' = [recorded EXCEPT ![d] = fetched[r][d]]
    /\ UNCHANGED <<workerMode, lockVars, queue, renewing, lapsed, fetched, doc,
                   rowVars, source, artifact, edited, apiVars, faultsLeft>>
DocFails(r, d) ==
    /\ Goto(r, "ingest", "ingest")
    /\ d \in todo[r]
    /\ todo' = [todo EXCEPT ![r] = @ \ {d}]
    /\ outcome' = [outcome EXCEPT ![r] = "partial"]
    /\ UNCHANGED <<workerMode, lockVars, queue, renewing, lapsed, fetched, doc,
                   rowVars, docVars, apiVars, faultsLeft>>

\* A document fails between its two commits (embedding, summary, database): the
\* artifact stays, the hash does not change.
DocFailsLate(r) ==
    /\ Goto(r, "record", "ingest")
    /\ todo' = [todo EXCEPT ![r] = @ \ {doc[r]}]
    /\ doc' = [doc EXCEPT ![r] = NoDoc]
    /\ outcome' = [outcome EXCEPT ![r] = "partial"]
    /\ UNCHANGED <<workerMode, lockVars, queue, renewing, lapsed, fetched,
                   rowVars, docVars, apiVars, faultsLeft>>

\* The loop is over and the declared links are applied (see the lineage modules).
\* (Mutant: held_lock's block ends here, before the outcome is written.)
LoopEndsUnlocked(r) ==
    /\ Goto(r, "ingest", "finish")
    /\ todo[r] = {}
    /\ Free(r)
    /\ UNCHANGED <<workerMode, queue, renewing, lapsed, fetched, todo, doc, outcome,
                   rowVars, docVars, apiVars, faultsLeft>>
LoopEnds(r) ==
    /\ Goto(r, "ingest", "finish")
    /\ todo[r] = {}
    /\ UNCHANGED <<workerMode, lockVars, queue, renewing, lapsed, fetched, todo, doc, outcome,
                   rowVars, docVars, apiVars, faultsLeft>>

\* A database error outside a document's try block: "Unexpected error".
UnexpectedError(r) ==
    /\ pc[r] = "compare" \/ (pc[r] = "ingest" /\ todo[r] = {})
    /\ Happens("db")
    /\ pc' = [pc EXCEPT ![r] = "finish"]
    /\ outcome' = [outcome EXCEPT ![r] = "error"]
    /\ UNCHANGED <<workerMode, lockVars, queue, renewing, lapsed, fetched, todo, doc,
                   rowVars, docVars, apiVars>>

\* The outcome is committed.
Finish(r) ==
    /\ Goto(r, "finish", "release")
    /\ Update(outcome[r])
    /\ UNCHANGED <<workerMode, lockVars, queue, renewing, lapsed, fetched, todo, doc, outcome,
                   docVars, apiVars, faultsLeft>>

\* A database error while reading the connector or writing its status ends the
\* task with the status as it is.
JobFails(r) ==
    /\ pc[r] \in {"lookup", "mark", "finish"}
    /\ Happens("db")
    /\ pc' = [pc EXCEPT ![r] = "release"]
    /\ UNCHANGED <<workerMode, lockVars, queue, renewing, lapsed, fetched, todo, doc, outcome,
                   rowVars, docVars, apiVars>>

\* held_lock's finally: the renewer is cancelled and the lock released; the task
\* is acknowledged.  If Redis fails the call, the lock is left to expire.
Release(r) ==
    /\ pc[r] = "release"
    /\ \/ Free(r) /\ NoFault
       \/ workerMode /\ UNCHANGED lockVars /\ Happens("redis")
    /\ End(r, "idle")
    /\ UNCHANGED <<workerMode, queue, rowVars, docVars, apiVars>>

-----------------------------------------------------------------------------
(* The lock's deadline and its renewers.                                   *)

\* The deadline passes.  A running renewer moves it in time, unless its event
\* loop stalls for longer than the time to live.
Lapse ==
    /\ Expire
    /\ IF owner \in renewing THEN Happens("stall") ELSE NoFault
    /\ lapsed' = IF owner \in Critical THEN lapsed \cup {owner} ELSE lapsed
    /\ UNCHANGED <<workerMode, queue, pc, renewing, fetched, todo, doc, outcome,
                   rowVars, docVars, apiVars>>

\* A renewer finds its lock expired: it renews an entry that is still its own
\* (in-process mode only), and stops otherwise.  The sync goes on in any case.
Renew(r) ==
    /\ r \in renewing
    /\ \/ /\ ~live
          /\ Extend(r)
          /\ lapsed' = lapsed \ {r}
          /\ UNCHANGED renewing
       \/ /\ owner # r
          /\ renewing' = renewing \ {r}
          /\ UNCHANGED <<lockVars, lapsed>>
    /\ UNCHANGED <<workerMode, queue, pc, fetched, todo, doc, outcome,
                   rowVars, docVars, apiVars, faultsLeft>>

\* extend raises: the renewer task ends, unnoticed until held_lock awaits it.
RenewFails(r) ==
    /\ r \in renewing
    /\ workerMode
    /\ Happens("redis")
    /\ renewing' = renewing \ {r}
    /\ UNCHANGED <<workerMode, lockVars, queue, pc, lapsed, fetched, todo, doc, outcome,
                   rowVars, docVars, apiVars>>

-----------------------------------------------------------------------------
(* Processes that die.                                                     *)

\* A worker's child process dies: task_reject_on_worker_lost puts its task back
\* on the queue at once.
KillChild(r) ==
    /\ workerMode
    /\ pc[r] \notin {"idle", "dead"}
    /\ Happens("kill")
    /\ End(r, "idle")
    /\ queue' = queue + 1
    /\ UNCHANGED <<workerMode, lockVars, rowVars, docVars, apiVars>>

\* The worker's host is lost: with task_acks_late its task stays unacknowledged.
\* (Mutant: acknowledged on delivery, the task is gone.)
LoseHostEarlyAck(r) ==
    /\ workerMode
    /\ pc[r] \notin {"idle", "dead"}
    /\ Happens("hostloss")
    /\ End(r, "idle")
    /\ UNCHANGED <<workerMode, lockVars, queue, rowVars, docVars, apiVars>>
LoseHost(r) ==
    /\ workerMode
    /\ pc[r] \notin {"idle", "dead"}
    /\ Happens("hostloss")
    /\ End(r, "dead")
    /\ UNCHANGED <<workerMode, lockVars, queue, rowVars, docVars, apiVars>>

\* The visibility timeout (2 h) puts it back, long after the lock it may have
\* held (120 s) expired.
Redeliver(r) ==
    /\ Goto(r, "dead", "idle")
    /\ owner # r
    /\ queue' = queue + 1
    /\ UNCHANGED <<workerMode, lockVars, renewing, lapsed, fetched, todo, doc, outcome,
                   rowVars, docVars, apiVars, faultsLeft>>

\* In-process mode: the one process dies, with its background tasks, its
\* handlers and its dictionary of locks.
ProcessDies ==
    /\ ~workerMode
    /\ Happens("kill")
    /\ owner' = NoRun
    /\ live' = FALSE
    /\ queue' = 0
    /\ pc' = [r \in Run |-> "idle"]
    /\ renewing' = {}
    /\ lapsed' = {}
    /\ fetched' = [r \in Run |-> Nothing]
    /\ todo' = [r \in Run |-> {}]
    /\ doc' = [r \in Run |-> NoDoc]
    /\ outcome' = [r \in Run |-> "ok"]
    /\ rpc' = [q \in Handler |-> "idle"]
    /\ listed' = [q \in Handler |-> {}]
    /\ UNCHANGED <<workerMode, rowVars, docVars>>

-----------------------------------------------------------------------------
(* The API.                                                                *)

Enter(q, from, to) == rpc[q] = from /\ rpc' = [rpc EXCEPT ![q] = to]

Tasks ==
    queue + Cardinality({q \in Handler : rpc[q] \in {"queue", "dispatch"}})
          + Cardinality({r \in Run : pc[r] # "idle"})

\* POST sync: 404 without the connector, 409 while the lock is held.
SyncCheck(q) ==
    /\ Tasks < MaxTasks
    /\ row = "present"
    /\ ~Held
    /\ Enter(q, "idle", "queue")
    /\ UNCHANGED <<workerMode, lockVars, queue, runVars, rowVars, docVars, listed, faultsLeft>>

\* It commits last_status = "queued".
SyncQueue(q) ==
    /\ Enter(q, "queue", "dispatch")
    /\ Update("queued")
    /\ UNCHANGED <<workerMode, lockVars, queue, runVars, docVars, listed, faultsLeft>>

\* Then it sends the task, or fails to.
SyncDispatch(q) ==
    /\ Enter(q, "dispatch", "idle")
    /\ \/ queue' = queue + 1 /\ NoFault
       \/ workerMode /\ UNCHANGED queue /\ Happens("redis")
    /\ UNCHANGED <<workerMode, lockVars, runVars, rowVars, docVars, listed>>

\* DELETE: 404 without the connector, 409 while the lock is held.
DeleteCheck(q) ==
    /\ row = "present"
    /\ ~Held
    /\ \E next \in {"delete", "list"} : Enter(q, "idle", next)
    /\ UNCHANGED <<workerMode, lockVars, queue, runVars, rowVars, docVars, listed, faultsLeft>>

\* With delete_artifacts it first reads the artifacts of the recorded documents.
DeleteList(q) ==
    /\ Enter(q, "list", "purge")
    /\ listed' = [listed EXCEPT ![q] = {d \in Doc : recorded[d] # 0}]
    /\ UNCHANGED <<workerMode, lockVars, queue, runVars, rowVars, docVars, faultsLeft>>

\* One transaction deletes those artifacts, the SyncedDocument rows and the row.
DeleteCommit(q) ==
    /\ rpc[q] \in {"delete", "purge"}
    /\ rpc' = [rpc EXCEPT ![q] = "idle"]
    /\ artifact' = [d \in Doc |-> IF d \in listed[q] THEN 0 ELSE artifact[d]]
    /\ recorded' = Nothing
    /\ edited' = {}
    /\ row' = CASE row # "present" -> row
                [] rpc[q] = "purge" -> "purged"
                [] OTHER -> "deleted"
    /\ listed' = [listed EXCEPT ![q] = {}]
    /\ UNCHANGED <<workerMode, lockVars, queue, runVars, status, source, faultsLeft>>

\* An app instance dies in the middle of a request.
ApiDies(q) ==
    /\ workerMode
    /\ rpc[q] # "idle"
    /\ Happens("api")
    /\ rpc' = [rpc EXCEPT ![q] = "idle"]
    /\ listed' = [listed EXCEPT ![q] = {}]
    /\ UNCHANGED <<workerMode, lockVars, queue, runVars, rowVars, docVars>>

\* The source's owners edit a document.
SourceChanges(d) ==
    /\ \E v \in Version :
         /\ v # source[d]
         /\ Reverts \/ v > source[d]
         /\ source' = [source EXCEPT ![d] = v]
    /\ UNCHANGED <<workerMode, lockVars, queue, runVars, rowVars, artifact, recorded, edited,
                   apiVars, faultsLeft>>

-----------------------------------------------------------------------------
(* The other writers of the artifacts.  Each reads and commits in one      *)
(* action: what is committed between the two makes no difference here, as  *)
(* the commit puts its own text or nothing in the artifact's place         *)
(* whatever it finds (the steps in between are ArtifactPipeline's; an edit *)
(* that brings back what was deleted meanwhile leaves artifact 0 here).    *)

\* Everything but a sync and the connector's own deletion leaves these alone.
BesideSyncs == UNCHANGED <<workerMode, lockVars, queue, runVars, status, source, apiVars, faultsLeft>>

\* PUT /artifacts/{id}: another title, tags or content takes the place of the document's.
\* artifact keeps the content it was edited from.
EditArtifact(d) ==
    /\ artifact[d] # 0
    /\ edited' = IF row = "present" THEN edited \cup {d} ELSE {}
    /\ UNCHANGED <<row, artifact, recorded>>
    /\ BesideSyncs

\* DELETE /artifacts/{id}: the artifact goes, the document's hash stays.
DeleteArtifact(d) ==
    /\ artifact[d] # 0
    /\ artifact' = [artifact EXCEPT ![d] = 0]
    /\ edited' = IF row = "present" THEN edited \cup {d} ELSE {}
    /\ UNCHANGED <<row, recorded>>
    /\ BesideSyncs

\* The connector's group is deleted, or the clean-up deletes its owner's space
\* (delete_everything, delete_space_data): artifacts, hashes and row in one transaction.
DeleteSpace ==
    /\ row = "present"
    /\ row' = "purged"
    /\ artifact' = Nothing
    /\ recorded' = Nothing
    /\ edited' = {}
    /\ BesideSyncs

-----------------------------------------------------------------------------

\* The steps a sync takes by itself once it has a task.
Progress(r) ==
    \/ Acquire(r) \/ Skip(r) \/ Lookup(r) \/ Mark(r)
    \/ Fetch(r) \/ FetchFails(r) \/ Compare(r)
    \/ \E d \in Doc : Persist(r, d) \/ DocFails(r, d)
    \/ Record(r) \/ DocFailsLate(r) \/ LoopEnds(r) \/ UnexpectedError(r)
    \/ Finish(r) \/ JobFails(r) \/ Release(r)

Handle(q) ==
    \/ SyncQueue(q) \/ SyncDispatch(q)
    \/ DeleteList(q) \/ DeleteCommit(q)

Dies(r) == KillChild(r) \/ LoseHost(r)

Next ==
    \/ \E r \in Run : Take(r) \/ Progress(r) \/ Dies(r) \/ Redeliver(r)
                      \/ Renew(r) \/ RenewFails(r)
    \/ Lapse
    \/ ProcessDies
    \/ \E q \in Handler : SyncCheck(q) \/ DeleteCheck(q) \/ Handle(q) \/ ApiDies(q)
    \/ \E d \in Doc : SourceChanges(d) \/ EditArtifact(d) \/ DeleteArtifact(d)
    \/ DeleteSpace

Spec == Init /\ [][Next]_vars

\* A worker process that runs goes on running, the broker delivers and redelivers,
\* deadlines pass and handlers end.  Nobody has to click, edit or crash.
Fairness ==
    /\ \A r \in Run : WF_vars(Progress(r)) /\ WF_vars(Redeliver(r))
    /\ WF_vars(\E r \in Run : Take(r))
    /\ WF_vars(owner \notin renewing /\ Lapse)
    /\ \A q \in Handler : WF_vars(Handle(q))

FairSpec == Spec /\ Fairness

-----------------------------------------------------------------------------
(* Properties.                                                             *)

\* The status the Sources page shows (_public).
Shown ==
    CASE row # "present" -> "gone"
      [] live -> "running"
      [] ~live /\ row = "present" /\ status = "running" -> "interrupted"
      [] OTHER -> status

\* What keeps deliveries apart, and every step preserves (proved, not run): a renewer belongs to a
\* working delivery, and a delivery whose lock has not expired under it has it.
LockInv ==
    /\ renewing \subseteq Critical
    /\ lapsed \subseteq Critical
    /\ \A r \in Critical : r \in lapsed \/ (owner = r /\ live)

\* Two deliveries work on the connector at once only if the lock of one of them
\* expired under it: no release, renewal or redelivery by anyone, at any time,
\* lets a second one in (acquire, extend and release of coordination.py).
MutualExclusion ==
    \A r, s \in Critical : r = s \/ r \in lapsed \/ s \in lapsed

\* worker.py, lines 10-12: "a redelivered or duplicate task never runs alongside
\* another copy".  It holds while no renewal fails and nothing stalls.
NeverAlongside == \A r, s \in Critical : r = s

\* A delivery that holds the lock, with its renewer running, loses it only by its
\* own release or death, or to a stall: not to another delivery's belated
\* release, to a newcomer or to a handler.
HolderKeepsLock ==
    [][\A r \in Run :
          /\ owner = r /\ live /\ r \in renewing
          /\ ~(owner' = r /\ live')
          => pc'[r] = "idle" \/ (r \in lapsed' /\ faultsLeft' < faultsLeft)]_vars

\* When a sync is about to report "ok", the hash of every document is that of the
\* content it fetched, and the artifact holds this content, whatever crashed before
\* it between a document's two commits.  What users edited or deleted since a sync
\* stored it is left to them: its document counts as unchanged and is skipped
\* until it changes at the source (sync.py, lines 136-138; docs/connectors.md, line 19).
OkMeansStored ==
    \A r \in Run :
        pc[r] = "finish" /\ outcome[r] = "ok" /\ row = "present"
        => \A d \in Doc : /\ recorded[d] = fetched[r][d]
                          /\ artifact[d] = fetched[r][d] \/ d \in edited

\* An artifact is replaced by a newer content of its document or deleted, and
\* never goes back to an older one, while the source does not go back either.
NoRegress ==
    [][\A d \in Doc : artifact'[d] >= artifact[d] \/ artifact'[d] = 0]_vars

\* coordination.py, lines 13-16, and worker.py, lines 7-10: an interrupted sync
\* runs again; in worker mode the page does not show "interrupted" for ever.
InterruptedResumes ==
    workerMode /\ Shown = "interrupted" ~> Shown # "interrupted"

\* coordination.py, line 13: a crashed worker cannot hold the lock for ever, and
\* a working one lets go of it.
LockIsFreed == live ~> ~live

\* The displayed status follows the connector's life cycle.
Lifecycle == INSTANCE ConnectorLifecycle WITH shown <- Shown
FollowsLifecycle == Lifecycle!Spec
=============================================================================
