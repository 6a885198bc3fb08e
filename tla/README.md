# Knowledge Hubs: a verification development

TLA+ models of the parts of Knowledge Hubs where the order of concurrent steps, a failure in between,
or the data of an algorithm decide whether what is stored or answered is right; their model checking
with TLC, and proofs with TLAPS. Paths below are relative to `backend/app/` unless they say otherwise.

| Part of the system | Modules | Runs | Proved |
| --- | --- | --- | --- |
| Connector syncs, their queue and their lock | `Locks`, `ConnectorLifecycle`, `ConnectorSync`, `MCConnectorSync` | SyncLocks, SyncReliable, SyncKilled | `ConnectorSyncProofs` |
| Decision tracking | `Lineage`, `MCLineage` | Lineage, LineageRace | `LineageProofs` |
| Accounts, groups, inactivity clean-up | `People`, `MCPeople` | People, LastAdmin | `PeopleProofs` |
| Database client | `Transactions`, `DatabaseClient`, `MCDatabaseClient` | Database | `DatabaseClientProofs` |
| Ingestion, sharing, deletion, review | `ArtifactPipeline`, `MCArtifactPipeline` | Pipeline | `ArtifactPipelineProofs` |
| Answering, decision records, text chunks | `Places`, `Answering`, `Adrs`, `Extraction`, `MCAlgorithms` | Algorithms, Rejected | `AlgorithmsProofs` |
| Local models, credentials, start-up | `LocalModels`, `Credentials`, `Startup`, `MCDeployment` | Deployment | `SettingsProofs`, `StartupProofs` |

`PROJECT.json` names every run, the lines each definition stands for, the hazards and the mutants:
for every property, a change to one definition that a plausible bug would make and that breaks it.
Mutated forms stand in the modules beside what they mutate (`TakeAnyway` beside `Take`) and are used
by nothing else.

## The system

Several app instances (FastAPI) answer the browser behind a load balancer; a Celery worker and a
beat scheduler share a Redis broker with them; everything is stored in ArcadeDB, one server or a
cluster. Without `REDIS_URL` one process does all of it. Instances share no memory: they meet in the
database's transactions and in the locks of `coordination.py`. A request reads in statements of its
own, and its first write opens a transaction, in which later reads see its writes; a commit, or its
failure, ends it (`arcadedb.py`, `ArcadeSession`). Ollama, which holds the machine's language models,
is outside every transaction.

### Inventory

**Connector sync** (`services/connectors/sync.py`, `routers/connectors.py`,
`repositories/connectors.py`, `worker.py`). State: the Connector row with its last status, the
SyncedDocument rows with content hashes, the artifacts, the task queue. Operations: queue a sync,
deliver and redeliver the task, take the lock, fetch, ingest document by document in two commits,
report the outcome; delete the connector with or without what it ingested. Hard: worker processes and
hosts die, tasks come twice, a document fails between its commits, a delete meets a sync, users change
artifacts behind the hashes. Right when: one copy works at a time, an "ok" means that the fetched
contents are stored, contents never go back, an interrupted sync runs again, a deleted connector stays
deleted.

**Locks** (`coordination.py`). State: a Redis key with a time to live, or a dictionary entry with a
deadline. Operations: acquire, extend, release, look. Hard: deadlines pass under a working holder,
renewals fail, a former holder acts late. Right when: a holder that renews is not dispossessed, and a
dead one does not keep the lock.

**Decision tracking** (`services/lineage.py`, `repositories/lineage.py`, `routers/lineage.py`). State:
EVOLVES edges, declared and derived statuses, events. Operations: link, unlink, declare, and the
refresh that every storing or deleting request ends with. Hard: requests check against links that
change before they write, and refreshes overlap. Right when: links join stored items of the right
types, the history has no circle, and every status is what the links and declarations give.

**Accounts and roles** (`routers/auth.py`, `routers/admin.py`, `repositories/users.py`, `auth.py`,
`rbac.py`), **Groups** (`routers/groups.py`, `repositories/groups.py`), **Inactivity clean-up**
(`services/retention.py`, `activity.py`). State: User rows with a role, the Meta key `first_admin`,
GroupSpace and Membership rows; a run's plan and its count of admins. Operations: sign up, add, change
a role; create, delete, invite, answer, remove, leave; plan, delete groups, hand over or delete a
deleted account's groups. Hard: every check precedes its write and nothing repeats it; the clean-up
plans once and commits many times. Right when: exactly one account becomes admin by signing up first,
an admin always remains, every group has one admin who is a member.

**Database client** (`arcadedb.py`, `db.py`). State: the preferred node, the node each transaction
lives on, each session's transaction. Operations: statements tried node by node, begin, commit,
rollback, closing a session. Hard: nodes go away or elect a leader between statements, answers are
lost and what was abandoned runs later. Right when: a statement runs once, a transaction's statements
all run on one node, nothing stays open, a failed request has stored nothing.

**Artifact pipeline** (`services/artifact_pipeline.py`, `repositories/knowledge_items.py`,
`artifacts.py`, `relationships.py`) and **knowledge routes** (`routers/knowledge.py`,
`repositories/misc.py`, `search.py`, `spaces.py`). State: artifacts, items with review state, vectors,
summaries, CONTAINS and LINK edges. Operations: five ingestion routes, re-extraction, sharing, review,
editing, deletion. Hard: each ingests in two to four transactions around slow model calls. Right when:
every item belongs to a stored artifact and says what that artifact says, reviewed items keep their
review, repeating a call repairs what a failure left.

**Retrieval** (`services/graphrag.py`, `repositories/graph.py`, `services/cross_source_linker.py`).
No state of its own; one question passes rewriting, vector and keyword search, expansion, fusion,
reranking, a gate, the lookup of successors and citation. Hard: one index serves all spaces, and
models may answer anything. Right when: nothing of another space and nothing rejected gets in, and
nothing replaced goes unmarked.

**Source fetchers** (`services/connectors/*.py`). State: what a checkout or service holds. Of these,
decision records (`git_adr.py`) say things of each other that become statuses, over several syncs.
**Chunks and extraction** (`services/llm_extraction.py`, `llm_client.py`, `knowledge_extraction.py`,
`item_schema.py`, `curation_layer.py`): a text is cut, packed, read chunk by chunk and put together;
nothing may get lost unreported.

**Local models** (`routers/models.py`, `services/llm_catalog.py`). State: the models Ollama holds and
each account's choice. Right when: one model remains and nobody is left on a removed one.
**Credentials** (`crypto.py`, `routers/connectors.py`) and **Migrations** (`migrations.py`). State:
connectors' secrets under keys, the keys of each process. Right when: a secret stays readable over
edits, migrations and a rotation. **Embeddings and schema** (`schema.py`, `services/embeddings.py`,
`services/providers.py`). State: the vector index, the model and size Meta records, accounts' roles
and name keys. Right when: starts that are cut short, repeated or overlap leave all that as it should
be.

**Request limits** (`middleware.py`), **file and import formats**, **set-up** (`main.py`,
`routers/health.py`), **provisioning** (`backend/scripts`) and the **frontend** are not modelled; see
below.

How they interact: routes and connector syncs call the artifact pipeline, which ends by refreshing
statuses (`Lineage`); deleting a connector, an artifact or an item refreshes too; the clean-up deletes
spaces, after looking at the connectors' locks; every request reads its account and, for a group's
space, its membership; every statement goes through the database client. The models compose what
shares state at the step level: `ConnectorSync` instantiates `Locks`; `People` has the requests of
three routers and the clean-up; `ArtifactPipeline` has ingestion beside the routes; `Credentials` has
routes, migrations and restarts. Between parts, each takes what the other promises: `Lineage` and
`ArtifactPipeline` take from `DatabaseClient` (`Transactions`) that a transaction is stored whole or
not at all; `Adrs` takes from `ConnectorSync` that one sync runs at a time.

## Modules

### Locks, ConnectorSync, ConnectorLifecycle

`Locks` is one named lock in both modes. `live` says that an entry is there and its deadline has not
passed; time is nothing else. In-process, an expired entry keeps its token, so `Extend` can revive it,
as in the dictionary.

`ConnectorSync` instantiates it and follows one connector (locks of different connectors are
independent). `Run` is the deliveries of the task, each with its own token; `pc` walks through
`run_sync_job`, `_run_sync_locked` and `run_sync`, one step from one database commit or await to the
next: `Take`, `Acquire` or `Skip`, `Lookup`, `Mark`, `Fetch`, `Compare`, then per document `Persist`
(the artifact's commit) and `Record` (the hash's commit), `LoopEnds`, `Finish`, `Release`. `DocFails`
and `DocFailsLate` are the two places where one document fails and the loop goes on; `UnexpectedError`
and `JobFails` leave it. `Handler` is API requests: `SyncCheck`, `SyncQueue`, `SyncDispatch`;
`DeleteCheck`, `DeleteList`, `DeleteCommit`. The artifacts have other writers, which know nothing of the
lock: `EditArtifact` and `DeleteArtifact` (`routers/knowledge.py:369`, `414`) leave the content hash as it
is, and `edited` remembers those artifacts until a sync stores them again or the row goes; `DeleteSpace`
takes artifacts, hashes and row together. Renewers are the set `renewing`. Faults are named and
counted: a killed worker process (`kill`), a lost host (`hostloss`), a failing Redis call (`redis`), a
stalled event loop (`stall`), a failing statement (`db`), a dead app instance (`api`). A document's
contents are numbers, oldest first. What is Celery's is external: late acknowledgement, redelivery
after a lost host once the visibility timeout has passed, immediate redelivery after a lost process.

`ConnectorLifecycle` is what the Sources page promises of one connector's displayed status.
`ConnectorSync` implements it with `shown <- Shown`, the status that `_public` computes.

### Lineage

One space. A request checks (`CheckLink`, `CheckUnlink`, `CheckDeclare`, `CheckStore`: reads), then its
transaction: `Begin` is the first write and the refresh's reading of the links, `ReadItems` its reading
of the items and what it computes, and others may commit between the two. `writes` is what
`refresh_statuses` will store: only what differs from the status it read. `Commit` publishes everything
or fails. From ArcadeDB the model takes: a transaction's writes appear together; a commit fails if
another commit wrote an item it wrote (edges write both their ends). A commit between the first write
and the reading of the links either writes an item the request wrote, so that the request fails, or is
as if it had come before both, which is why they are one step. Edges are a set, so the same edge stored
twice is seen as a pair linked once; different links between one pair are told apart. `Reached` is a
recursive function with a bound on the path's length, which cannot cut a path short: a path without
repetition has fewer links than there are items. `current`, `split` and `unsure` are history: nothing
committed since the check; the links changed between the two reads; what such a refresh computed has
been stored.

### People

Checks and writes are two steps of a request (`phase`); `job` is what it decided. `row` is the
Membership row of each user in each group, `NoRow` where none is: `StoreMembership` is the UPSERT of
`set_membership`, which recreates a row. Declined, left and removed are one status, "past", as the code
tells them apart nowhere. A name or group is used once: identifiers are fresh. `StoreUser` decides the
claim of the first admin by the unique key. The clean-up is `RunPlans`, `RunDeletesGroup`, `RunCounts`,
then per account `RunPicks` (the reads of `delete_user`) and `RunDeletesUser` (its transaction);
`RunSkips` is the last admin or a syncing space, `RunEnds` also any failure. Time is free: anything may
be due, and any active member may be the longest-standing one. `known`, `founders`, `current` and
`undisturbed` are history.

### Transactions, DatabaseClient

`Transactions` is what `arcadedb.py` promises its callers of one unit of work. `DatabaseClient` is one
app instance against a cluster. A request's call is posted (`Query`, `Execute`, `Command`, `Commit`,
`Leave`) with the nodes `Route` gives it, and ends one attempt at a time: `BeginAnswered` and
`Answered`; `TriesNext` on an error that says the node did not run it; `Fails`, which rolls back after a
failed write; `GivesUp` on a lost answer, after which the call is in `flight` and `RunsLate` may still
run it. `NodeChanges` takes a node away, restarts it (its transactions and calls are gone) or begins and
ends an election. `RunsLate` and `NodeChanges` are the server's side, external. `told`, `cut`, `loose`
and `refused` are history. `DatabaseClient` implements `Transactions` with its variables of the same
names.

### ArtifactPipeline

An artifact is a document in its own space or its copy in another, with the content its source had; an
item is an artifact and a title, as `stable_id` makes it. `Begin` is what a request reads before its
first transaction (an item to review, an artifact to share, what a model found in a text), `step` where
it is: `Persist`, `Declare` or `LinkImported`, `Embed`, `Summarise` for the ingestion routes, in the
order and with the omissions each route has; `Delete`, `Share` and the three steps on one item are
transactions of their own. Any may fail and leave what was committed before. `clean` is history: no
other commit met the job and no model failed. Statuses are `Lineage`'s.

### Answering, Adrs, Extraction

`Answering` is one question, stage by stage; TLC picks which items are the space's own, which are
rejected, and what every model answers, so that a run is an exhaustive check of the algorithms over
bounded inputs. A text stands for its vector, and `Score` gives the similarities; fused scores are
exact, in units (`Unit`) that 60 and any rank divide. Sorted and selected sequences are described by the
places of their elements (`Sorted`, `At`, `Where` in `Places`): an element's place in an order is one
more than how many come before it. `Stale` is the stored status, by an edge or as declared
(`DeclaredStale`); `Replacers` is what `successors` finds, and `Prompt` what `_build_context` makes of
the context: hits with status and replacements, graph entries with their status. `Adrs` follows records of a checkout that is edited, from the
relation words in their lines (`RelationsIn`, in the order `_RELATIONS` is tried) through `resolve`, the
pipeline's two transactions and `_apply_links` to the status shown, over several syncs, with links made
and removed by hand and documents that fail. `Extraction` cuts and packs texts of letters, full stops
and spaces, and has any chunk fail. Facts the models made plain and no property forbids: two records
with one number are the last one's; a later relation word in a line is not read, and its references
become the first one's.

### LocalModels, Credentials, Startup

`LocalModels`: each `Call` looks at what is installed and acts on that later (`Bootstrap`, `Install`,
`Remove`, `SetActive`, `SignIn`); Ollama's answer, the reading of accounts and each write are steps.
`Credentials`: secrets are numbers in the order they were entered, a cipher is told apart by its key;
edits read, then write; the migration job reads, then writes all it found; an instance serves with the
keys it started with. The operator rotates as `crypto.py:12-14`, `docs/security.md:25` and
`docs/deployment.md:80` say: a new key in front, the job and one restart, and then, whatever any job is
doing, the old key is dropped. `Startup`: two starters, each at a step of `main.py`'s start; one at a time
prepares the schema (`db.py:38-44`), migrations may overlap; accounts sign up and change roles beside
them; the operator changes the embedding model. `Reembed` is that of a hub with one space.

## Runs

Deadlock is not checked in any run: every part may stop, when nobody clicks and nothing is due. Between
them the passing runs take every action of every module.

| Run | Instance | Shows |
| --- | --- | --- |
| SyncLocks | 3 deliveries, 1 handler, 1 document, all six faults, two of them | Two deliveries work at once only if a lock expired under its holder; who renews loses the lock only by its own end or a stall. Three deliveries let a late release, a holder and a newcomer meet; two faults let one cause the expiry and another the late act. |
| SyncReliable | 2 deliveries, 2 handlers, 1 document with 2 contents, a lost host | Without failing renewals and stalls: no copy alongside; "ok" means recorded, and stored but for what users changed since; contents do not go back; interrupted syncs run again; the lock is freed; `ConnectorLifecycle` is implemented. |
| SyncKilled | 2 deliveries, 1 handler, a killed worker process | Violation: see Findings. |
| Lineage | 3 decisions, 2 requests, up to 3 links when a check is made | Links are well formed, statuses derived unless a refresh read two states, pending writes right until a conflict; validation keeps history in order when nothing overtakes it. Three items and links: the shortest circle that is not a pair linked twice. Risks, declared statuses and further kinds of link are covered by the proofs. |
| LineageRace | 3 decisions, 2 requests, 2 kinds of link | Violation: see Findings. |
| People | 2 accounts, 1 group, 2 requests beside the clean-up | One founder, one leader at most per group, whatever overlaps; checks suffice when not overtaken; the clean-up alone keeps admins and leaders. Two accounts are a leader and an heir, who may be deleted next. |
| LastAdmin | 2 accounts, 2 requests | Violation: see Findings. |
| Database | 2 nodes, 2 requests, 2 transactions of one write, 2 faults | A statement runs once, transactions are refused only by lost nodes and left open only unanswered, and `Transactions` is implemented. One fault loses an answer, the other moves the preferred node while another request's transaction is open. |
| Pipeline | 1 document and its copy, 2 contents, 2 titles, 2 requests, 3 jobs | Items are whole and true, reviews survive, and an undisturbed job repairs what failed ones left. One content has an item the other lacks; the third job is the repetition after two that met or failed. |
| Algorithms | 4 items, 1 artifact, 3 texts; 3 records, 3 syncs or hand-made links; texts of up to 8 characters, 4 to a chunk, 2 chunks | What answers are made of, how lists are fused, which statuses records show, what chunks keep. The three modules share no variable, so each runs with the others at rest. Items are more than are asked for and fewer than all; texts have every shape around a cut and around the joining of two pieces, and more than two chunks' worth. |
| Rejected | as Algorithms | Violation: see Findings. |
| Deployment | 3 models, 2 accounts, 2 calls at once, 3 in all; 1 connector, 2 edits and 2 instances at once, 3 keys, 3 secrets; 2 starters, 3 accounts (2 of one name), 2 embedding models of different size, 1 cut | A model remains and choices are installed; secrets survive; roles, names and the vector index are right after any starts. Again one module at a time. Three keys are two rotations, so that a secret the first one left behind meets the second; three secrets are one before a rotation, one during and one after. |

Symmetry over deliveries, items of one type, accounts, groups, nodes' requests and transactions is used
in runs without liveness properties only.

### Where a property leaves a case out

Some of what the code does falls short of a property that one would like to state. The properties say
exactly where, most by a history variable; without these exceptions TLC finds each case.

- `StatusDerived`, `WritesFresh` (`unsure`): a commit between the two reads of a refresh
  (`services/lineage.py:83`, `85`) makes it store a status from older links. Transactions are begun
  without an isolation level (`arcadedb.py:136-140`).
- `OneRemains` (`raced`): two removals under way together both see the other's model
  (`routers/models.py:162`) and leave none, against `docs/local-models.md:23`.
- `SecretsSurvive` (`overtaken`): a PATCH that keeps a masked secret, and a migration, write back what
  they read before another commit (`routers/connectors.py:187`, `migrations.py:121`, `156`).
- `SecretsSurvive` (`late`): during a rotation, an instance that is not yet restarted stores a secret
  under the old key after the job has read; nothing encrypts it again before the old key is dropped, and
  then it is lost. The documented procedure of one restart does not prevent that. A second run of the
  job after the restart does, which is the last conjunct.
- `ComesUpReady` (`torn`): a start cut between making the index and recording its size
  (`schema.py:237-242`), followed by a change of the configured model. A cut between dropping the index
  and making it (`schema.py:228`) makes later starts with that model fail: they do not come up, which
  the property allows.
- `SupersededIsShown` (`StandsInTheWay`, `torn`): a record that declares itself superseded drops that
  status when a link should say it (`git_adr.py:231`), and the link is then refused (`sync.py:118`); or
  a sync failed after it had stored a part and the record was changed back before the next.
- `NeverAlongside` is stated for runs without a failing Redis call or a stall: one failing call ends the
  renewer for good (`coordination.py:118`), and a second copy runs alongside.
- `OkMeansStored` is stated for sources that do not go back to an earlier content (`Reverts`): a
  document that failed between its two commits and whose source reverts is counted as unchanged. And it
  leaves out the artifacts in `edited`: one that users edited or deleted since a sync stored it keeps its
  hash, so that syncs skip its document as unchanged (`sync.py:136-138`) and report "ok" until it changes
  at the source. Of these it says that the recorded hash is the fetched content's.
- `StaleIsMarked` asks for what replaced a decision only of the prompt's entries that were hit
  themselves. Entries that came from the graph have the status alone (`graphrag.py:357-362`), also when
  an earlier list hit the node itself (`LastHit`); an answer made up without a language model gives
  replacements for none (`graphrag.py:410-499`); and what is superseded only as declared
  (`lineage.py:74`) has no successor to name (`graph.py:109-113`). `docs/architecture.md:86` promises the
  replacement without these exceptions.

Consequences of the code that the models have and no property forbids: a connector deleted while a sync
starts leaves artifacts behind; a click checked just before another sync starts stays "queued"
(`routers/connectors.py:230`); a re-extraction that races a deletion brings the artifact back, whole; a
repeated ingestion overwrites edited texts, although `knowledge_items.py:70-72` keeps reviews, and an
edit does not compute a new vector; pending items are used in answers, although
`docs/screenshots.md:19` speaks of accepted ones.

### Fairness

Only `ConnectorSync` has liveness properties. `Fairness` says that a process that runs goes on
(`Progress`), the broker delivers and redelivers (`Take`, `Redeliver`), a deadline nobody renews
passes (`Lapse`), and a handler that has begun ends (`Handle`). Event loops, Redis expiry and Celery's
visibility timeout do that. Nothing is assumed of clicks, source edits, renewals or faults, and a
delivery that is renewed may hold the lock as long as its work goes on.

## Findings

1. **SyncKilled.** A killed worker process's task is redelivered at once (`worker.py:38`), while the
   dead process's lock lives on for up to 120 s. The task finds it, skips, and is acknowledged: the sync
   is lost, against `worker.py:8-10`. When the whole host is lost, redelivery waits for the visibility
   timeout, the lock has expired, and SyncReliable shows that the sync runs again.
2. **LineageRace.** Two requests validate at once and both link: a pair linked twice, or a circle,
   which `docs/decision-tracking.md:23` says is refused.
3. **LastAdmin.** Two demotions count the admins before either commits: none remains, against
   `docs/security.md:8`, and nobody can become one again, as the first admin's key is taken. A
   demotion beside the clean-up, which counts once, does the same.
4. **Rejected.** `successors` (`repositories/graph.py:110`) and `derive_status` count a link whatever the
   review of the newer item: a decision that a rejected item replaced stays "superseded", and the
   rejected item is given to the model as the current one, against `docs/features.md:7`.

## Proofs

All theorems are about the full specifications, for any sets of deliveries, items, accounts, groups,
nodes, transactions, documents, models, keys and requests, and any bounds; assumptions are the named
`ASSUME`s of the modules (disjointness, finitely many accounts or items, a node and an app instance there are, the values
that stand for nothing are no others), which TLC evaluates in the runs.

The library's induction theorems take an operator, which the provers cannot instantiate. Where a proof
needs induction it takes a least counterexample instead (`Least`, from the library's theorem that every
non-empty part of a well-founded order has a minimal element): so for the search for a circle, which is
a recursive function, and for the oldest account of a name.

**ConnectorSyncProofs.** `TypeCorrect` is inductive by itself, part by part. `LockInvariant`: a
renewer belongs to a working delivery, and a working delivery has the lock or it expired under it
(`lapsed`). Mutual exclusion alone is not inductive: a release by a delivery that no longer owns the
lock must be known to leave it alone. From it follow `Exclusion` and `Holding`. `NoCopyAlongside`
assumes that neither `redis` nor `stall` is among the faults: then nothing ever lapses, a further
invariant. `ShowsLifecycle` (same assumption) shows every step to be a step or a stutter of
`ConnectorLifecycle`: an outcome is written under the lock, so it shows when the lock goes, and until
somebody has asked for a sync nothing is queued, locked or at work (`AcceptedInv`), so that nothing
can be shown to run before. `OkIsStored` and `NothingRegresses` assume also that sources do not go back
(`~Reverts`), and share `StoredInv`: while the row is there a recorded hash is never ahead of its
artifact unless users changed it since, which is what makes a skipped document stored; no fetched
content is behind its artifact or its hash; and only the working delivery has fetched contents, which is
what keeps an interrupted one from writing over a later one.

**LineageProofs.** `LinksStayWellFormed` needs what a check leaves true of a job, what a first write
wrote, and what stays true until another commit conflicts (`Shape`). `StatusesStayDerived` and
`WritesStayFresh` are one invariant: for every item that a ready request will leave, the status after
its commit is what its links and declarations give, unless its two reads saw different links; and what
a request has read of the links is what its commit would leave, or the links are known to have changed
(`SeenInv`). A commit of another request that changes the links into an item writes that item, so
either the sets of written items meet, and the request conflicts, or the incoming links of all its
items are unchanged. The lemma `DeriveSame` says that only those matter. `ChecksAreSound` is about the
algorithm of `validate_link`: its search is shown to be some function of levels (`ReachedIsLevel`); in
links that can be put in order it finds everything that chain links reach (`ReachedClosed`: what is new
on a level is younger than what was new on the one before, and there are only so many ages); and a link
whose newer end was not found can be stored, as everything found can be moved behind all the rest
(`LinkKeepsOrder`, where an item's new age is the number of items up to it). `CheckedInv` carries the
check to the commit.

**PeopleProofs.** `Inv` is `TypeOK` and: a claim won is one founder (`FoundInv`); of a group's rows, of
whatever status, one at most has the role of admin, and a group not yet created has none (`LeadInv`);
the groups an account is being deleted from were led by it alone, and it is not the last counted admin
(`DeletingInv`); checks leave true that an unclaimed sign-up follows a claim, and that a membership
changes in a group there has been (`JobInv`). `OneLeader` speaks of active rows only and is not
inductive: a past row with the role could become active again. It gives `TypeCorrect`,
`FoundersStayOne`, `LeadersStayOne`. `ChecksAreEnough` and `PlanIsEnough` add what has been read and is
still true: of a request, while nothing commits (`FreshInv`: a membership it changes is not the
leader's, by `LeadInv` even where a row with that role is not active); of the clean-up, while nobody
else commits (`PlanInv`: its count is the number of admins, what is due is an admin exactly if it was
one, the heirs are those of the groups the account leads).

**DatabaseClientProofs.** `TypeCorrect` needs which call goes with which session (`CallsFit`).
`CommandsRunOnce` counts: of a request's statement, the times it ran, the call being posted and the
abandoned ones are never more than one together (`OnceInv`). `RefusalsMeanLoss`,
`TransactionsAreEnded` and `KeepsItsPromise` share `TxInv`: a transaction has one owner and is pinned
where it began as long as it is owned, calls are aimed there, an abandoned end has let go of it, nothing
has been said of it before its end, what is open is not stored, and a node that is down has cut what
lives on it. Without single ownership two requests could end one transaction differently; without the
pin a preferred node moved by another request would refuse it. `KeepsItsPromise` is the refinement:
each step is a write, a store or a report of `Transactions`, or a stutter; the hard case is a commit
that runs late, after its caller was told that nobody knows.

**ArtifactPipelineProofs.** `ItemsStayWhole` and `ItemsStayTrue` are inductive together with the types
and what a running job carries (`JobInv`: its new content and titles are what its kind may have).
`ReviewsStay` goes through every step: only a review, or sharing onto a copy, changes a verdict that
stays. `JobsStayComplete` has an invariant of the jobs that nothing has met yet (`CleanInv`): what each
of their transactions promised is still there (`Left`). A step of another request that touches the same
artifact ends `clean`; one that does not leaves everything of that artifact as it was (`Apart`), which
is the frame argument the proof is built on.

**SettingsProofs.** For `LocalModels`, `ModelsInv` says what a call has read and what is still so: of a
sign-in that nothing overtook (`SignInInv`), the account's choice and the model picked; of a removal
(`RemovalInv`), that another model was there, and is unless two removals raced, as one at most is under
way until then (`OneRemoval`, without which two could each count on the other's model).
`OneModelRemains` and `ChoicesStayInstalled` are steps from such a state. For `Credentials`,
`SecretsSurvive` is far from inductive: that an old key can be dropped depends on what a migration read
and on everyone's keys then. `CredentialsInv` adds that whoever encrypts has a first key the operator
has, and that the job has run with the keys that any instance was restarted with (`RingInv`); that, once
it has or all are restarted, only late secrets need the old key, or the job is about to rewrite them
(`LateInv`); that a settled migration ran with all instances on its own keys (`SettledInv`), what edits
and migrations have read and not been overtaken on (`EditInv`, `JobInv`), and that after a settled
migration nothing the operator's keys open needs the old one, late or not, or it is about to be
rewritten (`MigratedInv`).

**StartupProofs.** `StartupInv` is proved in halves that share types and `RunsInv` (one starter prepares
at a time and the model changes only between starts). Of vectors: the index fits the model at every
step after its check, or a start was cut while recording (`IndexInv`, `RecordedInv`). Of accounts: what
a migrating starter has yet to name, and that everything else has a key (`AccountInv`); and that a key
with a suffix belongs to an account whose name an older one has for good (`KeyInv`). The latter needs
that every starter gives an account the same key, whichever accounts it read: the oldest of a name has
the plain one, which is where the least counterexample comes in (`Canonical`). Two starters that gave
different keys would break the unique index that both then make.

**AlgorithmsProofs.** The lemmas say what sorting and selecting do for any finite set and any sequence:
`SortedFacts` (ranks are a bijection onto the places, so nothing is lost or doubled), `AtFacts`,
`AtStart`. `NearestFacts` is about the shared index: if at least k of the space's own are among its
first `candidate_count`, whatever own item was left out stands behind all k, and otherwise the scan
compares all. `RetrievedFacts` and `HitsFacts` give the rankings, each node once, of what may be used
(`Usable`: own, not rejected, marked exactly if stale). A fused score is a recursive sum; that it exists, and
that sums of no smaller parts are no smaller and equal only if all parts are, are two more least
counterexamples (`ShareIsSum`, `SumsCompare`); with shares that fall strictly with the rank (`DivDown`,
where `Unit`'s divisibility is used) `FusedFair` follows. `AnsweringInv` carries this through a question:
what lists hold is usable, so is the row kept of a node found several times (`LastHitFacts`), so is the
context, and what is told and cited comes from it; whatever was replaced is stale, so that looking up
successors of the stale entries finds all of them (`ExplainKeeps`). `NearestAlwaysExact` needs also that only empty lists
are dropped behind the queries' own, which are not empty while a usable item is there (`AtStart`).

Of records, `FoundFacts` has every link found join two of the files looked at, and `LinksFacts` that
fetching groups the links by their newer ends without losing one (`FlattenElements`: joined sequences
have the elements they had). `AdrsInv` says of a sync in which nothing has failed that every readable
record's document is still to be stored or is recorded as it is (`DocsRight`), that every link found is
still to be made, is made, or is refused (`LinksRight`), and at all times that what is recorded of a
document is what its decision shows, unless a part of it was stored (`Stored`). That a refused link
stays refused while a sync links is `RefusedStays`: more edges reach no less (`ReachedGrows`, along the
levels of the search). `SupersededAlwaysShown` then follows when nothing is left to store or to link.

Of texts, `All` is what is left of a sequence of texts without its spaces. Its one difficult law is that
it passes through joining (`LettersJoin`): the letters of two texts are listed by their places, and a
list in ascending order is the only one of its set (`OrderIsUnique`). Stripping and the empty lines
between packed pieces then lose no letter. What a turn of `_split_long` keeps is `CutWell`: the pieces
and what is left have the letters of the paragraph, every piece fits and is not empty, and what is left
grows shorter, which bounds the turns (`SplitFacts`). `PackFacts` is the same for packing and
`ChunkFacts` for a whole text. `ExtractionInv` needs little more than which text the chunks are of.
That the recursive functions of turns and packed chunks exist is shown from a least counterexample, too.

**Only model-checked.** `InterruptedResumes` and `LockIsFreed`: liveness is beyond the prover. Every
other property of a passing run is stated by a theorem.

## Not modelled

What is derived from data alone (formatting, parsing, regular expressions, prompts and model answers,
vector scores), read-only views, metrics and logs. Within the modelled parts: the event log and the
suggestions of decision tracking; passwords, tokens and sign-in beyond its choice of a model; renaming
a group; activity timestamps; the loss of the clean-up's own lock; what a deleted space held besides
a connector and its artifacts;
playbooks, cross-link runs and the linker's similarities; routing questions to statistics; re-embedding
in a hub with several spaces (one run records the new model for all, `artifact_pipeline.py:439`, so
that the record is wrong by construction); which fields of a connector are secret and how a cipher is
bound to its record.

Of the components left out, request limits are a counter of one request's bytes; file and import formats
are parsing without state; set-up and health are wiring; the provisioning scripts run alone; the
frontend keeps a token, the active space and the progress of an install, each in one tab's single
thread. None has an order of steps that could go wrong.

## What could follow

1. `Spaces`: the deletion of groups and accounts with their spaces' data, beside running syncs.
2. Several spaces in `Startup`, and the record of their embedding models.
