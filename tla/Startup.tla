------------------------------ MODULE Startup ------------------------------
(***************************************************************************)
(* A process that prepares the database and serves (main.py, lines 28-46): *)
(* the vector index (schema.py, lines 204-249) and the migrations of user  *)
(* names, activity and roles (migrations.py, lines 42-104).  Each step is  *)
(* "idempotent" and may be cut short and repeated; two processes may       *)
(* prepare one database, beside sign-ups and role changes through a third. *)
(* The later migrations are in Credentials.                                *)
(***************************************************************************)
EXTENDS Naturals, FiniteSetsExt

CONSTANTS
  Starter,
  MaxAccounts,       \* the accounts there can be are 1..MaxAccounts, in the order of their creation
  Names,       \* their names without case, by account
  Embedder,    \* embedding models
  Dims,        \* the size of each one's vectors
  Unset,
  MaxChanges,  \* bound on the changes of the configured embedding model
  MaxCuts      \* bound on the starts that are cut short

ASSUME StartupAssumption ==
  /\ MaxAccounts \in Nat \ {0} /\ DOMAIN Names = 1..MaxAccounts
  /\ Dims \in [Embedder -> Nat \ {0}]
  /\ Unset \notin Embedder /\ Unset \notin [dims : Nat, provider : Embedder]
  /\ \A u \in 1..MaxAccounts : Unset \notin {<<Names[u]>>, <<Names[u], u>>}

Account == 1..MaxAccounts
Suffixed(u) == <<Names[u], u>>      \* the key of an account whose name an older one has

VARIABLES
  db,          \* whether the database exists
  index,       \* the size of the vector index, or 0
  recorded,    \* Meta 'embeddings': the model of the stored vectors and its size, or Unset
  vectors,     \* the models whose vectors are stored
  role, key,   \* the accounts: "none" for one not made yet; username_key or Unset
  unique,      \* whether the UNIQUE index on username_key exists
  tracked,     \* accounts with a last_active_at
  meta,        \* the other Meta keys
  at, read,    \* each starter's step, and what it has read for it
  runs,        \* the embedding model each starter was started with
  configured,  \* LOCAL_EMBED_MODEL
  torn,        \* history: a start was cut short between making an index and recording its size
  given,       \* history: the role an admin gave an account since the roles migration
  changes, cuts

store == <<db, index, recorded, vectors, role, key, unique, tracked, meta>>
startupVars == <<store, at, read, runs, configured, torn, given, changes, cuts>>

Made == {u \in Account : role[u] # "none"}
Admins == {u \in Account : role[u] = "admin"}

\* No database, or one of a version before roles, activity and name keys.
StartupInit ==
  /\ \E n \in 0..MaxAccounts :
       /\ role = [u \in Account |-> IF u <= n THEN "admin" ELSE "none"]
       /\ db = (n > 0)
  /\ index = 0 /\ recorded = Unset /\ vectors = {}
  /\ key = [u \in Account |-> Unset]
  /\ unique = FALSE /\ tracked = {} /\ meta = {}
  /\ at = [s \in Starter |-> "down"] /\ read = [s \in Starter |-> {}]
  /\ configured \in Embedder
  /\ runs = [s \in Starter |-> configured]
  /\ torn = FALSE /\ given = [u \in Account |-> Unset]
  /\ changes = 0 /\ cuts = 0

\* A starter's step to the next, keeping what it has read for it.
Goes(s, from, to, found) ==
  /\ at[s] = from
  /\ at' = [at EXCEPT ![s] = to]
  /\ read' = [read EXCEPT ![s] = found]
  /\ UNCHANGED <<runs, configured, changes, cuts>>

vecs == <<index, recorded, vectors, torn>>
accs == <<role, key, unique, tracked, meta, given>>

-----------------------------------------------------------------------------
(* Connecting and the vector index.                                        *)

\* One process at a time prepares the schema: the only instance, or the provisioning job
\* (db.py, lines 39-43).  Nothing keeps migrations apart.
Preparing == {"schema", "drop", "clear", "create", "record"}

EnsureDatabase(s) ==
  /\ \A t \in Starter : at[t] \notin Preparing
  /\ at[s] = "down"
  /\ at' = [at EXCEPT ![s] = "schema"] /\ runs' = [runs EXCEPT ![s] = configured]
  /\ db' = TRUE
  /\ UNCHANGED <<read, configured, changes, cuts, vecs, accs>>

Mismatch(s) == recorded # Unset /\ recorded.dims # Dims[runs[s]]

ReadEmbeddings(s) ==
  /\ Goes(s, "schema", IF Mismatch(s) THEN "drop" ELSE "create",
          IF recorded = Unset \/ Mismatch(s) THEN {} ELSE {recorded.provider})
  /\ UNCHANGED <<db, vecs, accs>>

\* DROP INDEX fails when there is none, and the start with it.
DropIndex(s) ==
  /\ index # 0
  /\ Goes(s, "drop", "clear", {})
  /\ index' = 0
  /\ UNCHANGED <<db, recorded, vectors, torn, accs>>

ClearVectors(s) ==
  /\ Goes(s, "clear", "create", {})
  /\ vectors' = {}
  /\ UNCHANGED <<db, index, recorded, torn, accs>>

\* The index holds vectors of one size and rejects others.
Fits(size) == \A e \in vectors : Dims[e] = size

CreateIndex(s) ==
  /\ index = 0 => Fits(Dims[runs[s]])
  /\ Goes(s, "create", "record", read[s])
  /\ index' = IF index = 0 THEN Dims[runs[s]] ELSE index
  /\ UNCHANGED <<db, recorded, vectors, torn, accs>>

Records(s) ==
  [dims |-> Dims[runs[s]],
   provider |-> IF read[s] = {} THEN runs[s] ELSE CHOOSE p \in read[s] : TRUE]

\* Mutated form: what is recorded once stays.
RecordOnce(s) ==
  /\ Goes(s, "record", "names", {})
  /\ recorded' = IF recorded = Unset THEN Records(s) ELSE recorded
  /\ torn' = (torn /\ index # Dims[runs[s]])
  /\ UNCHANGED <<db, index, vectors, accs>>

\* What is recorded is the model of the vectors already there, or the one they will have.
Record(s) ==
  /\ Goes(s, "record", "names", {})
  /\ recorded' = Records(s)
  /\ torn' = (torn /\ index # Dims[runs[s]])
  /\ UNCHANGED <<db, index, vectors, accs>>

-----------------------------------------------------------------------------
(* Migrations: each reads, and stores in one transaction later.            *)

ReadNames(s) ==
  /\ Goes(s, "names", "keys", Made)
  /\ UNCHANGED <<db, vecs, accs>>

\* Mutated form: the newest account of a name keeps the plain key.
KeyOfNewest(u, found) ==
  IF \E v \in found : v > u /\ Names[v] = Names[u] THEN Suffixed(u) ELSE <<Names[u]>>

KeyOf(u, found) ==
  IF \E v \in found : v < u /\ Names[v] = Names[u] THEN Suffixed(u) ELSE <<Names[u]>>

Distinct(keys) == \A u, v \in Made : u # v /\ keys[u] # Unset => keys[u] # keys[v]

StoreKeys(s) ==
  LET keys == [u \in Account |-> IF u \in read[s] THEN KeyOf(u, read[s]) ELSE key[u]] IN
  /\ Goes(s, "keys", "unique", {})
  /\ unique => Distinct(keys)
  /\ key' = keys
  /\ UNCHANGED <<db, vecs, role, unique, tracked, meta, given>>

\* The index can only be made when no two keys are equal.
MakeUnique(s) ==
  /\ Distinct(key)
  /\ Goes(s, "unique", "activity", {})
  /\ unique' = TRUE
  /\ UNCHANGED <<db, vecs, role, key, tracked, meta, given>>

\* start_activity_tracking: once, every account without a stamp gets one.
TrackActivity(s) ==
  /\ Goes(s, "activity", "roles", {})
  /\ IF "tracking" \in meta THEN UNCHANGED <<tracked, meta>>
     ELSE tracked' = Made /\ meta' = meta \union {"tracking"}
  /\ UNCHANGED <<db, vecs, role, key, unique, given>>

\* migrate_roles reads whether it has run, the accounts' roles, and whether there is a first admin.
ReadRoles(s) ==
  /\ Goes(s, "roles", IF "rbac_v1" \in meta THEN "up" ELSE "demote",
          IF "first_admin" \in meta THEN {} ELSE {<<u, role[u]>> : u \in Made})
  /\ UNCHANGED <<db, vecs, accs>>

Earliest(found) == Min({p[1] : p \in found})
Demoted(found) == {p[1] : p \in {q \in found : q[2] = "admin" /\ q[1] # Earliest(found)}}

\* Mutated form: the two Meta keys are left to an UPSERT.
StoreRolesAnyway(s) ==
  /\ Goes(s, "demote", "up", {})
  /\ role' = [u \in Account |-> IF read[s] # {} /\ u = Earliest(read[s]) THEN "admin"
                             ELSE IF u \in Demoted(read[s]) THEN "member" ELSE role[u]]
  /\ meta' = meta \union {"rbac_v1"} \union (IF read[s] = {} THEN {} ELSE {"first_admin"})
  /\ UNCHANGED <<db, vecs, key, unique, tracked, given>>

\* One transaction; the inserted Meta keys are UNIQUE, so it fails if another has stored them.
StoreRoles(s) ==
  /\ "rbac_v1" \notin meta
  /\ read[s] # {} => "first_admin" \notin meta
  /\ StoreRolesAnyway(s)

Unrecorded == index # 0 /\ (recorded = Unset \/ recorded.dims # index)

\* A step that cannot be done, a failing statement, or the process's death.
Cut(s) ==
  /\ at[s] \notin {"down", "up"} /\ cuts < MaxCuts
  /\ cuts' = cuts + 1
  /\ at' = [at EXCEPT ![s] = "down"] /\ read' = [read EXCEPT ![s] = {}]
  /\ torn' = (torn \/ Unrecorded)
  /\ UNCHANGED <<store, runs, configured, given, changes>>

Stop(s) ==
  /\ Goes(s, "up", "down", {})
  /\ UNCHANGED <<db, vecs, accs>>

\* The operator changes the model while nothing is being prepared.
Configure(e) ==
  /\ \A s \in Starter : at[s] \in {"up", "down"}
  /\ changes < MaxChanges /\ e # configured
  /\ configured' = e /\ changes' = changes + 1
  /\ UNCHANGED <<store, at, read, runs, torn, given, cuts>>

-----------------------------------------------------------------------------
(* Requests.                                                               *)

apart == <<db, at, read, runs, configured, changes, cuts>>

\* An ingestion's vectors, which nothing rejects while there is no index.
Ingest(s) ==
  /\ at[s] = "up" /\ index \in {0, Dims[runs[s]]}
  /\ vectors' = vectors \union {runs[s]}
  /\ UNCHANGED <<apart, index, recorded, torn, accs>>

\* reembed_all of a hub with one space replaces every vector, then records the model.
Reembed(s) ==
  /\ at[s] = "up" /\ index = Dims[runs[s]] /\ vectors # {}
  /\ vectors' = {runs[s]}
  /\ recorded' = [dims |-> Dims[runs[s]], provider |-> runs[s]]
  /\ UNCHANGED <<apart, index, torn, accs>>

\* A sign-up: the accounts are made in their order, the first admin claims its Meta key.  Its
\* own look for the name was earlier; only the UNIQUE index is sure.
SignUp(u) ==
  /\ db /\ role[u] = "none" /\ \A v \in 1..(u - 1) : role[v] # "none"
  /\ unique => \A v \in Made : key[v] # <<Names[u]>>
  /\ role' = [role EXCEPT ![u] = IF "first_admin" \in meta THEN "member" ELSE "admin"]
  /\ meta' = meta \union {"first_admin"}
  /\ key' = [key EXCEPT ![u] = <<Names[u]>>]
  /\ UNCHANGED <<apart, vecs, unique, tracked, given>>

\* change_role, which keeps an admin.
ChangeRole(u, r) ==
  /\ u \in Made /\ role[u] # r
  /\ r = "admin" \/ Admins # {u}
  /\ role' = [role EXCEPT ![u] = r]
  /\ given' = IF "rbac_v1" \in meta THEN [given EXCEPT ![u] = r] ELSE given
  /\ UNCHANGED <<apart, vecs, key, unique, tracked, meta>>

StartupNext ==
  \/ \E s \in Starter :
       \/ EnsureDatabase(s) \/ ReadEmbeddings(s) \/ DropIndex(s) \/ ClearVectors(s)
       \/ CreateIndex(s) \/ Record(s) \/ ReadNames(s) \/ StoreKeys(s) \/ MakeUnique(s)
       \/ TrackActivity(s) \/ ReadRoles(s) \/ StoreRoles(s)
       \/ Cut(s) \/ Stop(s) \/ Ingest(s) \/ Reembed(s)
  \/ \E e \in Embedder : Configure(e)
  \/ \E u \in Account : SignUp(u) \/ \E r \in {"admin", "member"} : ChangeRole(u, r)

StartupSpec == StartupInit /\ [][StartupNext]_startupVars

-----------------------------------------------------------------------------
(* Properties.                                                             *)

\* The roles migration "never touches roles an admin set later" (migrations.py, lines 10-14),
\* however many processes run it at once and however often it is cut short and repeated.
GivenRolesStay == \A u \in Account : given[u] # Unset => role[u] = given[u]

\* Whoever signed up while the name keys were migrated, every account has a key of its own,
\* and the oldest of those with one name, or one younger that was first, has the plain one.
NamesSettled ==
  \A u \in Made :
    /\ key[u] # Unset
    /\ \A v \in Made \ {u} : key[u] # key[v]
    /\ key[u] = Suffixed(u) => \E v \in Made : v < u /\ key[v] = <<Names[u]>>

\* A process that comes up finds an index for the vectors its model makes, whatever starts
\* with other models came before or were cut short, and the name keys settled; unless the
\* model was changed right after a start had been cut short between lines 237 and 242 of
\* schema.py.
ComesUpReady ==
  [][\A s \in Starter :
       at[s] # "up" /\ at'[s] = "up" => NamesSettled /\ (torn \/ index = Dims[runs[s]])]_startupVars
=============================================================================
