---------------------------- MODULE Credentials ----------------------------
(***************************************************************************)
(* Connectors' secrets and the keys they are under: crypto.py, the edits   *)
(* of routers/connectors.py, and the two migrations that rewrite           *)
(* connectors (migrations.py, lines 107-164), run by the provisioning job  *)
(* while app instances serve.  A cipher is told apart by the key it is     *)
(* under; a secret by the number of the entry that gave it.                *)
(***************************************************************************)
EXTENDS Naturals, Sequences

CONSTANTS
  Connector, Edit, Instance, None,
  MaxKeys,     \* bound on the keys ever generated
  MaxValues    \* bound on the secrets entered

ASSUME KeysAssumption ==
  /\ MaxKeys \in Nat \ {0} /\ MaxValues \in Nat \ {0}
  /\ None \notin Edit /\ Instance # {}

Plain == 0     \* the key of a secret stored before encryption existed
Masked == 0    \* what an edit sends to keep the stored secret

VARIABLES
  env,         \* CREDENTIALS_KEY as the operator has set it, current key first
  keys,        \* the keys each running instance was started with
  config,      \* what is stored: the secret's entry, its key, and whether the address is explicit
  edit,        \* each PATCH: where it runs, what it read, the secret it sends
  job,         \* the migrations: their keys, what they read, how far they are
  entered,     \* history: the entry the users last saved
  overtaken,   \* history: a write put back a config read before another commit
  late,        \* history: secrets that an instance not yet restarted stored after the job had read
  values

credentialVars == <<env, keys, config, edit, job, entered, overtaken, late, values>>

NoEdit == [at |-> "done", on |-> None, of |-> None, read |-> None, value |-> None, stale |-> FALSE]

\* A database of an older version, with or without a key set by now.
CredentialsInit ==
  /\ env \in {<<>>, <<1>>}
  /\ keys = [i \in Instance |-> env]
  /\ config \in [Connector -> {None, [value |-> 1, key |-> Plain, explicit |-> FALSE]}]
  /\ edit = [e \in Edit |-> NoEdit]
  /\ job = [at |-> "done", keys |-> env, read |-> config, stale |-> {}, settled |-> FALSE]
  /\ entered = [c \in Connector |-> 1]
  /\ overtaken = {} /\ late = {} /\ values = 1

-----------------------------------------------------------------------------
(* Keys.                                                                   *)

Has(ring, key) == \E i \in DOMAIN ring : ring[i] = key
Available(ring) == ring # <<>>

\* Mutated form: a secret under any key the server has counts as done.
NeedsReencryptionUnlessOpen(stored, ring) == stored.key = Plain \/ ~Has(ring, stored.key)

NeedsReencryption(stored, ring) ==
  stored.key = Plain \/ (Available(ring) /\ stored.key # ring[1])

Encrypt(stored, ring) == [stored EXCEPT !.key = ring[1]]

\* seal_fields: a plaintext is encrypted, a cipher stays as it is.
Seal(stored, ring) == IF stored.key = Plain THEN Encrypt(stored, ring) ELSE stored

-----------------------------------------------------------------------------
(* Edits.                                                                  *)

\* A commit to connectors makes what others have read of them stale.
Overtakes(cs, own) ==
  [e \in Edit |-> [edit[e] EXCEPT !.stale = @ \/ (e # own /\ edit[e].of \in cs)]]

\* Sealed now under another key than the first, with no read of the job still to come.
SealedLate(ring) == job.keys = env /\ job.at \in {"credentials", "done"} /\ ring[1] # env[1]

Create(c, i) ==
  /\ config[c] = None /\ Available(keys[i]) /\ values < MaxValues
  /\ config' = [config EXCEPT ![c] =
       Seal([value |-> values + 1, key |-> Plain, explicit |-> TRUE], keys[i])]
  /\ values' = values + 1
  /\ entered' = [entered EXCEPT ![c] = values + 1]
  /\ late' = IF SealedLate(keys[i]) THEN late \union {c} ELSE late \ {c}
  /\ UNCHANGED <<env, keys, edit, job, overtaken>>

\* The PATCH reads its connector; it sends a new secret or the mask of the stored one.
EditReads(e, c, i) ==
  /\ edit[e].at = "done" /\ config[c] # None
  /\ \E sends \in {Masked} \union (IF values < MaxValues THEN {values + 1} ELSE {}) :
       /\ edit' = [edit EXCEPT ![e] = [at |-> "read", on |-> i, of |-> c, read |-> config[c],
                                       value |-> sends, stale |-> FALSE]]
       /\ values' = IF sends = Masked THEN values ELSE sends
  /\ UNCHANGED <<env, keys, config, job, entered, overtaken, late>>

\* An edit needs a key only when it has a plaintext to seal.
EditStores(e) ==
  LET c == edit[e].of
      kept == edit[e].value = Masked
      ring == keys[edit[e].on]
      sent == IF kept THEN edit[e].read ELSE [edit[e].read EXCEPT !.value = edit[e].value, !.key = Plain]
  IN /\ edit[e].at = "read"
     /\ sent.key = Plain => Available(ring)
     /\ config' = [config EXCEPT ![c] = [Seal(sent, ring) EXCEPT !.explicit = TRUE]]
     /\ edit' = [Overtakes({c}, e) EXCEPT ![e] = NoEdit]
     /\ job' = [job EXCEPT !.stale = @ \union {c}]
     /\ entered' = IF kept THEN entered ELSE [entered EXCEPT ![c] = edit[e].value]
     /\ overtaken' = IF ~kept THEN overtaken \ {c}
                     ELSE IF edit[e].stale THEN overtaken \union {c} ELSE overtaken
     /\ late' = IF sent.key # Plain THEN late
                ELSE IF SealedLate(ring) THEN late \union {c} ELSE late \ {c}
     /\ UNCHANGED <<env, keys, values>>

\* Refused, failed, or cut short.
EditEnds(e) ==
  /\ edit[e].at = "read"
  /\ edit' = [edit EXCEPT ![e] = NoEdit]
  /\ UNCHANGED <<env, keys, config, job, entered, overtaken, late, values>>

-----------------------------------------------------------------------------
(* Migrations: each reads all connectors before its transaction begins.    *)

JobStarts ==
  /\ job.at \in {"done", "failed"}
  /\ job' = [at |-> "addresses", keys |-> env, read |-> config, stale |-> {},
             settled |-> \A i \in Instance : keys[i] = env]
  /\ UNCHANGED <<env, keys, config, edit, entered, overtaken, late, values>>

\* One transaction stores the connectors of `dirty`, as they become.
JobStores(dirty, becomes) ==
  /\ config' = [c \in Connector |-> IF c \in dirty THEN becomes[c] ELSE config[c]]
  /\ edit' = Overtakes(dirty, None)
  /\ overtaken' = overtaken \union (dirty \intersect job.stale)
  /\ UNCHANGED <<env, keys, entered, values>>

MigrateAddresses ==
  /\ job.at = "addresses"
  /\ LET dirty == {c \in Connector : job.read[c] # None /\ ~job.read[c].explicit}
     IN JobStores(dirty, [c \in dirty |-> [job.read[c] EXCEPT !.explicit = TRUE]])
  /\ job' = [job EXCEPT !.at = "moved"]
  /\ UNCHANGED late

ReadSecrets ==
  /\ job.at = "moved"
  /\ job' = [job EXCEPT !.at = "credentials", !.read = config, !.stale = {}]
  /\ UNCHANGED <<env, keys, config, edit, entered, overtaken, late, values>>

\* A secret under a key the job does not have is left as it is, and so is a plaintext without a key.
MigrateCredentials ==
  /\ job.at = "credentials"
  /\ LET dirty == {c \in Connector :
                     /\ job.read[c] # None
                     /\ NeedsReencryption(job.read[c], job.keys)
                     /\ Available(job.keys)
                     /\ job.read[c].key = Plain \/ Has(job.keys, job.read[c].key)}
     IN /\ JobStores(dirty, [c \in dirty |-> Encrypt(job.read[c], job.keys)])
        /\ late' = late \ dirty
  /\ job' = [job EXCEPT !.at = "done"]

\* The job dies or a commit of its conflicts; it is run again from its start.
JobFails ==
  /\ job.at \notin {"done", "failed"}
  /\ job' = [job EXCEPT !.at = "failed"]
  /\ UNCHANGED <<env, keys, config, edit, entered, overtaken, late, values>>

-----------------------------------------------------------------------------
(* The operator rotates keys as docs/security.md:25 and crypto.py:12-14    *)
(* say: a new one in front, one restart, and the old one is dropped.       *)

Everywhere == \A i \in Instance : keys[i] = env

Prepend ==
  /\ Everywhere /\ Len(env) < 2
  /\ LET k == IF env = <<>> THEN 1 ELSE env[1] + 1
     IN k <= MaxKeys /\ env' = <<k>> \o env
  /\ job' = [job EXCEPT !.settled = FALSE]
  /\ UNCHANGED <<keys, config, edit, entered, overtaken, late, values>>

\* Nothing but the restart is waited for.
DropOld ==
  /\ Everywhere /\ Len(env) = 2
  /\ env' = <<env[1]>>
  /\ job' = [job EXCEPT !.settled = FALSE]
  /\ UNCHANGED <<keys, config, edit, entered, overtaken, late, values>>

\* An instance starts with the keys of now, once the job has run with them; its requests are gone.
Restart(i) ==
  /\ keys[i] # env
  /\ job.at = "done" /\ job.keys = env
  /\ keys' = [keys EXCEPT ![i] = env]
  /\ edit' = [e \in Edit |-> IF edit[e].on = i THEN NoEdit ELSE edit[e]]
  /\ UNCHANGED <<env, config, job, entered, overtaken, late, values>>

CredentialsNext ==
  \/ \E c \in Connector, i \in Instance : Create(c, i) \/ \E e \in Edit : EditReads(e, c, i)
  \/ \E e \in Edit : EditStores(e) \/ EditEnds(e)
  \/ JobStarts \/ MigrateAddresses \/ ReadSecrets \/ MigrateCredentials \/ JobFails
  \/ Prepend \/ DropOld \/ \E i \in Instance : Restart(i)

CredentialsSpec == CredentialsInit /\ [][CredentialsNext]_credentialVars

-----------------------------------------------------------------------------
(* Properties.                                                             *)

\* However edits, migrations, failures, restarts and the documented rotation overlap, a connector
\* keeps the secret its users entered last, and under a key the operator still has, with two
\* exceptions.  A write that keeps the stored secret may put back what it had read before another
\* commit (routers/connectors.py:187; migrations.py:121, 156), until the secret is entered again.  And
\* a secret that an instance not yet restarted stores after the job has read stays under the old key,
\* and is lost with it: one restart, as documented, is not enough then.  What is enough is a migration
\* begun after every instance has restarted: it leaves each secret of the operator's keys under the first.
SecretsSurvive ==
  \A c \in Connector : config[c] = None \/ c \in overtaken \/
    LET opens == config[c].key = Plain \/ Has(env, config[c].key)
    IN  /\ config[c].value = entered[c]
        /\ opens \/ c \in late
        /\ opens /\ env # <<>> /\ job.at = "done" /\ job.settled => config[c].key = env[1]
=============================================================================
