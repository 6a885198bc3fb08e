------------------------------- MODULE Locks -------------------------------
(***************************************************************************)
(* One named lock of app/coordination.py.  In worker mode it is a Redis    *)
(* key holding the token, with a time to live; in in-process mode it is an *)
(* entry of a dictionary that keeps the token beside its deadline.  Time   *)
(* is abstracted to whether the deadline has passed.                       *)
(***************************************************************************)
CONSTANTS
    Token,      \* the tokens, one fresh uuid per attempt to take the lock
    NoToken     \* not a token: the lock has no entry

VARIABLES
    workerMode, \* REDIS_URL is set: locks live in Redis
    owner,      \* the token stored under the lock's name
    live        \* there is an entry and its deadline has not passed

LockTypeOK ==
    /\ workerMode \in BOOLEAN
    /\ owner \in Token \cup {NoToken}
    /\ live \in BOOLEAN
    /\ live => owner # NoToken

LockInit ==
    /\ workerMode \in BOOLEAN
    /\ owner = NoToken
    /\ live = FALSE

\* is_held: the key exists, or the dictionary's entry has not expired.
Held == live

\* Mutant: SET without NX.
GrantAlways(t) == owner' = t /\ live' = TRUE

\* acquire, when it succeeds: SET NX EX, or an entry that is missing or expired.
Grant(t) ==
    /\ ~Held
    /\ owner' = t
    /\ live' = TRUE

\* Mutant: EXPIRE without comparing the token.
ExtendAny(t) == live' = TRUE /\ UNCHANGED owner

\* extend: compare the token, then move the deadline.  The dictionary still has
\* the token of an expired entry, so there an expired lock can come back to life.
Extend(t) ==
    /\ owner = t
    /\ live' = TRUE
    /\ UNCHANGED owner

\* Mutant: DEL without comparing the token.
FreeAny(t) == owner' = NoToken /\ live' = FALSE

\* release: compare the token, then delete.
Free(t) ==
    IF owner = t THEN owner' = NoToken /\ live' = FALSE
                 ELSE UNCHANGED <<owner, live>>

\* Mutant: SET without EX.
NeverExpires == FALSE

\* The deadline passes: Redis drops the key, the dictionary keeps a dead entry.
Expire ==
    /\ live
    /\ live' = FALSE
    /\ owner' = IF workerMode THEN NoToken ELSE owner
=============================================================================
