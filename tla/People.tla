------------------------------- MODULE People -------------------------------
(***************************************************************************)
(* Accounts, groups and the inactivity clean-up: routers/auth.py,          *)
(* routers/admin.py, routers/groups.py and services/retention.py.  Each    *)
(* request checks first, in reads of their own, and writes later in one    *)
(* transaction, which nothing makes it look again before; the clean-up     *)
(* plans once and deletes one group or account per transaction.            *)
(***************************************************************************)
EXTENDS Naturals, FiniteSets

CONSTANTS
    User,       \* the accounts there may be: each is registered once at most
    Group,      \* the groups there may be
    Request     \* API requests that run at once

None == "none"

ASSUME PeopleAssumption ==
    /\ IsFiniteSet(User)
    /\ User \cap Group = {}
    /\ None \notin User

Role == {"admin", "member"}

\* A Membership row: what UPSERTs have set of it.  Past memberships, declined, left
\* or removed, are told apart nowhere.
MembershipStatus == {None, "invited", "active", "past"}
Row == [role : Role \cup {None}, status : MembershipStatus]
NoRow == [role |-> None, status |-> None]

VARIABLES
    users,      \* the accounts
    admins,     \* those whose role is admin
    claimed,    \* Meta 'first_admin' is there
    groups,     \* the groups
    row,        \* the Membership row of a user in a group, NoRow where there is none
    known,      \* history: the accounts and groups there have been
    founders,   \* history: how many became admin by signing up
    phase,      \* where each request is
    job,        \* what it has checked and will do
    current,    \* history: nothing it checked has changed since
    run,        \* the clean-up: where it is
    due,        \* what its plan still has to delete
    dueAdmins,  \* the accounts its plan read as admins
    adminsLeft, \* its count of admins
    target,     \* the account it is deleting
    heirs,      \* who gets each group of that account
    undisturbed \* history: only the clean-up has changed anything since it planned

accountVars == <<users, admins, claimed, founders>>
groupVars == <<groups, row>>
storeVars == <<accountVars, groupVars, known>>
requestVars == <<phase, job, current>>
runVars == <<run, due, dueAdmins, adminsLeft, target, heirs>>
vars == <<storeVars, requestVars, runVars, undisturbed>>

Job ==
    {[op |-> "none"]}
    \cup [op : {"signup"}, user : User, role : Role, claim : BOOLEAN]
    \cup [op : {"role"}, user : User, role : Role]
    \cup [op : {"create"}, user : User, group : Group]
    \cup [op : {"delete"}, group : Group]
    \cup [op : {"membership"}, user : User, group : Group, status : MembershipStatus]

NoJob == [op |-> "none"]

TypeOK ==
    /\ users \subseteq User /\ admins \subseteq users /\ claimed \in BOOLEAN
    /\ groups \subseteq Group
    /\ row \in [Group -> [User -> Row]]
    /\ known \subseteq User \cup Group /\ users \cup groups \subseteq known
    /\ founders \in Nat
    /\ phase \in [Request -> {"idle", "checked"}]
    /\ job \in [Request -> Job]
    /\ current \in [Request -> BOOLEAN]
    /\ run \in {"off", "groups", "users", "deleting"}
    /\ due \subseteq User \cup Group
    /\ dueAdmins \subseteq User
    /\ adminsLeft \in Nat
    /\ target \in User \cup {None}
    /\ DOMAIN heirs \subseteq Group
    /\ \A g \in DOMAIN heirs : heirs[g] \in User \cup {None}
    /\ undisturbed \in BOOLEAN

NoHeirs == [g \in {} |-> None]

Init ==
    /\ users = {} /\ admins = {} /\ claimed = FALSE
    /\ groups = {}
    /\ row = [g \in Group |-> [u \in User |-> NoRow]]
    /\ known = {} /\ founders = 0
    /\ phase = [t \in Request |-> "idle"]
    /\ job = [t \in Request |-> NoJob]
    /\ current = [t \in Request |-> FALSE]
    /\ run = "off" /\ due = {} /\ dueAdmins = {} /\ adminsLeft = 0
    /\ target = None /\ heirs = NoHeirs
    /\ undisturbed = FALSE

Active(g) == {u \in User : row[g][u].status = "active"}
Leaders(g) == {u \in Active(g) : row[g][u].role = "admin"}

-----------------------------------------------------------------------------
(* A request's checks.                                                     *)

\* The request passed its checks.
Accept(t, j) ==
    /\ phase[t] = "idle"
    /\ phase' = [phase EXCEPT ![t] = "checked"]
    /\ job' = [job EXCEPT ![t] = j]
    /\ current' = [current EXCEPT ![t] = TRUE]
    /\ UNCHANGED <<storeVars, runVars, undisturbed>>

\* register: the first to sign up will claim to be the first admin.
CheckSignup(t) ==
    \E u \in User \ known :
        Accept(t, [op |-> "signup", user |-> u, claim |-> ~claimed,
                   role |-> IF claimed THEN "member" ELSE "admin"])

\* add_user
CheckAddUser(t) ==
    \E a \in admins, u \in User \ known, r \in Role :
        Accept(t, [op |-> "signup", user |-> u, role |-> r, claim |-> FALSE])

\* change_role: the last admin keeps the role.
CheckRole(t) ==
    \E a \in admins, u \in users, r \in Role :
        /\ u \in admins /\ r # "admin" => Cardinality(admins) > 1
        /\ Accept(t, [op |-> "role", user |-> u, role |-> r])

\* create_group
CheckCreate(t) ==
    \E a \in users, g \in Group \ known :
        Accept(t, [op |-> "create", user |-> a, group |-> g])

\* delete_group; a sync in progress only keeps it from passing.
CheckDelete(t) ==
    \E g \in Group : \E a \in users \cap Leaders(g) :
        Accept(t, [op |-> "delete", group |-> g])

Answer(u, g, s) == [op |-> "membership", user |-> u, group |-> g, status |-> s]

\* invite: anyone but a member and who is invited already.
CheckInvite(t) ==
    \E g \in Group : \E a \in users \cap Leaders(g), u \in users :
        /\ row[g][u].status \notin {"active", "invited"}
        /\ Accept(t, Answer(u, g, "invited"))

\* remove_member, not oneself.
CheckRemove(t) ==
    \E g \in Group : \E a \in users \cap Leaders(g), u \in User :
        /\ u # a /\ row[g][u].status \in {"active", "invited"}
        /\ Accept(t, Answer(u, g, "past"))

\* leave_group, but its admin.  (Mutant: its admin too.)
CheckLeaveAny(t) ==
    \E g \in Group : \E a \in users \cap Active(g) : Accept(t, Answer(a, g, "past"))
CheckLeave(t) ==
    \E g \in Group : \E a \in users \cap Active(g) :
        /\ row[g][a].role # "admin"
        /\ Accept(t, Answer(a, g, "past"))

\* accept_invitation, decline_invitation
CheckRespond(t) ==
    \E g \in Group, a \in users, s \in {"active", "past"} :
        /\ row[g][a].status = "invited"
        /\ Accept(t, Answer(a, g, s))

-----------------------------------------------------------------------------
(* Its transaction.                                                        *)

\* The request is over; what it stored is news to the others.
Done(t) ==
    /\ phase[t] = "checked"
    /\ phase' = [phase EXCEPT ![t] = "idle"]
    /\ job' = [job EXCEPT ![t] = NoJob]
    /\ current' = [r \in Request |-> r # t /\ current[r] /\ storeVars' = storeVars]
    /\ undisturbed' = (undisturbed /\ storeVars' = storeVars)
    /\ UNCHANGED runVars

\* create_user: the unique key 'first_admin' lets one claim in; who loses it
\* becomes a member.  (Mutant: the key is not unique.)
StoreUserAsClaimed(t) ==
    LET j == job[t] IN
    /\ j.op = "signup"
    /\ IF j.user \in known
         THEN UNCHANGED <<accountVars, known>>
         ELSE /\ users' = users \cup {j.user}
              /\ known' = known \cup {j.user}
              /\ admins' = IF j.role = "admin" THEN admins \cup {j.user} ELSE admins
              /\ founders' = IF j.claim THEN founders + 1 ELSE founders
              /\ claimed' = (claimed \/ j.claim)
    /\ UNCHANGED groupVars
    /\ Done(t)
StoreUser(t) ==
    LET j == job[t]
        wins == j.claim /\ ~claimed
    IN  /\ j.op = "signup"
        /\ IF j.user \in known
             THEN UNCHANGED <<accountVars, known>>
             ELSE /\ users' = users \cup {j.user}
                  /\ known' = known \cup {j.user}
                  /\ admins' = IF wins \/ (j.role = "admin" /\ ~j.claim)
                                 THEN admins \cup {j.user} ELSE admins
                  /\ founders' = IF wins THEN founders + 1 ELSE founders
                  /\ claimed' = (claimed \/ j.claim)
        /\ UNCHANGED groupVars
        /\ Done(t)

\* set_role, of an account that is still there.  (Mutant: or that is gone.)
StoreRoleAnyway(t) ==
    LET j == job[t] IN
    /\ j.op = "role"
    /\ admins' = IF j.role = "admin" THEN admins \cup {j.user} ELSE admins \ {j.user}
    /\ UNCHANGED <<users, claimed, founders, groupVars, known>>
    /\ Done(t)
StoreRole(t) ==
    LET j == job[t] IN
    /\ j.op = "role"
    /\ admins' = IF j.role = "admin" THEN admins \cup ({j.user} \cap users) ELSE admins \ {j.user}
    /\ UNCHANGED <<users, claimed, founders, groupVars, known>>
    /\ Done(t)

StoreGroup(t) ==
    LET j == job[t] IN
    /\ j.op = "create"
    /\ j.group \notin known
    /\ groups' = groups \cup {j.group}
    /\ known' = known \cup {j.group}
    /\ row' = [row EXCEPT ![j.group][j.user] = [role |-> "admin", status |-> "active"]]
    /\ UNCHANGED accountVars
    /\ Done(t)

\* The rows without those of groups G and users U.
RowsWithout(G, U) ==
    [g \in Group |-> [u \in User |-> IF g \in G \/ u \in U THEN NoRow ELSE row[g][u]]]

\* delete_everything
DeleteGroup(t) ==
    LET j == job[t] IN
    /\ j.op = "delete"
    /\ groups' = groups \ {j.group}
    /\ row' = RowsWithout({j.group}, {})
    /\ UNCHANGED <<accountVars, known>>
    /\ Done(t)

\* set_membership: an UPSERT, which creates the row if it is gone.  An invitation
\* sets the role too.
StoreMembership(t) ==
    LET j == job[t] IN
    /\ j.op = "membership"
    /\ row' = [row EXCEPT ![j.group][j.user] =
                  [role |-> IF j.status = "invited" THEN "member" ELSE @.role,
                   status |-> j.status]]
    /\ UNCHANGED <<accountVars, groups, known>>
    /\ Done(t)

\* The request fails before its commit.
Fail(t) ==
    /\ UNCHANGED storeVars
    /\ Done(t)

-----------------------------------------------------------------------------
(* The clean-up, one at a time: it holds a lock.                           *)

\* What it commits changes what requests have checked.
RunCommits ==
    /\ current' = [t \in Request |-> FALSE]
    /\ UNCHANGED <<phase, job, undisturbed>>

\* plan: what nobody has used for RETENTION_INACTIVE_DAYS, which may be anything,
\* as a year may go by between any two steps.
RunPlans ==
    /\ run = "off"
    /\ run' = "groups"
    /\ \E D \in SUBSET (users \cup groups) :
         /\ due' = D
         /\ dueAdmins' = admins \cap D
    /\ undisturbed' = TRUE
    /\ UNCHANGED <<storeVars, requestVars, adminsLeft, target, heirs>>

RunDeletesGroup ==
    \E g \in due \cap Group :
        /\ run = "groups"
        /\ groups' = groups \ {g}
        /\ row' = RowsWithout({g}, {})
        /\ due' = due \ {g}
        /\ UNCHANGED <<accountVars, known, run, dueAdmins, adminsLeft, target, heirs>>
        /\ RunCommits

RunCounts ==
    /\ run = "groups"
    /\ due \cap Group = {}
    /\ run' = "users"
    /\ adminsLeft' = Cardinality(admins)
    /\ UNCHANGED <<storeVars, requestVars, due, dueAdmins, target, heirs, undisturbed>>

IsLastAdmin(u) == u \in dueAdmins /\ adminsLeft <= 1

\* The last admin is left alone, and a group or account whose connectors sync.
RunSkips ==
    \E x \in due :
        /\ (run = "groups" /\ x \in Group) \/ (run = "users" /\ x \in User)
        /\ due' = due \ {x}
        /\ UNCHANGED <<storeVars, requestVars, run, dueAdmins, adminsLeft, target, heirs,
                       undisturbed>>

\* delete_user reads who inherits each group the account leads, if anyone: whoever
\* has been a member longest, here any other active member.
Heirs(u, g) == IF Active(g) = {u} THEN {None} ELSE Active(g) \ {u}

RunPicks ==
    \E u \in due \cap User :
        LET led == {g \in Group : u \in Leaders(g)} IN
        /\ run = "users"
        /\ ~IsLastAdmin(u)
        /\ run' = "deleting"
        /\ target' = u
        /\ \E h \in [led -> User \cup {None}] :
             /\ \A g \in led : h[g] \in Heirs(u, g)
             /\ heirs' = h
        /\ UNCHANGED <<storeVars, requestVars, due, dueAdmins, adminsLeft, undisturbed>>

\* The groups that end with the account.
Ended == {g \in DOMAIN heirs : heirs[g] = None}

\* The rows once its heirs have its groups and its own are gone.
\* (Mutant: its own stay.)
RowsPassedOnOnly ==
    [g \in Group |-> [u \in User |->
        IF g \in Ended THEN NoRow
        ELSE IF g \in DOMAIN heirs /\ u = heirs[g] THEN [row[g][u] EXCEPT !.role = "admin"]
        ELSE row[g][u]]]
RowsPassedOn ==
    [g \in Group |-> [u \in User |->
        IF u = target \/ g \in Ended THEN NoRow
        ELSE IF g \in DOMAIN heirs /\ u = heirs[g] THEN [row[g][u] EXCEPT !.role = "admin"]
        ELSE row[g][u]]]

\* The admins left once it is deleted.  (Mutant: it is not counted.)
AdminsLeftUncounted == adminsLeft
AdminsLeftAfter == IF target \in dueAdmins THEN adminsLeft - 1 ELSE adminsLeft

\* delete_user's transaction: hand over or delete its groups, then delete its rows
\* and the account.
RunDeletesUser ==
    /\ run = "deleting"
    /\ run' = "users"
    /\ due' = due \ {target}
    /\ adminsLeft' = AdminsLeftAfter
    /\ users' = users \ {target}
    /\ admins' = admins \ {target}
    /\ groups' = groups \ Ended
    /\ row' = RowsPassedOn
    /\ target' = None /\ heirs' = NoHeirs
    /\ UNCHANGED <<claimed, founders, known, dueAdmins>>
    /\ RunCommits

\* The run is over, or fails: what it has committed stays.
RunEnds ==
    /\ run # "off"
    /\ run' = "off" /\ due' = {} /\ dueAdmins' = {} /\ adminsLeft' = 0
    /\ target' = None /\ heirs' = NoHeirs
    /\ undisturbed' = FALSE
    /\ UNCHANGED <<storeVars, requestVars>>

Run ==
    \/ RunPlans \/ RunDeletesGroup \/ RunCounts \/ RunSkips \/ RunPicks
    \/ RunDeletesUser \/ RunEnds

Next ==
    \/ \E t \in Request :
         \/ CheckSignup(t) \/ CheckAddUser(t) \/ CheckRole(t) \/ CheckCreate(t)
         \/ CheckDelete(t) \/ CheckInvite(t) \/ CheckRemove(t) \/ CheckLeave(t)
         \/ CheckRespond(t)
         \/ StoreUser(t) \/ StoreRole(t) \/ StoreGroup(t) \/ DeleteGroup(t)
         \/ StoreMembership(t) \/ Fail(t)
    \/ Run

Spec == Init /\ [][Next]_vars

-----------------------------------------------------------------------------
(* Properties.                                                             *)

\* routers/auth.py, lines 44-45: concurrent sign-ups can't both become admin, and
\* no account is there before one has.
OneFounder == founders <= 1 /\ (users # {} => founders = 1)

\* docs/security.md, line 8, and services/retention.py, line 28: once there is
\* a server admin, there always is one.
AdminRemains == claimed => admins # {}

\* Whatever overlaps, a group never has two admins.
OneLeader == \A g \in Group : \A u, v \in Leaders(g) : u = v

\* Every group is led by one account, and memberships join accounts and groups that
\* are there.
Orderly ==
    /\ AdminRemains
    /\ \A g \in groups : \E u \in users : Leaders(g) = {u}
    /\ \A g \in Group, u \in User : row[g][u] # NoRow => g \in groups /\ u \in users

\* A request's checks are enough when nothing commits between them and its write.
RequestsSuffice ==
    [][\A t \in Request :
          phase[t] = "checked" /\ phase'[t] = "idle" /\ current[t] /\ Orderly => Orderly']_vars

\* The clean-up's plan, its count of admins and its choice of heirs are enough when
\* only the clean-up commits, however many accounts and groups are due.
RunSuffices ==
    [][run # "off" /\ run' # "off" /\ undisturbed' /\ Orderly => Orderly']_vars
=============================================================================
