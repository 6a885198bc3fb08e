---------------------------- MODULE PeopleProofs ----------------------------
(***************************************************************************)
(* Proofs about People, for any number of accounts, groups and requests.   *)
(***************************************************************************)
EXTENDS People, FiniteSetTheorems, TLAPS

\* What a request's check leaves true of its job: who signs up without a claim comes
\* after one that won, and a membership changes in a group there has been.
JobInv(t) ==
    /\ job[t].op = "signup" /\ ~job[t].claim => claimed
    /\ job[t].op = "membership" => job[t].group \in known

\* One claim wins, before anyone else is there.
FoundInv ==
    /\ founders = IF claimed THEN 1 ELSE 0
    /\ users # {} => claimed

\* Of the rows of a group, whatever their status, one at most has the role of admin;
\* a group not created yet has none.
LeadInv ==
    /\ \A g \in Group : \A u, v \in User :
          row[g][u].role = "admin" /\ row[g][v].role = "admin" => u = v
    /\ \A g \in Group \ known : \A u \in User : row[g][u] = NoRow

\* The account being deleted is not the last counted admin, and still the only one
\* with the role in the groups it is to pass on, which have been there.
DeletingInv ==
    run = "deleting" =>
        /\ target \in User
        /\ target \in dueAdmins => adminsLeft > 1
        /\ DOMAIN heirs \subseteq known
        /\ \A g \in DOMAIN heirs : \A u \in User : row[g][u].role = "admin" => u = target

Inv ==
    /\ TypeOK
    /\ FoundInv
    /\ LeadInv
    /\ DeletingInv
    /\ \A t \in Request : JobInv(t)

-----------------------------------------------------------------------------

LEMMA RowTypes ==
    /\ NoRow \in Row
    /\ NoRow.role = None /\ NoRow.status = None
    /\ None # "admin" /\ None # "active"
    /\ \A r \in Role \cup {None}, s \in MembershipStatus : [role |-> r, status |-> s] \in Row
    /\ \A x \in Row : x.role \in Role \cup {None} /\ x.status \in MembershipStatus
    /\ \A x \in Row : [x EXCEPT !.role = "admin"] \in Row
    /\ {"admin", "member"} \subseteq Role /\ {"active", "invited", "past"} \subseteq MembershipStatus
BY DEF NoRow, Row, Role, MembershipStatus, None

LEMMA JobForms ==
    ASSUME NEW j \in Job
    PROVE  /\ j.op \in {"none", "signup", "role", "create", "delete", "membership"}
           /\ j.op = "signup" => j.user \in User /\ j.role \in Role /\ j.claim \in BOOLEAN
           /\ j.op = "role" => j.user \in User /\ j.role \in Role
           /\ j.op = "create" => j.user \in User /\ j.group \in Group
           /\ j.op = "delete" => j.group \in Group
           /\ j.op = "membership" => j.user \in User /\ j.group \in Group /\ j.status \in MembershipStatus
BY DEF Job

LEMMA InitInv == Init => Inv
<1> SUFFICES ASSUME Init PROVE Inv
  OBVIOUS
<1>1. TypeOK
  BY RowTypes DEF Init, TypeOK, NoJob, Job, NoHeirs
<1>2. FoundInv /\ LeadInv /\ DeletingInv
  BY RowTypes DEF Init, FoundInv, LeadInv, DeletingInv
<1>3. \A t \in Request : JobInv(t)
  BY DEF Init, JobInv, NoJob
<1> QED BY <1>1, <1>2, <1>3 DEF Inv

\* A check changes its request only.
LEMMA AcceptInv ==
    ASSUME Inv, NEW t \in Request, NEW j \in Job, Accept(t, j),
           j.op = "signup" /\ ~j.claim => claimed,
           j.op = "membership" => j.group \in known
    PROVE  Inv'
<1> USE DEF Accept, storeVars, accountVars, groupVars, runVars
<1>1. TypeOK'
  BY DEF Inv, TypeOK
<1>2. FoundInv' /\ LeadInv' /\ DeletingInv'
  BY DEF Inv, FoundInv, LeadInv, DeletingInv
<1>3. ASSUME NEW u \in Request PROVE JobInv(u)'
  BY DEF Inv, TypeOK, JobInv
<1> QED BY <1>1, <1>2, <1>3 DEF Inv

LEMMA CheckInv ==
    ASSUME Inv, NEW t \in Request,
           \/ CheckSignup(t) \/ CheckAddUser(t) \/ CheckRole(t) \/ CheckCreate(t)
           \/ CheckDelete(t) \/ CheckInvite(t) \/ CheckRemove(t) \/ CheckLeave(t)
           \/ CheckRespond(t)
    PROVE  Inv'
<1>1. CASE CheckSignup(t)
  <2> PICK u \in User :
        Accept(t, [op |-> "signup", user |-> u, claim |-> ~claimed,
                   role |-> IF claimed THEN "member" ELSE "admin"])
    BY <1>1 DEF CheckSignup
  <2> DEFINE j == [op |-> "signup", user |-> u, claim |-> ~claimed,
                   role |-> IF claimed THEN "member" ELSE "admin"]
  <2>1. j \in Job /\ j.op = "signup" /\ j.claim = ~claimed
    BY DEF Job, Role
  <2> HIDE DEF j
  <2> QED BY <2>1, AcceptInv DEF j
<1>2. CASE CheckAddUser(t)
  <2>1. claimed
    BY <1>2 DEF CheckAddUser, Inv, TypeOK, FoundInv
  <2> PICK u \in User, r \in Role :
        Accept(t, [op |-> "signup", user |-> u, role |-> r, claim |-> FALSE])
    BY <1>2 DEF CheckAddUser
  <2> DEFINE j == [op |-> "signup", user |-> u, role |-> r, claim |-> FALSE]
  <2>2. j \in Job /\ j.op = "signup"
    BY DEF Job
  <2> QED BY <2>1, <2>2, AcceptInv
<1>3. CASE CheckRole(t)
  <2> PICK u \in users, r \in Role : Accept(t, [op |-> "role", user |-> u, role |-> r])
    BY <1>3 DEF CheckRole
  <2> DEFINE j == [op |-> "role", user |-> u, role |-> r]
  <2>1. j \in Job /\ j.op = "role"
    BY DEF Job, Inv, TypeOK
  <2> QED BY <2>1, AcceptInv
<1>4. CASE CheckCreate(t)
  <2> PICK a \in users, g \in Group : Accept(t, [op |-> "create", user |-> a, group |-> g])
    BY <1>4 DEF CheckCreate
  <2> DEFINE j == [op |-> "create", user |-> a, group |-> g]
  <2>1. j \in Job /\ j.op = "create"
    BY DEF Job, Inv, TypeOK
  <2> QED BY <2>1, AcceptInv
<1>5. CASE CheckDelete(t)
  <2> PICK g \in Group : Accept(t, [op |-> "delete", group |-> g])
    BY <1>5 DEF CheckDelete
  <2> DEFINE j == [op |-> "delete", group |-> g]
  <2>1. j \in Job /\ j.op = "delete"
    BY DEF Job
  <2> QED BY <2>1, AcceptInv
<1>6. CASE CheckInvite(t) \/ CheckRemove(t) \/ CheckLeave(t) \/ CheckRespond(t)
  <2>1. PICK g \in Group, u \in User, s \in MembershipStatus :
          Accept(t, Answer(u, g, s)) /\ \E v \in User : row[g][v] # NoRow
    <3>1. users \subseteq User /\ \A g \in Group : Active(g) \subseteq User
      BY DEF Inv, TypeOK, Active
    <3>2. \A g \in Group : \A v \in User : row[g][v].status # None => row[g][v] # NoRow
      BY RowTypes
    <3>3. CASE CheckInvite(t)
      BY <3>1, <3>2, <3>3, RowTypes DEF CheckInvite, Leaders, Active
    <3>4. CASE CheckRemove(t)
      BY <3>1, <3>2, <3>4, RowTypes DEF CheckRemove, Leaders, Active
    <3>5. CASE CheckLeave(t)
      BY <3>1, <3>2, <3>5, RowTypes DEF CheckLeave, Active
    <3>6. CASE CheckRespond(t)
      BY <3>1, <3>2, <3>6, RowTypes DEF CheckRespond, None
    <3> QED BY <1>6, <3>3, <3>4, <3>5, <3>6
  <2>2. g \in known
    BY <2>1 DEF Inv, LeadInv
  <2> DEFINE j == Answer(u, g, s)
  <2>3. j \in Job /\ j.op = "membership" /\ j.group = g
    BY DEF Job, Answer
  <2> HIDE DEF j
  <2> QED BY <2>1, <2>2, <2>3, AcceptInv DEF j
<1> QED BY <1>1, <1>2, <1>3, <1>4, <1>5, <1>6

-----------------------------------------------------------------------------
(* The transaction of a request.                                           *)

StoreTypes ==
    /\ users \subseteq User /\ admins \subseteq users /\ claimed \in BOOLEAN
    /\ groups \subseteq Group
    /\ row \in [Group -> [User -> Row]]
    /\ known \subseteq User \cup Group /\ users \cup groups \subseteq known
    /\ founders \in Nat

\* What a request stores keeps Inv if it keeps the parts about the store, forgets no
\* account, group or claim, and gives the role of admin in new groups only.
LEMMA DoneInv ==
    ASSUME Inv, NEW t \in Request, Done(t),
           StoreTypes', FoundInv', LeadInv',
           known \subseteq known', claimed => claimed',
           \A g \in known \cap Group : \A u \in User :
              row'[g][u].role = "admin" => row[g][u].role = "admin"
    PROVE  Inv'
<1> USE DEF Done, runVars
<1>1. /\ run' = run /\ due' = due /\ dueAdmins' = dueAdmins /\ adminsLeft' = adminsLeft
      /\ target' = target /\ heirs' = heirs
  OBVIOUS
<1>2. TypeOK'
  <2>1. phase' \in [Request -> {"idle", "checked"}] /\ job' \in [Request -> Job]
    BY DEF Inv, TypeOK, Job, NoJob
  <2>2. current' \in [Request -> BOOLEAN] /\ undisturbed' \in BOOLEAN
    BY Zenon DEF Inv, TypeOK
  <2> QED BY <1>1, <2>1, <2>2 DEF StoreTypes, Inv, TypeOK
<1>3. DeletingInv'
  <2> SUFFICES ASSUME run = "deleting" PROVE DeletingInv'
    BY <1>1 DEF DeletingInv
  <2>1. DOMAIN heirs \subseteq Group /\ DOMAIN heirs \subseteq known
    BY DEF Inv, TypeOK, DeletingInv
  <2> QED BY <1>1, <2>1 DEF Inv, DeletingInv
<1>4. ASSUME NEW r \in Request PROVE JobInv(r)'
  BY DEF Inv, TypeOK, JobInv, NoJob
<1> QED BY <1>2, <1>3, <1>4 DEF Inv

LEMMA StoreUserInv == ASSUME Inv, NEW t \in Request, StoreUser(t) PROVE Inv'
<1> DEFINE j == job[t]
<1>1. j \in Job /\ j.op = "signup" /\ Done(t)
  BY DEF StoreUser, Inv, TypeOK
<1>2. j.user \in User /\ j.role \in Role /\ j.claim \in BOOLEAN /\ (~j.claim => claimed)
  BY <1>1, JobForms DEF Inv, JobInv
<1>3. groups' = groups /\ row' = row
  BY DEF StoreUser, groupVars
<1>4. CASE j.user \in known
  <2>1. /\ users' = users /\ admins' = admins /\ claimed' = claimed /\ founders' = founders
        /\ known' = known
    BY <1>4 DEF StoreUser, accountVars
  <2>2. StoreTypes' /\ FoundInv' /\ LeadInv'
    BY <1>3, <2>1 DEF Inv, TypeOK, StoreTypes, FoundInv, LeadInv
  <2> QED BY <1>1, <1>3, <2>1, <2>2, DoneInv
<1>5. CASE j.user \notin known
  <2>1. /\ users' = users \cup {j.user} /\ known' = known \cup {j.user}
        /\ admins' \subseteq admins \cup {j.user}
        /\ founders' = IF j.claim /\ ~claimed THEN founders + 1 ELSE founders
        /\ claimed' = (claimed \/ j.claim)
    BY <1>5 DEF StoreUser
  <2> HIDE DEF j
  <2>2. StoreTypes'
    BY <1>2, <1>3, <2>1 DEF Inv, TypeOK, StoreTypes
  <2>3. FoundInv'
    BY <1>2, <2>1 DEF Inv, TypeOK, FoundInv
  <2>4. LeadInv'
    BY <1>3, <2>1 DEF Inv, LeadInv
  <2> QED BY <1>1, <1>3, <2>1, <2>2, <2>3, <2>4, DoneInv
<1> QED BY <1>4, <1>5

LEMMA StoreRoleInv == ASSUME Inv, NEW t \in Request, StoreRole(t) PROVE Inv'
<1>1. /\ Done(t) /\ groups' = groups /\ row' = row /\ users' = users /\ known' = known
      /\ claimed' = claimed /\ founders' = founders /\ admins' \subseteq users
  BY DEF StoreRole, groupVars, Inv, TypeOK
<1>2. StoreTypes' /\ FoundInv' /\ LeadInv'
  BY <1>1 DEF Inv, TypeOK, StoreTypes, FoundInv, LeadInv
<1> QED BY <1>1, <1>2, DoneInv

\* The rows of a new group have nobody in them yet.
LEMMA StoreGroupInv == ASSUME Inv, NEW t \in Request, StoreGroup(t) PROVE Inv'
<1> DEFINE u == job[t].user
           h == job[t].group
<1>1. Done(t) /\ h \notin known /\ u \in User /\ h \in Group
  BY JobForms DEF StoreGroup, Inv, TypeOK
<1>2. /\ groups' = groups \cup {h} /\ known' = known \cup {h}
      /\ row' = [row EXCEPT ![h][u] = [role |-> "admin", status |-> "active"]]
      /\ users' = users /\ admins' = admins /\ claimed' = claimed /\ founders' = founders
  BY DEF StoreGroup, accountVars
<1> HIDE DEF u, h
<1>3. [role |-> "admin", status |-> "active"] \in Row
  BY RowTypes
<1>4. StoreTypes'
  BY <1>1, <1>2, <1>3 DEF Inv, TypeOK, StoreTypes
<1>5. \A g \in Group \ {h} : row'[g] = row[g]
  BY <1>1, <1>2 DEF Inv, TypeOK
<1>6. \A v \in User \ {u} : row'[h][v] = NoRow
  BY <1>1, <1>2 DEF Inv, TypeOK, LeadInv
<1>7. FoundInv'
  BY <1>2 DEF Inv, FoundInv
<1>8. LeadInv'
  <2>1. ASSUME NEW g \in Group, NEW v \in User, NEW w \in User,
               row'[g][v].role = "admin", row'[g][w].role = "admin"
        PROVE  v = w
    <3>1. CASE g = h
      BY <1>6, <2>1, <3>1, RowTypes
    <3>2. CASE g # h
      BY <1>5, <2>1, <3>2 DEF Inv, LeadInv
    <3> QED BY <3>1, <3>2
  <2>2. \A g \in Group \ known' : \A v \in User : row'[g][v] = NoRow
    BY <1>2, <1>5 DEF Inv, LeadInv
  <2> QED BY <2>1, <2>2 DEF LeadInv
<1>9. ASSUME NEW g \in known \cap Group, NEW v \in User, row'[g][v].role = "admin"
      PROVE  row[g][v].role = "admin"
  BY <1>1, <1>2, <1>9 DEF Inv, TypeOK
<1> QED BY <1>1, <1>2, <1>4, <1>7, <1>8, <1>9, DoneInv

\* Deleting rows gives nobody a role.
LEMMA RowsWithoutFacts ==
    ASSUME Inv, NEW G, NEW U, row' = RowsWithout(G, U), known' = known
    PROVE  /\ row' \in [Group -> [User -> Row]]
           /\ LeadInv'
           /\ \A g \in Group : \A u \in User :
                 row'[g][u].role = "admin" => row[g][u].role = "admin"
<1>1. \A g \in Group : \A u \in User :
         row'[g][u] = IF g \in G \/ u \in U THEN NoRow ELSE row[g][u]
  BY DEF RowsWithout
<1>2. row' \in [Group -> [User -> Row]]
  BY RowTypes DEF RowsWithout, Inv, TypeOK
<1>3. \A g \in Group : \A u \in User :
         row'[g][u].role = "admin" => row[g][u].role = "admin"
  BY <1>1, RowTypes
<1>4. LeadInv'
  BY <1>1, <1>3 DEF Inv, LeadInv
<1> QED BY <1>2, <1>3, <1>4

LEMMA DeleteGroupInv == ASSUME Inv, NEW t \in Request, DeleteGroup(t) PROVE Inv'
<1>1. /\ Done(t) /\ groups' \subseteq groups /\ row' = RowsWithout({job[t].group}, {})
      /\ users' = users /\ admins' = admins /\ claimed' = claimed /\ founders' = founders
      /\ known' = known
  BY DEF DeleteGroup, accountVars
<1>2. /\ row' \in [Group -> [User -> Row]]
      /\ LeadInv'
      /\ \A g \in Group : \A u \in User :
            row'[g][u].role = "admin" => row[g][u].role = "admin"
  BY <1>1, RowsWithoutFacts
<1>3. StoreTypes' /\ FoundInv'
  BY <1>1, <1>2 DEF Inv, TypeOK, StoreTypes, FoundInv
<1> QED BY <1>1, <1>2, <1>3, DoneInv

\* A membership changes in a group there has been, and gets no role but "member".
LEMMA StoreMembershipInv == ASSUME Inv, NEW t \in Request, StoreMembership(t) PROVE Inv'
<1> DEFINE j == job[t]
           u == job[t].user
           h == job[t].group
           new == [role |-> IF j.status = "invited" THEN "member" ELSE row[h][u].role,
                   status |-> j.status]
<1>1. Done(t) /\ h \in known /\ u \in User /\ h \in Group /\ j.status \in MembershipStatus
  BY JobForms DEF StoreMembership, Inv, TypeOK, JobInv
<1>2. /\ row' = [row EXCEPT ![h][u] = new]
      /\ users' = users /\ admins' = admins /\ claimed' = claimed /\ founders' = founders
      /\ groups' = groups /\ known' = known
  BY DEF StoreMembership, accountVars
<1>3. new \in Row /\ (new.role = "admin" => row[h][u].role = "admin")
  <2>1. row[h][u] \in Row
    BY <1>1 DEF Inv, TypeOK
  <2> QED BY <1>1, <2>1, RowTypes
<1> HIDE DEF u, h, j, new
<1>4. StoreTypes' /\ FoundInv'
  BY <1>1, <1>2, <1>3 DEF Inv, TypeOK, StoreTypes, FoundInv
<1>5. \A g \in Group : \A v \in User : row'[g][v] = IF g = h /\ v = u THEN new ELSE row[g][v]
  BY <1>1, <1>2 DEF Inv, TypeOK
<1>6. \A g \in Group : \A v \in User : row'[g][v].role = "admin" => row[g][v].role = "admin"
  BY <1>3, <1>5
<1>7. LeadInv'
  BY <1>1, <1>2, <1>5, <1>6 DEF Inv, LeadInv
<1> QED BY <1>1, <1>2, <1>4, <1>6, <1>7, DoneInv

LEMMA FailInv == ASSUME Inv, NEW t \in Request, Fail(t) PROVE Inv'
<1>1. /\ Done(t) /\ users' = users /\ admins' = admins /\ claimed' = claimed
      /\ founders' = founders /\ groups' = groups /\ row' = row /\ known' = known
  BY DEF Fail, storeVars, accountVars, groupVars
<1>2. StoreTypes' /\ FoundInv' /\ LeadInv'
  BY <1>1 DEF Inv, TypeOK, StoreTypes, FoundInv, LeadInv
<1> QED BY <1>1, <1>2, DoneInv

-----------------------------------------------------------------------------
(* The clean-up.                                                           *)

LEMMA RunPlansInv == ASSUME Inv, RunPlans PROVE Inv'
<1>1. /\ run' = "groups" /\ undisturbed' = TRUE
      /\ due' \subseteq users \cup groups /\ dueAdmins' \subseteq admins
      /\ users' = users /\ admins' = admins /\ claimed' = claimed /\ founders' = founders
      /\ groups' = groups /\ row' = row /\ known' = known
      /\ phase' = phase /\ job' = job /\ current' = current
      /\ adminsLeft' = adminsLeft /\ target' = target /\ heirs' = heirs
  BY DEF RunPlans, storeVars, accountVars, groupVars, requestVars
<1>2. TypeOK'
  BY <1>1 DEF Inv, TypeOK
<1> QED BY <1>1, <1>2 DEF Inv, FoundInv, LeadInv, DeletingInv, JobInv

LEMMA RunDeletesGroupInv == ASSUME Inv, RunDeletesGroup PROVE Inv'
<1> PICK g \in due \cap Group : row' = RowsWithout({g}, {}) /\ due' = due \ {g} /\ groups' = groups \ {g}
  BY DEF RunDeletesGroup
<1>1. /\ run = "groups" /\ run' = run
      /\ users' = users /\ admins' = admins /\ claimed' = claimed /\ founders' = founders
      /\ known' = known
      /\ phase' = phase /\ job' = job /\ current' = [t \in Request |-> FALSE]
      /\ undisturbed' = undisturbed /\ dueAdmins' = dueAdmins
      /\ adminsLeft' = adminsLeft /\ target' = target /\ heirs' = heirs
  BY DEF RunDeletesGroup, RunCommits, accountVars
<1>2. row' \in [Group -> [User -> Row]] /\ LeadInv'
  BY <1>1, RowsWithoutFacts
<1>3. TypeOK'
  BY <1>1, <1>2 DEF Inv, TypeOK
<1> QED BY <1>1, <1>2, <1>3 DEF Inv, FoundInv, DeletingInv, JobInv

LEMMA RunCountsInv == ASSUME Inv, RunCounts PROVE Inv'
<1>1. /\ run' = "users" /\ adminsLeft' = Cardinality(admins)
      /\ users' = users /\ admins' = admins /\ claimed' = claimed /\ founders' = founders
      /\ groups' = groups /\ row' = row /\ known' = known
      /\ phase' = phase /\ job' = job /\ current' = current
      /\ due' = due /\ dueAdmins' = dueAdmins /\ target' = target /\ heirs' = heirs
      /\ undisturbed' = undisturbed
  BY DEF RunCounts, storeVars, accountVars, groupVars, requestVars
<1>2. Cardinality(admins) \in Nat
  <2>1. admins \subseteq User
    BY DEF Inv, TypeOK
  <2>2. IsFiniteSet(admins)
    BY <2>1, PeopleAssumption, FS_Subset DEF PeopleAssumption
  <2> QED BY <2>2, FS_CardinalityType
<1>3. TypeOK'
  BY <1>1, <1>2 DEF Inv, TypeOK
<1> QED BY <1>1, <1>3 DEF Inv, FoundInv, LeadInv, DeletingInv, JobInv

LEMMA RunSkipsInv == ASSUME Inv, RunSkips PROVE Inv'
<1>1. /\ due' \subseteq due /\ run # "deleting" /\ run' = run
      /\ users' = users /\ admins' = admins /\ claimed' = claimed /\ founders' = founders
      /\ groups' = groups /\ row' = row /\ known' = known
      /\ phase' = phase /\ job' = job /\ current' = current
      /\ dueAdmins' = dueAdmins /\ adminsLeft' = adminsLeft
      /\ target' = target /\ heirs' = heirs /\ undisturbed' = undisturbed
  BY DEF RunSkips, storeVars, accountVars, groupVars, requestVars
<1>2. TypeOK'
  BY <1>1 DEF Inv, TypeOK
<1> QED BY <1>1, <1>2 DEF Inv, FoundInv, LeadInv, DeletingInv, JobInv

\* An account is picked if it is not the last counted admin, with the groups where its
\* row is the one with the role.
LEMMA RunPicksInv == ASSUME Inv, RunPicks PROVE Inv'
<1> PICK u \in due \cap User :
       /\ ~IsLastAdmin(u) /\ target' = u
       /\ \E h \in [{g \in Group : u \in Leaders(g)} -> User \cup {None}] : heirs' = h
  BY DEF RunPicks
<1>1. /\ run = "users" /\ run' = "deleting"
      /\ users' = users /\ admins' = admins /\ claimed' = claimed /\ founders' = founders
      /\ groups' = groups /\ row' = row /\ known' = known
      /\ phase' = phase /\ job' = job /\ current' = current
      /\ due' = due /\ dueAdmins' = dueAdmins /\ adminsLeft' = adminsLeft
      /\ undisturbed' = undisturbed
  BY DEF RunPicks, storeVars, accountVars, groupVars, requestVars
<1>2. /\ DOMAIN heirs' = {g \in Group : u \in Leaders(g)}
      /\ \A g \in DOMAIN heirs' : heirs'[g] \in User \cup {None}
  OBVIOUS
<1>3. TypeOK'
  BY <1>1, <1>2 DEF Inv, TypeOK
<1>4. DeletingInv'
  <2>1. u \in dueAdmins => adminsLeft > 1
    BY DEF IsLastAdmin, Inv, TypeOK
  <2>2. \A g \in DOMAIN heirs' : u \in User /\ g \in Group /\ row[g][u].role = "admin"
    BY <1>2 DEF Leaders
  <2>3. DOMAIN heirs' \subseteq known
    BY <2>2, RowTypes DEF Inv, LeadInv
  <2>4. \A g \in DOMAIN heirs' : \A v \in User : row[g][v].role = "admin" => v = u
    BY <2>2 DEF Inv, LeadInv
  <2> QED BY <1>1, <2>1, <2>3, <2>4 DEF DeletingInv
<1> QED BY <1>1, <1>3, <1>4 DEF Inv, FoundInv, LeadInv, JobInv

\* The heirs get the role in groups where the deleted row alone had it.
LEMMA RunDeletesUserInv == ASSUME Inv, RunDeletesUser PROVE Inv'
<1>1. /\ run = "deleting" /\ run' = "users" /\ due' \subseteq due
      /\ adminsLeft' = AdminsLeftAfter
      /\ users' = users \ {target} /\ admins' = admins \ {target}
      /\ groups' \subseteq groups /\ row' = RowsPassedOn
      /\ target' = None /\ heirs' = NoHeirs
      /\ claimed' = claimed /\ founders' = founders /\ known' = known
      /\ dueAdmins' = dueAdmins
      /\ phase' = phase /\ job' = job /\ undisturbed' = undisturbed
      /\ current' = [t \in Request |-> FALSE]
  BY DEF RunDeletesUser, RunCommits
<1>2. /\ target \in User /\ (target \in dueAdmins => adminsLeft > 1)
      /\ DOMAIN heirs \subseteq known
      /\ \A g \in DOMAIN heirs : \A u \in User : row[g][u].role = "admin" => u = target
  BY <1>1 DEF Inv, DeletingInv
<1>3. adminsLeft' \in Nat
  BY <1>1, <1>2 DEF AdminsLeftAfter, Inv, TypeOK
<1>4. \A g \in Group : \A u \in User :
         row'[g][u] =
           IF u = target \/ g \in Ended THEN NoRow
           ELSE IF g \in DOMAIN heirs /\ u = heirs[g] THEN [row[g][u] EXCEPT !.role = "admin"]
           ELSE row[g][u]
  BY <1>1 DEF RowsPassedOn
<1>5. ASSUME NEW g \in Group, NEW u \in User
      PROVE  /\ row'[g][u] \in Row
             /\ row'[g][u].role = "admin" =>
                  \/ row[g][u].role = "admin" /\ u # target
                  \/ g \in DOMAIN heirs /\ u = heirs[g]
             /\ g \notin DOMAIN heirs => row'[g][u] = row[g][u] \/ row'[g][u] = NoRow
  <2>0. row[g][u] \in Row
    BY DEF Inv, TypeOK
  <2>1. CASE u = target \/ g \in Ended
    <3>1. row'[g][u] = NoRow
      BY <1>4, <2>1
    <3> QED BY <3>1, RowTypes
  <2>2. CASE ~(u = target \/ g \in Ended) /\ g \in DOMAIN heirs /\ u = heirs[g]
    <3>1. row'[g][u] = [row[g][u] EXCEPT !.role = "admin"]
      BY <1>4, <2>2
    <3> QED BY <2>0, <2>2, <3>1, RowTypes
  <2>3. CASE ~(u = target \/ g \in Ended) /\ ~(g \in DOMAIN heirs /\ u = heirs[g])
    <3>1. row'[g][u] = row[g][u]
      BY <1>4, <2>3
    <3> QED BY <2>0, <2>3, <3>1
  <2> QED BY <2>1, <2>2, <2>3
<1>6. row' \in [Group -> [User -> Row]]
  BY <1>1, <1>5 DEF RowsPassedOn
<1>7. TypeOK'
  BY <1>1, <1>2, <1>3, <1>6 DEF Inv, TypeOK, NoHeirs
<1>8. LeadInv'
  <2>1. ASSUME NEW g \in Group, NEW u \in User, NEW v \in User,
               row'[g][u].role = "admin", row'[g][v].role = "admin"
        PROVE  u = v
    <3>1. CASE g \in DOMAIN heirs
      BY <1>2, <1>5, <2>1, <3>1
    <3>2. CASE g \notin DOMAIN heirs
      BY <1>5, <2>1, <3>2 DEF Inv, LeadInv
    <3> QED BY <3>1, <3>2
  <2>2. \A g \in Group \ known : \A u \in User : row'[g][u] = NoRow
    BY <1>2, <1>5 DEF Inv, LeadInv
  <2> QED BY <1>1, <2>1, <2>2 DEF LeadInv
<1> QED BY <1>1, <1>7, <1>8 DEF Inv, FoundInv, DeletingInv, JobInv

LEMMA RunEndsInv == ASSUME Inv, RunEnds PROVE Inv'
<1>1. /\ run' = "off" /\ due' = {} /\ dueAdmins' = {} /\ adminsLeft' = 0
      /\ users' = users /\ admins' = admins /\ claimed' = claimed /\ founders' = founders
      /\ groups' = groups /\ row' = row /\ known' = known
      /\ phase' = phase /\ job' = job /\ current' = current
      /\ target' = None /\ heirs' = NoHeirs /\ undisturbed' = FALSE
  BY DEF RunEnds, storeVars, accountVars, groupVars, requestVars
<1>2. TypeOK'
  BY <1>1 DEF Inv, TypeOK, NoHeirs
<1> QED BY <1>1, <1>2 DEF Inv, FoundInv, LeadInv, DeletingInv, JobInv

LEMMA StutterInv == ASSUME Inv, UNCHANGED vars PROVE Inv'
<1>1. /\ users' = users /\ admins' = admins /\ claimed' = claimed /\ founders' = founders
      /\ groups' = groups /\ row' = row /\ known' = known
      /\ phase' = phase /\ job' = job /\ current' = current
      /\ run' = run /\ due' = due /\ dueAdmins' = dueAdmins /\ adminsLeft' = adminsLeft
      /\ target' = target /\ heirs' = heirs /\ undisturbed' = undisturbed
  BY DEF vars, storeVars, accountVars, groupVars, requestVars, runVars
<1>2. TypeOK'
  BY <1>1 DEF Inv, TypeOK
<1> QED BY <1>1, <1>2 DEF Inv, FoundInv, LeadInv, DeletingInv, JobInv

LEMMA NextInv == Inv /\ [Next]_vars => Inv'
<1> SUFFICES ASSUME Inv, [Next]_vars PROVE Inv'
  OBVIOUS
<1>1. CASE UNCHANGED vars
  BY <1>1, StutterInv
<1>2. ASSUME NEW t \in Request,
             \/ CheckSignup(t) \/ CheckAddUser(t) \/ CheckRole(t) \/ CheckCreate(t)
             \/ CheckDelete(t) \/ CheckInvite(t) \/ CheckRemove(t) \/ CheckLeave(t)
             \/ CheckRespond(t)
      PROVE  Inv'
  BY <1>2, CheckInv
<1>3. ASSUME NEW t \in Request,
             \/ StoreUser(t) \/ StoreRole(t) \/ StoreGroup(t) \/ DeleteGroup(t)
             \/ StoreMembership(t) \/ Fail(t)
      PROVE  Inv'
  BY <1>3, StoreUserInv, StoreRoleInv, StoreGroupInv, DeleteGroupInv, StoreMembershipInv,
     FailInv
<1>4. CASE Run
  BY <1>4, RunPlansInv, RunDeletesGroupInv, RunCountsInv, RunSkipsInv, RunPicksInv,
     RunDeletesUserInv, RunEndsInv DEF Run
<1> QED BY <1>1, <1>2, <1>3, <1>4 DEF Next

-----------------------------------------------------------------------------

\* Every state has its declared types; so the clean-up's count of admins never falls
\* below zero and no admin is without an account.
THEOREM TypeCorrect == Spec => []TypeOK
<1>1. Inv => TypeOK
  BY DEF Inv
<1> QED BY <1>1, InitInv, NextInv, PTL DEF Spec

\* However many sign up at once, one of them becomes admin by it, and no account is
\* there before that one's (create_user's key 'first_admin').
THEOREM FoundersStayOne == Spec => []OneFounder
<1>1. Inv => OneFounder
  BY DEF Inv, TypeOK, FoundInv, OneFounder
<1> QED BY <1>1, InitInv, NextInv, PTL DEF Spec

\* Whatever requests and the clean-up's handovers overlap, no group has two admins.
THEOREM LeadersStayOne == Spec => []OneLeader
<1>1. Inv => OneLeader
  BY DEF Inv, LeadInv, OneLeader, Leaders, Active
<1> QED BY <1>1, InitInv, NextInv, PTL DEF Spec
-----------------------------------------------------------------------------
(* What checks and plans are good for.  While nothing commits, what a      *)
(* request has checked is still true, and what the clean-up has read.      *)

\* What a request's checks give its transaction: a role is taken from an admin who is
\* not the only one, a group is created by an account, and no membership of its leader
\* changes.
Fresh(t) ==
    LET j == job[t] IN
    /\ j.op = "role" /\ j.role # "admin" /\ j.user \in admins => Cardinality(admins) > 1
    /\ j.op = "create" => j.user \in users
    /\ j.op = "membership" =>
         /\ j.user \in users \/ row[j.group][j.user] # NoRow
         /\ \E v \in User : row[j.group][v] # NoRow
         /\ j.user \notin Leaders(j.group)

FreshInv == \A t \in Request : phase[t] = "checked" /\ current[t] => Fresh(t)

\* The heirs the clean-up has chosen for the account it is deleting.
HeirsStand ==
    /\ target \in due
    /\ DOMAIN heirs = {g \in Group : target \in Leaders(g)}
    /\ \A g \in DOMAIN heirs : heirs[g] \in Heirs(target, g)

\* What the clean-up has read of the admins and of the groups still stands.
PlanInv ==
    undisturbed =>
        /\ \A u \in due : u \in admins <=> u \in dueAdmins
        /\ run \in {"users", "deleting"} => adminsLeft = Cardinality(admins)
        /\ run = "deleting" => HeirsStand

\* A group whose rows stay keeps its members and its leader.
LEMMA SameRows ==
    ASSUME NEW g \in Group, \A u \in User : row'[g][u] = row[g][u]
    PROVE  Active(g)' = Active(g) /\ Leaders(g)' = Leaders(g)
BY DEF Leaders, Active

LEMMA FreshFrame ==
    ASSUME NEW t \in Request, Fresh(t), storeVars' = storeVars, job'[t] = job[t]
    PROVE  Fresh(t)'
<1>1. users' = users /\ admins' = admins /\ row' = row
  BY DEF storeVars, accountVars, groupVars
<1> QED BY <1>1 DEF Fresh, Leaders, Active

\* A check makes its own request fresh and leaves the others so.
LEMMA AcceptFresh ==
    ASSUME Inv, FreshInv, NEW t \in Request, NEW j, Accept(t, j),
           j.op = "role" /\ j.role # "admin" /\ j.user \in admins => Cardinality(admins) > 1,
           j.op = "create" => j.user \in users,
           j.op = "membership" =>
             /\ j.user \in users \/ row[j.group][j.user] # NoRow
             /\ \E v \in User : row[j.group][v] # NoRow
             /\ j.user \notin Leaders(j.group)
    PROVE  FreshInv'
<1> SUFFICES ASSUME NEW r \in Request, phase'[r] = "checked", current'[r] PROVE Fresh(r)'
  BY DEF FreshInv
<1>1. storeVars' = storeVars
  BY DEF Accept
<1>2. CASE r = t
  <2>1. job'[t] = j
    BY DEF Accept, Inv, TypeOK
  <2>2. users' = users /\ admins' = admins /\ row' = row
    BY <1>1 DEF storeVars, accountVars, groupVars
  <2> QED BY <1>2, <2>1, <2>2 DEF Fresh, Leaders, Active
<1>3. CASE r # t
  <2>1. job'[r] = job[r] /\ phase'[r] = phase[r] /\ current'[r] = current[r]
    BY <1>3 DEF Accept
  <2>2. Fresh(r)
    BY <2>1 DEF FreshInv
  <2> QED BY <1>1, <2>1, <2>2, FreshFrame
<1> QED BY <1>2, <1>3

LEMMA CheckFresh ==
    ASSUME Inv, FreshInv, NEW t \in Request,
           \/ CheckSignup(t) \/ CheckAddUser(t) \/ CheckRole(t) \/ CheckCreate(t)
           \/ CheckDelete(t) \/ CheckInvite(t) \/ CheckRemove(t) \/ CheckLeave(t)
           \/ CheckRespond(t)
    PROVE  FreshInv'
<1>1. CASE CheckSignup(t)
  <2> PICK u \in User \ known :
        Accept(t, [op |-> "signup", user |-> u, claim |-> ~claimed,
                   role |-> IF claimed THEN "member" ELSE "admin"])
    BY <1>1 DEF CheckSignup
  <2> DEFINE j == [op |-> "signup", user |-> u, claim |-> ~claimed,
                   role |-> IF claimed THEN "member" ELSE "admin"]
  <2>1. j.op = "signup"
    OBVIOUS
  <2> HIDE DEF j
  <2> QED BY <2>1, AcceptFresh DEF j
<1>2. CASE CheckAddUser(t)
  <2> PICK u \in User \ known, r \in Role :
        Accept(t, [op |-> "signup", user |-> u, role |-> r, claim |-> FALSE])
    BY <1>2 DEF CheckAddUser
  <2> QED BY AcceptFresh
<1>3. CASE CheckRole(t)
  <2> PICK u \in users, r \in Role :
        /\ u \in admins /\ r # "admin" => Cardinality(admins) > 1
        /\ Accept(t, [op |-> "role", user |-> u, role |-> r])
    BY <1>3 DEF CheckRole
  <2> QED BY AcceptFresh
<1>4. CASE CheckCreate(t)
  <2> PICK a \in users, g \in Group : Accept(t, [op |-> "create", user |-> a, group |-> g])
    BY <1>4 DEF CheckCreate
  <2> QED BY AcceptFresh
<1>5. CASE CheckDelete(t)
  <2> PICK g \in Group : Accept(t, [op |-> "delete", group |-> g])
    BY <1>5 DEF CheckDelete
  <2> QED BY AcceptFresh
<1>6. CASE CheckInvite(t) \/ CheckRemove(t) \/ CheckLeave(t) \/ CheckRespond(t)
  <2>1. PICK g \in Group, u \in User, s \in MembershipStatus :
          /\ Accept(t, Answer(u, g, s))
          /\ u \in users \/ row[g][u] # NoRow
          /\ \E v \in User : row[g][v] # NoRow
          /\ u \notin Leaders(g)
    <3>1. users \subseteq User /\ \A g \in Group : Active(g) \subseteq User
      BY DEF Inv, TypeOK, Active
    <3>2. \A g \in Group : \A v \in User : row[g][v].status # None => row[g][v] # NoRow
      BY RowTypes
    <3>3. CASE CheckInvite(t)
      BY <3>1, <3>2, <3>3, RowTypes DEF CheckInvite, Leaders, Active
    <3>4. CASE CheckRemove(t)
      <4> PICK g \in Group, a \in users, u \in User :
             /\ a \in Leaders(g) /\ u # a /\ row[g][u].status \in {"active", "invited"}
             /\ Accept(t, Answer(u, g, "past"))
        BY <3>4 DEF CheckRemove
      <4>1. u \notin Leaders(g)
        BY <3>1 DEF Leaders, Inv, LeadInv
      <4>2. row[g][u] # NoRow
        BY RowTypes DEF None
      <4> QED BY <4>1, <4>2, RowTypes
    <3>5. CASE CheckLeave(t)
      BY <3>1, <3>2, <3>5, RowTypes DEF CheckLeave, Active, Leaders
    <3>6. CASE CheckRespond(t)
      BY <3>1, <3>2, <3>6, RowTypes DEF CheckRespond, None, Leaders, Active
    <3> QED BY <1>6, <3>3, <3>4, <3>5, <3>6
  <2> DEFINE j == Answer(u, g, s)
  <2>2. j.op = "membership" /\ j.group = g /\ j.user = u
    BY DEF Answer
  <2> HIDE DEF j
  <2> QED BY <2>1, <2>2, AcceptFresh DEF j
<1> QED BY <1>1, <1>2, <1>3, <1>4, <1>5, <1>6

LEMMA NextFresh == ASSUME Inv, FreshInv, [Next]_vars PROVE FreshInv'
<1>1. ASSUME NEW t \in Request, Done(t) PROVE FreshInv'
  <2> SUFFICES ASSUME NEW r \in Request, phase'[r] = "checked", current'[r] PROVE Fresh(r)'
    BY DEF FreshInv
  <2>1. r # t /\ current[r] /\ storeVars' = storeVars
    BY <1>1 DEF Done
  <2>2. phase'[r] = phase[r] /\ job'[r] = job[r]
    BY <1>1, <2>1 DEF Done
  <2> QED BY <2>1, <2>2, FreshFrame DEF FreshInv
<1>2. CASE current' = [t \in Request |-> FALSE]
  BY <1>2 DEF FreshInv
<1>3. CASE UNCHANGED <<storeVars, requestVars>>
  <2>1. phase' = phase /\ job' = job /\ current' = current
    BY <1>3 DEF requestVars
  <2> QED BY <1>3, <2>1, FreshFrame DEF FreshInv
<1>4. ASSUME NEW t \in Request,
             \/ StoreUser(t) \/ StoreRole(t) \/ StoreGroup(t) \/ DeleteGroup(t)
             \/ StoreMembership(t) \/ Fail(t)
      PROVE  Done(t)
  BY <1>4 DEF StoreUser, StoreRole, StoreGroup, DeleteGroup, StoreMembership, Fail
<1>5. CASE Run
  BY <1>2, <1>3, <1>5 DEF Run, RunPlans, RunDeletesGroup, RunCounts, RunSkips, RunPicks,
     RunDeletesUser, RunEnds, RunCommits
<1> QED BY <1>1, <1>3, <1>4, <1>5, CheckFresh DEF Next, vars

\* The transaction of a request whose checks still hold.
LEMMA StoreOrderly ==
    ASSUME Inv, Orderly, NEW t \in Request, Fresh(t),
           \/ StoreUser(t) \/ StoreRole(t) \/ StoreGroup(t) \/ DeleteGroup(t)
           \/ StoreMembership(t) \/ Fail(t)
    PROVE  Orderly'
<1> DEFINE j == job[t]
<1>0. j \in Job /\ users \subseteq User /\ groups \subseteq Group
  BY DEF Inv, TypeOK
<1>1. CASE StoreUser(t)
  <2>1. groups' = groups /\ row' = row /\ users \subseteq users' /\ admins \subseteq admins'
    BY <1>1 DEF StoreUser, groupVars, accountVars
  <2>2. claimed' => claimed \/ admins' # {}
    BY <1>1 DEF StoreUser, accountVars
  <2> QED BY <2>1, <2>2 DEF Orderly, AdminRemains, Leaders, Active
<1>2. CASE StoreRole(t)
  <2>1. groups' = groups /\ row' = row /\ users' = users /\ claimed' = claimed
    BY <1>2 DEF StoreRole, groupVars
  <2>2. admins # {} => admins' # {}
    <3>1. CASE j.role = "admin"
      BY <1>2, <3>1 DEF StoreRole
    <3>2. CASE j.role # "admin" /\ j.user \in admins
      <4>1. Cardinality(admins) > 1
        BY <1>2, <3>2 DEF Fresh, StoreRole
      <4>2. admins # {j.user}
        <5>1. Cardinality({j.user}) = 1
          BY FS_Singleton
        <5> QED BY <4>1, <5>1
      <4> QED BY <1>2, <3>2, <4>2 DEF StoreRole
    <3>3. CASE j.role # "admin" /\ j.user \notin admins
      BY <1>2, <3>3 DEF StoreRole
    <3> QED BY <3>1, <3>2, <3>3
  <2> QED BY <2>1, <2>2 DEF Orderly, AdminRemains, Leaders, Active
<1>3. CASE StoreGroup(t)
  <2>1. PICK h \in Group, u \in User :
          /\ h \notin known /\ u \in users
          /\ groups' = groups \cup {h} /\ users' = users
          /\ admins' = admins /\ claimed' = claimed
          /\ row' = [row EXCEPT ![h][u] = [role |-> "admin", status |-> "active"]]
    BY <1>0, <1>3, JobForms DEF StoreGroup, Fresh, accountVars
  <2>2. \A g \in Group, v \in User :
           row'[g][v] = IF g = h /\ v = u THEN [role |-> "admin", status |-> "active"] ELSE row[g][v]
    BY <2>1 DEF Inv, TypeOK
  <2>3. \A v \in User : row[h][v] = NoRow
    BY <2>1 DEF Inv, LeadInv
  <2>4. Leaders(h)' = {u}
    BY <2>1, <2>2, <2>3, RowTypes DEF Leaders, Active
  <2>5. \A g \in Group \ {h} : Leaders(g)' = Leaders(g)
    BY <2>2, SameRows
  <2> QED BY <1>0, <2>1, <2>2, <2>3, <2>4, <2>5 DEF Orderly, AdminRemains
<1>4. CASE DeleteGroup(t)
  <2>1. /\ groups' = groups \ {j.group} /\ users' = users
        /\ admins' = admins /\ claimed' = claimed
        /\ \A g \in Group, v \in User : row'[g][v] = IF g = j.group THEN NoRow ELSE row[g][v]
    BY <1>4 DEF DeleteGroup, RowsWithout, accountVars
  <2>2. \A g \in Group \ {j.group} : Leaders(g)' = Leaders(g)
    BY <2>1, SameRows
  <2> QED BY <1>0, <2>1, <2>2 DEF Orderly, AdminRemains
<1>5. CASE StoreMembership(t)
  <2>1. PICK h \in Group, u \in User, s \in MembershipStatus :
          /\ groups' = groups /\ users' = users
          /\ admins' = admins /\ claimed' = claimed
          /\ row' = [row EXCEPT ![h][u] =
                       [role |-> IF s = "invited" THEN "member" ELSE @.role, status |-> s]]
          /\ u \in users \/ row[h][u] # NoRow
          /\ \E v \in User : row[h][v] # NoRow
          /\ u \notin Leaders(h)
    BY <1>0, <1>5, JobForms DEF StoreMembership, Fresh, accountVars
  <2>2. \A g \in Group, v \in User : g # h \/ v # u => row'[g][v] = row[g][v]
    BY <2>1 DEF Inv, TypeOK
  <2>3. row'[h][u].role = "admin" => row[h][u].role = "admin"
    BY <2>1 DEF Inv, TypeOK
  <2>4. u \in users /\ h \in groups
    BY <2>1 DEF Orderly
  <2>5. PICK w \in users : Leaders(h) = {w}
    BY <2>4 DEF Orderly
  <2>6. w \in User /\ w # u /\ row[h][w].role = "admin"
    BY <2>1, <2>5, <1>0 DEF Leaders
  <2>7. row[h][u].role # "admin"
    BY <2>1, <2>6 DEF Inv, LeadInv
  <2>8. Leaders(h)' = Leaders(h)
    BY <2>1, <2>2, <2>3, <2>7 DEF Leaders, Active
  <2>9. \A g \in Group : Leaders(g)' = Leaders(g)
    BY <2>2, <2>8, SameRows
  <2> QED BY <1>0, <2>1, <2>2, <2>4, <2>9 DEF Orderly, AdminRemains
<1>6. CASE Fail(t)
  BY <1>6 DEF Fail, storeVars, accountVars, groupVars, Orderly, AdminRemains, Leaders, Active
<1> QED BY <1>1, <1>2, <1>3, <1>4, <1>5, <1>6

\* What a request checked is enough for what it stores, whatever it is, when nothing
\* commits in between: every group keeps one leader with an account, no membership is
\* left without its group or account, and an admin remains.
THEOREM ChecksAreEnough == Spec => RequestsSuffice
<1>1. Init => FreshInv
  BY DEF Init, FreshInv
<1>2. Inv /\ FreshInv /\ [Next]_vars =>
        [\A t \in Request :
            phase[t] = "checked" /\ phase'[t] = "idle" /\ current[t] /\ Orderly => Orderly']_vars
  <2> SUFFICES ASSUME Inv, FreshInv, Next, NEW t \in Request,
                      phase[t] = "checked", phase'[t] = "idle", current[t], Orderly
               PROVE  Orderly'
    OBVIOUS
  <2>1. ASSUME NEW r \in Request, NEW j, Accept(r, j) PROVE FALSE
    BY <2>1 DEF Accept, Inv, TypeOK
  <2>2. ASSUME NEW r \in Request,
               \/ CheckSignup(r) \/ CheckAddUser(r) \/ CheckRole(r) \/ CheckCreate(r)
               \/ CheckDelete(r) \/ CheckInvite(r) \/ CheckRemove(r) \/ CheckLeave(r)
               \/ CheckRespond(r)
        PROVE  FALSE
    BY <2>1, <2>2 DEF CheckSignup, CheckAddUser, CheckRole, CheckCreate, CheckDelete,
       CheckInvite, CheckRemove, CheckLeave, CheckRespond
  <2>3. ASSUME NEW r \in Request,
               \/ StoreUser(r) \/ StoreRole(r) \/ StoreGroup(r) \/ DeleteGroup(r)
               \/ StoreMembership(r) \/ Fail(r)
        PROVE  Orderly'
    <3>1. Done(r)
      BY <2>3 DEF StoreUser, StoreRole, StoreGroup, DeleteGroup, StoreMembership, Fail
    <3>2. r = t
      BY <3>1 DEF Done, Inv, TypeOK
    <3> QED BY <2>3, <3>2, StoreOrderly DEF FreshInv
  <2>4. CASE Run
    BY <2>4 DEF Run, RunPlans, RunDeletesGroup, RunCounts, RunSkips, RunPicks,
       RunDeletesUser, RunEnds, RunCommits, requestVars
  <2> QED BY <2>2, <2>3, <2>4 DEF Next
<1>3. Inv /\ FreshInv /\ [Next]_vars => FreshInv'
  BY NextFresh
<1> QED BY <1>1, <1>2, <1>3, InitInv, NextInv, PTL DEF Spec, RequestsSuffice

-----------------------------------------------------------------------------

\* The reads of the clean-up stay true until somebody else commits.
LEMMA PlanFrame ==
    ASSUME PlanInv, undisturbed' => undisturbed,
           undisturbed' => UNCHANGED <<storeVars, runVars>>
    PROVE  PlanInv'
<1> SUFFICES ASSUME undisturbed' PROVE PlanInv'
  BY DEF PlanInv
<1>1. /\ users' = users /\ admins' = admins /\ row' = row
      /\ run' = run /\ due' = due /\ dueAdmins' = dueAdmins /\ adminsLeft' = adminsLeft
      /\ target' = target /\ heirs' = heirs
  BY DEF storeVars, accountVars, groupVars, runVars
<1> QED BY <1>1 DEF PlanInv, HeirsStand, Heirs, Leaders, Active

LEMMA NextPlan == ASSUME Inv, PlanInv, [Next]_vars PROVE PlanInv'
<1>1. ASSUME NEW t \in Request,
             \/ StoreUser(t) \/ StoreRole(t) \/ StoreGroup(t) \/ DeleteGroup(t)
             \/ StoreMembership(t) \/ Fail(t)
      PROVE  PlanInv'
  <2>1. Done(t)
    BY <1>1 DEF StoreUser, StoreRole, StoreGroup, DeleteGroup, StoreMembership, Fail
  <2> QED BY <2>1, PlanFrame DEF Done
<1>2. ASSUME NEW t \in Request,
             \/ CheckSignup(t) \/ CheckAddUser(t) \/ CheckRole(t) \/ CheckCreate(t)
             \/ CheckDelete(t) \/ CheckInvite(t) \/ CheckRemove(t) \/ CheckLeave(t)
             \/ CheckRespond(t)
      PROVE  PlanInv'
  <2>1. UNCHANGED <<storeVars, runVars, undisturbed>>
    BY <1>2 DEF CheckSignup, CheckAddUser, CheckRole, CheckCreate, CheckDelete, CheckInvite,
       CheckRemove, CheckLeave, CheckRespond, Accept
  <2> QED BY <2>1, PlanFrame
<1>3. CASE RunPlans
  BY <1>3 DEF RunPlans, PlanInv, storeVars, accountVars
<1>4. CASE RunDeletesGroup
  <2>1. /\ run = "groups" /\ run' = run /\ due' \subseteq due /\ dueAdmins' = dueAdmins
        /\ admins' = admins /\ undisturbed' = undisturbed
    BY <1>4 DEF RunDeletesGroup, RunCommits, accountVars
  <2> QED BY <2>1 DEF PlanInv
<1>5. CASE RunCounts
  <2>1. /\ run' = "users" /\ due' = due /\ dueAdmins' = dueAdmins
        /\ adminsLeft' = Cardinality(admins)
        /\ admins' = admins /\ undisturbed' = undisturbed
    BY <1>5 DEF RunCounts, storeVars, accountVars
  <2> QED BY <2>1 DEF PlanInv
<1>6. CASE RunSkips
  <2>1. /\ run # "deleting" /\ run' = run /\ due' \subseteq due /\ dueAdmins' = dueAdmins
        /\ adminsLeft' = adminsLeft /\ admins' = admins /\ undisturbed' = undisturbed
    BY <1>6 DEF RunSkips, storeVars, accountVars
  <2> QED BY <2>1 DEF PlanInv
<1>7. CASE RunPicks
  <2> PICK u \in due \cap User :
         /\ target' = u
         /\ DOMAIN heirs' = {g \in Group : u \in Leaders(g)}
         /\ \A g \in DOMAIN heirs' : heirs'[g] \in Heirs(u, g)
    BY <1>7 DEF RunPicks
  <2>1. /\ run = "users" /\ run' = "deleting" /\ due' = due /\ dueAdmins' = dueAdmins
        /\ adminsLeft' = adminsLeft /\ admins' = admins /\ row' = row
        /\ undisturbed' = undisturbed
    BY <1>7 DEF RunPicks, storeVars, accountVars, groupVars
  <2>2. \A g \in Group : Active(g)' = Active(g) /\ Leaders(g)' = Leaders(g)
    BY <2>1, SameRows
  <2>3. HeirsStand'
    BY <2>1, <2>2 DEF HeirsStand, Heirs
  <2> QED BY <2>1, <2>3 DEF PlanInv
<1>8. CASE RunDeletesUser
  <2>1. /\ run = "deleting" /\ run' = "users" /\ due' = due \ {target}
        /\ adminsLeft' = AdminsLeftAfter /\ admins' = admins \ {target}
        /\ dueAdmins' = dueAdmins /\ undisturbed' = undisturbed
    BY <1>8 DEF RunDeletesUser, RunCommits
  <2> SUFFICES ASSUME undisturbed PROVE adminsLeft' = Cardinality(admins')
    BY <2>1 DEF PlanInv
  <2>2. adminsLeft = Cardinality(admins) /\ (target \in admins <=> target \in dueAdmins)
    BY <2>1 DEF PlanInv, HeirsStand
  <2>3. IsFiniteSet(admins)
    BY PeopleAssumption, FS_Subset DEF PeopleAssumption, Inv, TypeOK
  <2> QED BY <2>1, <2>2, <2>3, FS_RemoveElement DEF AdminsLeftAfter
<1>9. CASE RunEnds
  BY <1>9 DEF RunEnds, PlanInv
<1>10. CASE UNCHANGED vars
  BY <1>10, PlanFrame DEF vars
<1> QED BY <1>1, <1>2, <1>3, <1>4, <1>5, <1>6, <1>7, <1>8, <1>9, <1>10 DEF Next, Run

\* An account is deleted for reasons that still hold: its groups get the heirs chosen,
\* and it is not the last admin.
LEMMA DeletesUserOrderly ==
    ASSUME Inv, PlanInv, undisturbed, Orderly, RunDeletesUser
    PROVE  Orderly'
<1>1. /\ run = "deleting"
      /\ users' = users \ {target} /\ admins' = admins \ {target}
      /\ groups' = groups \ Ended /\ row' = RowsPassedOn /\ claimed' = claimed
  BY DEF RunDeletesUser
<1>2. /\ HeirsStand /\ adminsLeft = Cardinality(admins)
      /\ target \in admins => target \in dueAdmins
  BY <1>1 DEF PlanInv, HeirsStand
<1>3. /\ target \in User /\ (target \in dueAdmins => adminsLeft > 1)
      /\ \A g \in DOMAIN heirs : \A u \in User : row[g][u].role = "admin" => u = target
      /\ DOMAIN heirs \subseteq Group /\ users \subseteq User /\ groups \subseteq Group
  BY <1>1 DEF Inv, DeletingInv, TypeOK
<1>4. AdminRemains'
  <2>1. target \in admins => admins # {target}
    <3>1. Cardinality({target}) = 1
      BY FS_Singleton
    <3> QED BY <1>2, <1>3, <3>1
  <2> QED BY <1>1, <2>1 DEF AdminRemains, Orderly
<1>5. \A g \in Group : \A u \in User :
         row'[g][u] =
           IF u = target \/ g \in Ended THEN NoRow
           ELSE IF g \in DOMAIN heirs /\ u = heirs[g] THEN [row[g][u] EXCEPT !.role = "admin"]
           ELSE row[g][u]
  BY <1>1 DEF RowsPassedOn
<1>6. \A g \in DOMAIN heirs \ Ended :
         heirs[g] \in Active(g) \ {target} /\ heirs[g] \in users'
  <2> SUFFICES ASSUME NEW g \in DOMAIN heirs \ Ended
               PROVE  heirs[g] \in Active(g) \ {target} /\ heirs[g] \in users'
    OBVIOUS
  <2>1. heirs[g] \in Active(g) \ {target}
    BY <1>2 DEF HeirsStand, Heirs, Ended
  <2>2. row[g][heirs[g]] # NoRow /\ heirs[g] \in User
    BY <2>1, RowTypes DEF Active
  <2> QED BY <1>1, <1>3, <2>1, <2>2 DEF Orderly
<1>7. ASSUME NEW g \in groups' PROVE \E u \in users' : Leaders(g)' = {u}
  <2>1. g \in groups /\ g \in Group /\ g \notin Ended
    BY <1>1, <1>3
  <2>2. CASE g \in DOMAIN heirs
    <3>1. heirs[g] \in Active(g) \ {target} /\ heirs[g] \in users' /\ heirs[g] \in User
      BY <1>6, <2>1, <2>2 DEF Active
    <3>2. row[g][heirs[g]] \in Row
      BY <2>1, <3>1 DEF Inv, TypeOK
    <3>3. row'[g][heirs[g]].role = "admin" /\ row'[g][heirs[g]].status = "active"
      <4>1. row'[g][heirs[g]] = [row[g][heirs[g]] EXCEPT !.role = "admin"]
        BY <1>5, <2>1, <2>2, <3>1
      <4>2. \A x \in Row : LET y == [x EXCEPT !.role = "admin"]
                           IN  y.role = "admin" /\ y.status = x.status
        BY DEF Row
      <4> QED BY <3>1, <3>2, <4>1, <4>2 DEF Active
    <3>4. ASSUME NEW u \in User \ {heirs[g]} PROVE row'[g][u].role # "admin"
      <4>1. row'[g][u] = IF u = target THEN NoRow ELSE row[g][u]
        BY <1>5, <2>1, <3>4
      <4>2. NoRow.role # "admin"
        BY RowTypes
      <4> QED BY <1>3, <2>2, <4>1, <4>2
    <3>5. Leaders(g)' = {heirs[g]}
      BY <3>1, <3>3, <3>4 DEF Leaders, Active
    <3> QED BY <3>1, <3>5
  <2>3. CASE g \notin DOMAIN heirs
    <3>1. PICK w \in users : Leaders(g) = {w}
      BY <2>1 DEF Orderly
    <3>2. w # target
      BY <1>2, <2>1, <2>3, <3>1 DEF HeirsStand
    <3>3. \A u \in User : row'[g][u] = IF u = target THEN NoRow ELSE row[g][u]
      BY <1>5, <2>1, <2>3
    <3>4. Leaders(g)' = {w}
      BY <1>3, <3>1, <3>2, <3>3, RowTypes DEF Leaders, Active
    <3> QED BY <1>1, <3>2, <3>4
  <2> QED BY <2>2, <2>3
<1>8. ASSUME NEW g \in Group, NEW u \in User, row'[g][u] # NoRow
      PROVE  g \in groups' /\ u \in users'
  <2>1. u # target /\ g \notin Ended
    BY <1>5, <1>8
  <2>2. row[g][u] # NoRow
    <3>1. CASE g \in DOMAIN heirs /\ u = heirs[g]
      BY <1>6, <2>1, <3>1, RowTypes DEF Active
    <3>2. CASE ~(g \in DOMAIN heirs /\ u = heirs[g])
      <4>1. row'[g][u] = row[g][u]
        BY <1>5, <2>1, <3>2
      <4> QED BY <1>8, <4>1
    <3> QED BY <3>1, <3>2
  <2> QED BY <1>1, <2>1, <2>2 DEF Orderly
<1> QED BY <1>4, <1>7, <1>8 DEF Orderly

\* While only the clean-up commits, what it read once, of the admins when it planned
\* and counted and of the heirs before each deletion, is enough for all it deletes,
\* however many accounts and groups that is.
THEOREM PlanIsEnough == Spec => RunSuffices
<1>1. Init => PlanInv
  BY DEF Init, PlanInv
<1>2. Inv /\ PlanInv /\ [Next]_vars =>
        [run # "off" /\ run' # "off" /\ undisturbed' /\ Orderly => Orderly']_vars
  <2> SUFFICES ASSUME Inv, PlanInv, Next, run # "off", undisturbed', Orderly
               PROVE  Orderly'
    OBVIOUS
  <2>1. CASE storeVars' = storeVars
    BY <2>1 DEF storeVars, accountVars, groupVars, Orderly, AdminRemains, Leaders, Active
  <2>2. CASE RunDeletesGroup
    <3> PICK g \in due \cap Group : groups' = groups \ {g} /\ row' = RowsWithout({g}, {})
      BY <2>2 DEF RunDeletesGroup
    <3>1. users' = users /\ admins' = admins /\ claimed' = claimed /\ groups \subseteq Group
      BY <2>2 DEF RunDeletesGroup, accountVars, Inv, TypeOK
    <3>2. \A h \in Group, v \in User : row'[h][v] = IF h = g THEN NoRow ELSE row[h][v]
      BY DEF RowsWithout
    <3>3. \A h \in Group \ {g} : Leaders(h)' = Leaders(h)
      BY <3>2 DEF Leaders, Active
    <3> QED BY <3>1, <3>2, <3>3 DEF Orderly, AdminRemains
  <2>3. CASE RunDeletesUser
    <3>1. undisturbed
      BY <2>3 DEF RunDeletesUser, RunCommits
    <3> QED BY <2>3, <3>1, DeletesUserOrderly
  <2>4. ASSUME NEW t \in Request, Done(t) PROVE storeVars' = storeVars
    BY <2>4 DEF Done
  <2>5. ASSUME NEW t \in Request,
               \/ CheckSignup(t) \/ CheckAddUser(t) \/ CheckRole(t) \/ CheckCreate(t)
               \/ CheckDelete(t) \/ CheckInvite(t) \/ CheckRemove(t) \/ CheckLeave(t)
               \/ CheckRespond(t)
        PROVE  storeVars' = storeVars
    BY <2>5 DEF CheckSignup, CheckAddUser, CheckRole, CheckCreate, CheckDelete, CheckInvite,
       CheckRemove, CheckLeave, CheckRespond, Accept
  <2>6. ASSUME NEW t \in Request,
               \/ StoreUser(t) \/ StoreRole(t) \/ StoreGroup(t) \/ DeleteGroup(t)
               \/ StoreMembership(t) \/ Fail(t)
        PROVE  storeVars' = storeVars
    BY <2>4, <2>6 DEF StoreUser, StoreRole, StoreGroup, DeleteGroup, StoreMembership, Fail
  <2> QED BY <2>1, <2>2, <2>3, <2>5, <2>6
     DEF Next, Run, RunPlans, RunCounts, RunSkips, RunPicks, RunEnds
<1>3. Inv /\ PlanInv /\ [Next]_vars => PlanInv'
  BY NextPlan
<1> QED BY <1>1, <1>2, <1>3, InitInv, NextInv, PTL DEF Spec, RunSuffices

=============================================================================
