---------------------------- MODULE LineageProofs ----------------------------
(***************************************************************************)
(* Proofs about Lineage: links stay well formed, statuses derived and an   *)
(* orderly history orderly, for any items, declared statuses, kinds of     *)
(* link and number of requests.                                            *)
(***************************************************************************)
EXTENDS Lineage, FiniteSetTheorems, WellFoundedInduction, TLAPS

Open(t) == phase[t] \in {"reading", "ready"}

\* What a request's check leaves true of its job.
JobInv(t) ==
    /\ job[t].op = "declare" => job[t].status \in Declarable(job[t].item)
    /\ job[t].op = "link" => WellTyped(job[t].link)
    /\ job[t].op = "store" => job[t].drop = {} \/ job[t].add = {}

\* What its first write wrote.
MineInv(t) ==
    Open(t) =>
        /\ job[t].op \in {"link", "unlink"} =>
               mine[t] = {} \/ mine[t] = {job[t].link.from, job[t].link.to}
        /\ job[t].op = "store" => job[t].add \subseteq mine[t]

\* What stays true until another commit writes what it wrote.
FreshInv(t) ==
    Open(t) /\ ~conflict[t] =>
        /\ job[t].op = "link" => mine[t] \subseteq present
        /\ \A e \in links : {e.from, e.to} \cap Dropped(job[t], mine[t]) # {} =>
                                {e.from, e.to} \subseteq mine[t]

Shape ==
    /\ TypeOK
    /\ LinksWellFormed
    /\ \A t \in Request : JobInv(t) /\ MineInv(t) /\ FreshInv(t)

-----------------------------------------------------------------------------
(* The operators.                                                          *)

\* A status derived from a declared one is a status.
LEMMA DeriveType ==
    ASSUME NEW i \in Item, NEW E, NEW d \in Status
    PROVE  Derive(i, E, d) \in Status
BY DEF Derive, Status, NoStatus

\* Only the links that point to an item matter to its status.
LEMMA DeriveSame ==
    ASSUME NEW i, NEW E, NEW F, NEW d, Into(E, i) = Into(F, i)
    PROVE  Derive(i, E, d) = Derive(i, F, d)
BY DEF Derive

\* What is not tracked has no status.
LEMMA DeriveUntracked ==
    ASSUME NEW i, NEW E, NEW d, i \notin Tracked
    PROVE  Derive(i, E, d) = NoStatus
BY DEF Derive, Tracked

\* What can be declared of an item is a status.
LEMMA DeclarableType == \A i \in Item : Declarable(i) \subseteq Status /\ NoStatus \in Declarable(i)
BY LineageAssumption DEF Declarable, Status, NoStatus

\* Each job is of its own form.
LEMMA JobForms ==
    ASSUME NEW j \in Job
    PROVE  /\ j.op \in {"link", "unlink", "declare", "store"}
           /\ j.op \in {"link", "unlink"} => j.link \in Link
           /\ j.op = "declare" => j.item \in Tracked /\ j.status \in Status
           /\ j.op = "store" => j.drop \subseteq Item /\ j.add \subseteq Item
BY DEF Job

\* What a transaction changes has the types of the store.
LEMMA AfterTypes ==
    ASSUME TypeOK, NEW j \in Job, NEW W \in SUBSET Item,
           j.op = "declare" => j.status \in Declarable(j.item)
    PROVE  /\ Dropped(j, W) \subseteq W
           /\ PresentAfter(j, W) \subseteq Item
           /\ LinksAfter(links, j, W) \subseteq Link
           /\ DeclaredAfter(j, W) \in [Item -> Status]
           /\ \A i \in Item : DeclaredAfter(j, W)[i] \in Declarable(i)
           /\ Touches(j) \subseteq Item
<1> USE JobForms
<1>1. Dropped(j, W) \subseteq W
  BY DEF Dropped
<1>2. PresentAfter(j, W) \subseteq Item
  BY DEF PresentAfter, Dropped, Added, TypeOK
<1>3. LinksAfter(links, j, W) \subseteq Link
  BY DEF LinksAfter, TypeOK
<1>4. \A i \in Item : DeclaredAfter(j, W)[i] \in Declarable(i)
  BY DeclarableType DEF DeclaredAfter, TypeOK
<1>5. DeclaredAfter(j, W) \in [Item -> Status]
  BY <1>4, DeclarableType DEF DeclaredAfter
<1>6. Touches(j) \subseteq Item
  <2>1. CASE j.op \in {"link", "unlink"}
    BY <2>1 DEF Touches, Link
  <2>2. CASE j.op = "declare"
    BY <2>2 DEF Touches, Tracked, Item
  <2>3. CASE j.op = "store"
    BY <2>3 DEF Touches, TypeOK
  <2> QED BY <2>1, <2>2, <2>3
<1> QED BY <1>1, <1>2, <1>3, <1>4, <1>5, <1>6

\* A refresh computes statuses of tracked items.
LEMMA RefreshedTypes ==
    ASSUME TypeOK, NEW j \in Job, NEW W \in SUBSET Item, NEW E,
           j.op = "declare" => j.status \in Declarable(j.item)
    PROVE  LET w == Refreshed(j, W, E) IN
           /\ DOMAIN w \subseteq Tracked
           /\ w \in [DOMAIN w -> Status]
<1> DEFINE D == Tracked \cap PresentAfter(j, W)
           new == [i \in D |-> Derive(i, E, DeclaredAfter(j, W)[i])]
<1>1. \A i \in D : new[i] \in Status
  BY AfterTypes, DeriveType
<1>2. Refreshed(j, W, E) = [i \in {i \in D : new[i] # status[i]} |-> new[i]]
  BY DEF Refreshed
<1> HIDE DEF new
<1> QED BY <1>1, <1>2

-----------------------------------------------------------------------------
(* The shape of links and requests is inductive, whatever a refresh reads. *)

LEMMA InitShape == Init => Shape
<1> SUFFICES ASSUME Init PROVE Shape
  OBVIOUS
<1>1. NoJob \in Job /\ NoJob.op = "store" /\ NoJob.drop = {} /\ NoJob.add = {}
  BY DEF NoJob, Job
<1>2. TypeOK
  BY <1>1, DeclarableType DEF Init, TypeOK, NoWrites, Status
<1>3. \A t \in Request : JobInv(t) /\ MineInv(t) /\ FreshInv(t)
  BY <1>1 DEF Init, JobInv, MineInv, FreshInv, Open
<1> QED BY <1>2, <1>3 DEF Shape, Init, LinksWellFormed

\* A check changes its request only.
LEMMA AcceptShape ==
    ASSUME Shape, NEW t \in Request, NEW j \in Job, Accept(t, j),
           j.op = "declare" => j.status \in Declarable(j.item),
           j.op = "link" => WellTyped(j.link),
           j.op = "store" => j.drop = {} \/ j.add = {}
    PROVE  Shape'
<1> USE DEF Accept, Goto, storeVars, txVars
<1>1. TypeOK'
  BY DEF Shape, TypeOK
<1>2. LinksWellFormed'
  BY DEF Shape, LinksWellFormed
<1>3. ASSUME NEW u \in Request PROVE JobInv(u)' /\ MineInv(u)' /\ FreshInv(u)'
  <2>1. CASE u = t
    BY <2>1 DEF Shape, TypeOK, JobInv, MineInv, FreshInv, Open
  <2>2. CASE u # t
    <3>1. phase'[u] = phase[u] /\ job'[u] = job[u]
      BY <2>2 DEF Shape, TypeOK
    <3> QED BY <3>1 DEF Shape, JobInv, MineInv, FreshInv, Open, Dropped
  <2> QED BY <2>1, <2>2
<1> QED BY <1>1, <1>2, <1>3 DEF Shape

LEMMA CheckShape ==
    ASSUME Shape, NEW t \in Request,
           CheckLink(t) \/ CheckUnlink(t) \/ CheckDeclare(t) \/ CheckStore(t)
    PROVE  Shape'
<1>1. CASE CheckLink(t)
  <2> PICK l \in Link : Allowed(l, links) /\ Accept(t, [op |-> "link", link |-> l])
    BY <1>1 DEF CheckLink
  <2> DEFINE j == [op |-> "link", link |-> l]
  <2>1. j \in Job /\ j.op = "link" /\ j.link = l
    BY DEF Job
  <2>2. WellTyped(l)
    BY DEF Allowed
  <2> HIDE DEF j
  <2> QED BY <2>1, <2>2, AcceptShape DEF j
<1>2. CASE CheckUnlink(t)
  <2> PICK l \in links : Accept(t, [op |-> "unlink", link |-> l])
    BY <1>2 DEF CheckUnlink
  <2> DEFINE j == [op |-> "unlink", link |-> l]
  <2>1. j \in Job /\ j.op = "unlink"
    BY DEF Job, Shape, TypeOK
  <2> QED BY <2>1, AcceptShape
<1>3. CASE CheckDeclare(t)
  <2> PICK i \in Tracked \cap present :
           \E s \in Declarable(i) : Accept(t, [op |-> "declare", item |-> i, status |-> s])
    BY <1>3 DEF CheckDeclare
  <2> PICK s \in Declarable(i) : Accept(t, [op |-> "declare", item |-> i, status |-> s])
    OBVIOUS
  <2> DEFINE j == [op |-> "declare", item |-> i, status |-> s]
  <2>1. i \in Item /\ s \in Status
    BY DeclarableType DEF Tracked, Item
  <2>2. j \in Job /\ j.op = "declare" /\ j.item = i /\ j.status = s
    BY <2>1 DEF Job
  <2> QED BY <2>2, AcceptShape
<1>4. CASE CheckStore(t)
  <2> PICK i \in Item : \/ Accept(t, [op |-> "store", drop |-> {i}, add |-> {}])
                        \/ Accept(t, [op |-> "store", drop |-> {}, add |-> {i}])
    BY <1>4 DEF CheckStore
  <2>1. \A d, a \in SUBSET Item :
           LET j == [op |-> "store", drop |-> d, add |-> a]
           IN  j \in Job /\ j.op = "store" /\ j.drop = d /\ j.add = a
    BY DEF Job
  <2>2. \A d, a \in SUBSET Item :
           Accept(t, [op |-> "store", drop |-> d, add |-> a]) /\ (d = {} \/ a = {}) => Shape'
    BY <2>1, AcceptShape
  <2> QED BY <2>2
<1> QED BY <1>1, <1>2, <1>3, <1>4

\* The first write: what it finds is what it writes.
LEMMA FirstWriteShape ==
    ASSUME Shape, NEW t \in Request, phase[t] = "checked",
           phase' = [phase EXCEPT ![t] = "reading"],
           mine' = [mine EXCEPT ![t] = Touches(job[t])],
           NEW E \in SUBSET Link, seen' = [seen EXCEPT ![t] = E],
           UNCHANGED <<storeVars, job, current, writes, conflict, split, unsure>>
    PROVE  Shape'
<1> USE DEF storeVars
<1>1. job[t] \in Job /\ (job[t].op = "declare" => job[t].status \in Declarable(job[t].item))
  BY DEF Shape, TypeOK, JobInv
<1>2. Touches(job[t]) \subseteq Item
  BY <1>1, AfterTypes DEF Shape
<1>3. TypeOK'
  BY <1>2 DEF Shape, TypeOK
<1>4. LinksWellFormed'
  BY DEF Shape, LinksWellFormed
<1>5. ASSUME NEW u \in Request PROVE JobInv(u)' /\ MineInv(u)' /\ FreshInv(u)'
  <2>1. CASE u = t
    <3>1. mine'[t] = Touches(job[t]) /\ job'[t] = job[t]
      BY DEF Shape, TypeOK
    <3>2. MineInv(t)'
      <4>1. CASE job[t].op \in {"link", "unlink"}
        BY <3>1, <4>1 DEF MineInv, Touches
      <4>2. CASE job[t].op = "store"
        BY <3>1, <4>2 DEF MineInv, Touches
      <4> QED BY <3>1, <4>1, <4>2 DEF MineInv
    <3>3. job[t].op = "link" => Touches(job[t]) \subseteq present
      BY DEF Touches
    <3>4. ASSUME NEW e \in links, {e.from, e.to} \cap Dropped(job[t], Touches(job[t])) # {}
          PROVE  {e.from, e.to} \subseteq Touches(job[t])
      <4>1. job[t].op = "store" /\ {e.from, e.to} \cap job[t].drop # {}
        BY <3>4 DEF Dropped
      <4>2. {e.from, e.to} \subseteq present /\ {e.from, e.to} \subseteq Item
        BY DEF Shape, LinksWellFormed, TypeOK
      <4>3. PICK k \in job[t].drop \cap present : k \in {e.from, e.to}
        BY <4>1, <4>2
      <4>4. \A i \in {e.from, e.to} : i = k \/ Joined(links, i, k)
        BY <4>3 DEF Joined
      <4> QED BY <4>1, <4>2, <4>3, <4>4 DEF Touches
    <3>5. FreshInv(t)'
      BY <3>1, <3>3, <3>4 DEF FreshInv, Dropped
    <3> QED BY <2>1, <3>1, <3>2, <3>5 DEF Shape, JobInv
  <2>2. CASE u # t
    <3>1. phase'[u] = phase[u] /\ mine'[u] = mine[u]
      BY <2>2 DEF Shape, TypeOK
    <3> QED BY <3>1 DEF Shape, JobInv, MineInv, FreshInv, Open, Dropped
  <2> QED BY <2>1, <2>2
<1> QED BY <1>3, <1>4, <1>5 DEF Shape

\* A refresh's second read changes nothing but what it has computed.
LEMMA ReadShape ==
    ASSUME Shape, NEW t \in Request, ReadItems(t)
    PROVE  Shape'
<1> USE DEF storeVars
<1>1. Refreshed(job[t], mine[t], seen[t]) \in [DOMAIN Refreshed(job[t], mine[t], seen[t]) -> Status]
  BY RefreshedTypes DEF Shape, TypeOK, JobInv
<1>2. TypeOK'
  BY <1>1 DEF Shape, TypeOK, ReadItems, Goto
<1>3. LinksWellFormed'
  BY DEF Shape, LinksWellFormed, ReadItems
<1>4. ASSUME NEW u \in Request PROVE JobInv(u)' /\ MineInv(u)' /\ FreshInv(u)'
  <2>1. Open(u)' => Open(u)
    BY DEF ReadItems, Goto, Open, Shape, TypeOK
  <2> QED BY <2>1 DEF Shape, JobInv, MineInv, FreshInv, Dropped, ReadItems
<1> QED BY <1>2, <1>3, <1>4 DEF Shape

\* A request that ends leaves the others as they were.
LEMMA DoneOthers ==
    ASSUME TypeOK, NEW t \in Request, Done(t)
    PROVE  /\ phase' = [phase EXCEPT ![t] = "idle"]
           /\ job'[t] = NoJob /\ NoJob \in Job
           /\ \A u \in Request \ {t} :
                 phase'[u] = phase[u] /\ job'[u] = job[u] /\ mine'[u] = mine[u] /\ writes'[u] = writes[u]
           /\ phase' \in [Request -> {"idle", "checked", "reading", "ready"}]
           /\ job' \in [Request -> Job]
           /\ seen' \in [Request -> SUBSET Link]
           /\ mine' \in [Request -> SUBSET Item]
           /\ writes' = [u \in Request |-> writes'[u]]
           /\ \A u \in Request : writes'[u] \in [DOMAIN writes'[u] -> Status]
<1>1. NoJob \in Job
  BY DEF NoJob, Job
<1> QED BY <1>1 DEF TypeOK, Done, NoWrites

LEMMA AbortShape ==
    ASSUME Shape, NEW t \in Request, Abort(t)
    PROVE  Shape'
<1> USE DEF storeVars
<1>1. Done(t) /\ UNCHANGED <<storeVars, unsure>> /\ split' = split \ {t}
      /\ conflict' = [conflict EXCEPT ![t] = FALSE] /\ current' = [current EXCEPT ![t] = FALSE]
  BY DEF Abort
<1>2. TypeOK'
  BY <1>1, DoneOthers DEF Shape, TypeOK
<1>3. LinksWellFormed'
  BY <1>1 DEF Shape, LinksWellFormed
<1>4. ASSUME NEW u \in Request PROVE JobInv(u)' /\ MineInv(u)' /\ FreshInv(u)'
  <2>1. CASE u = t
    <3>1. job'[t] = NoJob /\ ~Open(t)'
      BY <1>1, DoneOthers DEF Shape, TypeOK, Open
    <3> QED BY <2>1, <3>1 DEF JobInv, MineInv, FreshInv, NoJob
  <2>2. CASE u # t
    <3>1. phase'[u] = phase[u] /\ job'[u] = job[u] /\ mine'[u] = mine[u] /\ conflict'[u] = conflict[u]
      BY <1>1, <2>2, DoneOthers DEF Shape, TypeOK
    <3>2. JobInv(u) /\ MineInv(u) /\ FreshInv(u)
      BY DEF Shape
    <3>3. JobInv(u)' /\ MineInv(u)'
      BY <3>1, <3>2 DEF JobInv, MineInv, Open
    <3>4. FreshInv(u)'
      BY <1>1, <3>1, <3>2 DEF FreshInv, Open, Dropped
    <3> QED BY <3>3, <3>4
  <2> QED BY <2>1, <2>2
<1> QED BY <1>2, <1>3, <1>4 DEF Shape

\* A commit changes items and links of what it wrote, and nothing of what a request
\* it has no conflict with wrote.
LEMMA CommitStore ==
    ASSUME Shape, NEW t \in Request, Commit(t)
    PROVE  /\ present \ mine[t] \subseteq present'
           /\ \A e \in links' : e \in links \/ {e.from, e.to} = mine[t]
           /\ \A e \in links : {e.from, e.to} \cap mine[t] = {} => e \in links'
           /\ \A u \in Request \ {t} : Open(u)' /\ ~conflict'[u] =>
                  Open(u) /\ ~conflict[u] /\ Written(u) \cap Written(t) = {}
<1>1. Open(t) /\ job[t] \in Job /\ Dropped(job[t], mine[t]) \subseteq mine[t]
  BY DEF Commit, Open, Shape, TypeOK, Dropped
<1>2. present \ mine[t] \subseteq present'
  BY <1>1 DEF Commit, PresentAfter
<1>3. \A e \in links' : e \in links \/ {e.from, e.to} = mine[t]
  BY <1>1 DEF Commit, LinksAfter, MineInv, Shape
<1>4. ASSUME NEW e \in links, {e.from, e.to} \cap mine[t] = {} PROVE e \in links'
  <2>1. CASE job[t].op = "unlink" /\ mine[t] # {}
    BY <1>1, <1>4, <2>1 DEF Commit, LinksAfter, MineInv, Shape
  <2>2. CASE ~(job[t].op = "unlink" /\ mine[t] # {})
    BY <1>1, <1>4, <2>2 DEF Commit, LinksAfter
  <2> QED BY <2>1, <2>2
<1>5. ASSUME NEW u \in Request \ {t}, Open(u)', ~conflict'[u]
      PROVE  Open(u) /\ ~conflict[u] /\ Written(u) \cap Written(t) = {}
  <2>1. phase'[u] = phase[u]
    BY DoneOthers DEF Shape, Commit
  <2>2. conflict'[u] = (u # t /\ (conflict[u] \/ Written(u) \cap Written(t) # {}))
    BY DEF Commit
  <2> QED BY <1>5, <2>1, <2>2 DEF Open
<1> QED BY <1>2, <1>3, <1>4, <1>5

LEMMA StatusAfterType ==
    ASSUME Shape, NEW t \in Request
    PROVE  StatusAfter(t) \in [Item -> Status]
BY DEF Shape, TypeOK, StatusAfter, Status, NoStatus

LEMMA CommitShape ==
    ASSUME Shape, NEW t \in Request, Commit(t)
    PROVE  Shape'
<1>1. /\ Done(t) /\ phase[t] = "ready" /\ ~conflict[t] /\ Open(t) /\ JobInv(t) /\ MineInv(t) /\ FreshInv(t)
      /\ present' = PresentAfter(job[t], mine[t])
      /\ links' = LinksAfter(links, job[t], mine[t])
      /\ declared' = DeclaredAfter(job[t], mine[t])
      /\ status' = StatusAfter(t)
      /\ job[t] \in Job /\ mine[t] \in SUBSET Item
  BY DEF Commit, Open, Shape, TypeOK
<1>2. TypeOK'
  <2>1. conflict' \in [Request -> BOOLEAN] /\ current' \in [Request -> BOOLEAN]
        /\ split' \subseteq Request /\ unsure' \in BOOLEAN
    BY DEF Commit
  <2>2. present' \subseteq Item /\ links' \subseteq Link /\ declared' \in [Item -> Status]
        /\ \A i \in Item : declared'[i] \in Declarable(i)
    BY <1>1, AfterTypes DEF JobInv, Shape
  <2>3. status' \in [Item -> Status]
    BY <1>1, StatusAfterType
  <2> QED BY <1>1, <2>1, <2>2, <2>3, DoneOthers DEF Shape, TypeOK
<1>3. LinksWellFormed'
  <2> SUFFICES ASSUME NEW l \in links' PROVE {l.from, l.to} \subseteq present' /\ WellTyped(l)
    BY DEF LinksWellFormed, WellTyped
  <2>1. CASE job[t].op = "link" /\ mine[t] # {}
    <3>1. present' = present
      BY <1>1, <2>1 DEF PresentAfter, Dropped, Added
    <3>2. CASE l \in links
      BY <3>1, <3>2 DEF Shape, LinksWellFormed
    <3>3. CASE l = job[t].link
      BY <1>1, <2>1, <3>1, <3>3 DEF MineInv, FreshInv, JobInv
    <3> QED BY <1>1, <2>1, <3>2, <3>3 DEF LinksAfter
  <2>2. CASE ~(job[t].op = "link" /\ mine[t] # {})
    <3>1. l \in links /\ {l.from, l.to} \cap Dropped(job[t], mine[t]) = {}
      BY <1>1, <2>2 DEF LinksAfter, Dropped
    <3> QED BY <1>1, <3>1 DEF PresentAfter, Shape, LinksWellFormed
  <2> QED BY <2>1, <2>2
<1>4. ASSUME NEW u \in Request PROVE JobInv(u)' /\ MineInv(u)' /\ FreshInv(u)'
  <2>1. CASE u = t
    <3>1. job'[t] = NoJob /\ ~Open(t)'
      BY <1>1, DoneOthers DEF Shape, TypeOK, Open
    <3> QED BY <2>1, <3>1 DEF JobInv, MineInv, FreshInv, NoJob
  <2>2. CASE u # t
    <3>1. phase'[u] = phase[u] /\ job'[u] = job[u] /\ mine'[u] = mine[u]
      BY <1>1, <2>2, DoneOthers DEF Shape
    <3>2. JobInv(u)' /\ MineInv(u)'
      BY <3>1 DEF Shape, JobInv, MineInv, Open
    <3>3. FreshInv(u)'
      <4> SUFFICES ASSUME Open(u)', ~conflict'[u]
                   PROVE  /\ job[u].op = "link" => mine[u] \subseteq present'
                          /\ \A e \in links' : {e.from, e.to} \cap Dropped(job[u], mine[u]) # {} =>
                                                  {e.from, e.to} \subseteq mine[u]
        BY <3>1 DEF FreshInv, Dropped
      <4>1. Open(u) /\ ~conflict[u] /\ mine[u] \cap mine[t] = {}
        BY <2>2, CommitStore DEF Written
      <4>2. FreshInv(u) /\ Dropped(job[u], mine[u]) \subseteq mine[u]
        BY DEF Shape, Dropped
      <4> QED BY <4>1, <4>2, CommitStore DEF FreshInv
    <3> QED BY <3>2, <3>3
  <2> QED BY <2>1, <2>2
<1> QED BY <1>2, <1>3, <1>4 DEF Shape

LEMMA StutterShape ==
    ASSUME Shape, UNCHANGED vars
    PROVE  Shape'
BY DEF Shape, TypeOK, LinksWellFormed, JobInv, MineInv, FreshInv, Open, Dropped, vars, storeVars, txVars

LEMMA BeginShape ==
    ASSUME Shape, NEW t \in Request, Begin(t)
    PROVE  Shape'
<1>1. job[t] \in Job /\ (job[t].op = "declare" => job[t].status \in Declarable(job[t].item))
  BY DEF Shape, TypeOK, JobInv
<1>2. Touches(job[t]) \in SUBSET Item
  BY <1>1, AfterTypes DEF Shape
<1>3. LinksAfter(links, job[t], Touches(job[t])) \in SUBSET Link
  BY <1>1, <1>2, AfterTypes DEF Shape
<1> QED BY <1>3, FirstWriteShape DEF Begin, Goto

LEMMA NextShape == Shape /\ [Next]_vars => Shape'
BY StutterShape, CheckShape, BeginShape, ReadShape, CommitShape, AbortShape DEF Next

\* Every state has its declared types.
THEOREM TypeCorrect == Spec => []TypeOK
<1>1. Shape => TypeOK
  BY DEF Shape
<1> QED BY <1>1, InitShape, NextShape, PTL DEF Spec

\* Links join stored items of the right types, however many requests overlap and
\* whatever their refreshes read.
THEOREM LinksStayWellFormed == Spec => []LinksWellFormed
<1>1. Shape => LinksWellFormed
  BY DEF Shape
<1> QED BY <1>1, InitShape, NextShape, PTL DEF Spec

-----------------------------------------------------------------------------
(* Statuses, when a refresh's two reads see one state.  The heart of it:    *)
(* what a request changes about an item, its links in, its declared status  *)
(* and its presence, it changes only for items it wrote.                    *)

LEMMA IntoElsewhere ==
    ASSUME NEW E, NEW j \in Job, NEW W,
           j.op \in {"link", "unlink"} => W = {} \/ W = {j.link.from, j.link.to},
           \A e \in E : {e.from, e.to} \cap Dropped(j, W) # {} => {e.from, e.to} \subseteq W,
           NEW i, i \notin W
    PROVE  Into(LinksAfter(E, j, W), i) = Into(E, i)
<1>1. CASE j.op = "link" /\ W # {}
  BY <1>1 DEF Into, LinksAfter
<1>2. CASE j.op = "unlink" /\ W # {}
  BY <1>2 DEF Into, LinksAfter
<1>3. CASE ~(j.op = "link" /\ W # {}) /\ ~(j.op = "unlink" /\ W # {})
  BY <1>3 DEF Into, LinksAfter
<1> QED BY <1>1, <1>2, <1>3

LEMMA IntoLocal ==
    ASSUME NEW E, NEW F, NEW j \in Job, NEW W, NEW i, Into(E, i) = Into(F, i)
    PROVE  Into(LinksAfter(E, j, W), i) = Into(LinksAfter(F, j, W), i)
<1>1. \A e : e.to = i => (e \in E <=> e \in F)
  BY DEF Into
<1>2. CASE j.op = "link" /\ W # {}
  BY <1>1, <1>2 DEF Into, LinksAfter
<1>3. CASE j.op = "unlink" /\ W # {}
  BY <1>1, <1>3 DEF Into, LinksAfter
<1>4. CASE ~(j.op = "link" /\ W # {}) /\ ~(j.op = "unlink" /\ W # {})
  BY <1>1, <1>4 DEF Into, LinksAfter
<1> QED BY <1>2, <1>3, <1>4

LEMMA DeclaredElsewhere ==
    ASSUME NEW j, NEW W, NEW i \in Item, i \notin W
    PROVE  DeclaredAfter(j, W)[i] = declared[i]
BY DEF DeclaredAfter, Dropped

\* What a refresh read of the links is what its commit would leave, or it is known
\* that they have changed.
SeenInv(t) ==
    phase[t] = "reading" /\ t \notin split => seen[t] = LinksAfter(links, job[t], mine[t])

StatusInv ==
    /\ Shape
    /\ StatusDerived
    /\ WritesFresh
    /\ \A t \in Request : SeenInv(t)
    /\ \A t \in Request : DOMAIN writes[t] \subseteq Tracked
    /\ \A i \in Item \ Tracked : status[i] = NoStatus

LEMMA InitStatus == Init => StatusInv
<1> SUFFICES ASSUME Init PROVE StatusInv
  OBVIOUS
<1>1. Shape
  BY InitShape
<1> QED BY <1>1 DEF Init, StatusInv, StatusDerived, WritesFresh, SeenInv, NoWrites

\* A step that changes neither what is stored nor a request that is ready.
LEMMA SameStatus ==
    ASSUME StatusInv, Shape', UNCHANGED <<storeVars, unsure>>,
           \A u \in Request : SeenInv(u)',
           \A u \in Request : DOMAIN writes'[u] \subseteq Tracked,
           \A u \in Request : phase'[u] = "ready" =>
               phase[u] = "ready" /\ job'[u] = job[u] /\ mine'[u] = mine[u]
               /\ writes'[u] = writes[u] /\ conflict'[u] = conflict[u]
               /\ (u \in split' <=> u \in split)
    PROVE  StatusInv'
<1> USE DEF storeVars
<1>1. StatusDerived'
  BY DEF StatusInv, StatusDerived
<1>2. WritesFresh'
  <2> SUFFICES ASSUME ~unsure', NEW u \in Request, phase'[u] = "ready", ~conflict'[u],
                      u \notin split',
                      NEW i \in Tracked \cap PresentAfter(job[u], mine[u])'
               PROVE  StatusAfter(u)'[i] = Derive(i, LinksAfter(links, job[u], mine[u])',
                                                  DeclaredAfter(job[u], mine[u])'[i])
    BY DEF WritesFresh
  <2>1. phase[u] = "ready" /\ ~conflict[u] /\ job'[u] = job[u] /\ mine'[u] = mine[u]
        /\ writes'[u] = writes[u]
    OBVIOUS
  <2>2. /\ PresentAfter(job[u], mine[u])' = PresentAfter(job[u], mine[u])
        /\ StatusAfter(u)' = StatusAfter(u)
        /\ LinksAfter(links, job[u], mine[u])' = LinksAfter(links, job[u], mine[u])
        /\ DeclaredAfter(job[u], mine[u])' = DeclaredAfter(job[u], mine[u])
    BY <2>1 DEF StatusAfter, PresentAfter, LinksAfter, DeclaredAfter
  <2> QED BY <2>1, <2>2 DEF StatusInv, WritesFresh
<1> QED BY <1>1, <1>2 DEF StatusInv

\* What a refresh has read stays current, or is known not to be.
LEMMA SeenStays ==
    ASSUME NEW u \in Request, SeenInv(u), links' = links,
           phase'[u] = "reading" => phase[u] = "reading",
           phase[u] = "reading" /\ phase'[u] = "reading" =>
               seen'[u] = seen[u] /\ job'[u] = job[u] /\ mine'[u] = mine[u]
               /\ (u \in split' <=> u \in split)
    PROVE  SeenInv(u)'
BY DEF SeenInv, LinksAfter, Dropped

LEMMA BeginStatus ==
    ASSUME StatusInv, NEW t \in Request, Begin(t)
    PROVE  StatusInv'
<1> USE DEF storeVars
<1> DEFINE W == Touches(job[t])
<1>1. /\ phase[t] = "checked" /\ phase' = [phase EXCEPT ![t] = "reading"]
      /\ mine' = [mine EXCEPT ![t] = W]
      /\ seen' = [seen EXCEPT ![t] = LinksAfter(links, job[t], W)]
      /\ UNCHANGED <<storeVars, job, current, writes, conflict, split, unsure>>
  BY DEF Begin, Goto
<1> HIDE DEF W
<1>2. Shape'
  BY BeginShape DEF StatusInv
<1>3. ASSUME NEW u \in Request PROVE SeenInv(u)'
  <2>1. CASE u = t
    <3>1. seen'[t] = LinksAfter(links, job[t], W) /\ mine'[t] = W /\ job'[t] = job[t]
      BY <1>1 DEF StatusInv, Shape, TypeOK
    <3>2. LinksAfter(links, job[t], mine[t])' = LinksAfter(links, job[t], W)
      BY <1>1, <3>1 DEF LinksAfter, Dropped
    <3> QED BY <2>1, <3>1, <3>2 DEF SeenInv
  <2>2. CASE u # t
    BY <1>1, <2>2, SeenStays DEF StatusInv, Shape, TypeOK
  <2> QED BY <2>1, <2>2
<1>4. \A u \in Request : phase'[u] = "ready" =>
          phase[u] = "ready" /\ job'[u] = job[u] /\ mine'[u] = mine[u]
          /\ writes'[u] = writes[u] /\ conflict'[u] = conflict[u]
          /\ (u \in split' <=> u \in split)
  BY <1>1 DEF StatusInv, Shape, TypeOK
<1>5. \A u \in Request : DOMAIN writes'[u] \subseteq Tracked
  BY <1>1 DEF StatusInv
<1> QED BY <1>1, <1>2, <1>3, <1>4, <1>5, SameStatus

LEMMA ReadStatus ==
    ASSUME StatusInv, NEW t \in Request, ReadItems(t)
    PROVE  StatusInv'
<1> USE DEF storeVars
<1> DEFINE W == mine[t]
           E == LinksAfter(links, job[t], W)
           w == Refreshed(job[t], W, seen[t])
<1>1. /\ phase[t] = "reading" /\ phase' = [phase EXCEPT ![t] = "ready"]
      /\ writes' = [writes EXCEPT ![t] = w] /\ seen' = [seen EXCEPT ![t] = {}]
      /\ UNCHANGED <<storeVars, job, current, mine, conflict, split, unsure>>
  BY DEF ReadItems, Goto
<1>2. TypeOK /\ JobInv(t) /\ job[t] \in Job /\ W \in SUBSET Item
  BY DEF StatusInv, Shape, TypeOK
<1>3. DOMAIN w \subseteq Tracked
  BY <1>2, RefreshedTypes DEF JobInv
<1>4. Shape'
  BY ReadShape DEF StatusInv
<1>5. StatusDerived'
  BY <1>1 DEF StatusInv, StatusDerived
<1>6. ASSUME t \notin split, NEW i \in Tracked \cap PresentAfter(job[t], W)
      PROVE  LET D == DeclaredAfter(job[t], W) IN
             (IF i \in DOMAIN w THEN w[i] ELSE status[i]) = Derive(i, E, D[i])
  <2> DEFINE new == [k \in Tracked \cap PresentAfter(job[t], W) |->
                        Derive(k, E, DeclaredAfter(job[t], W)[k])]
  <2>1. seen[t] = E
    BY <1>1, <1>6 DEF StatusInv, SeenInv
  <2>2. w = [k \in {k \in DOMAIN new : new[k] # status[k]} |-> new[k]]
    BY <2>1 DEF Refreshed
  <2>3. DOMAIN new = Tracked \cap PresentAfter(job[t], W)
        /\ new[i] = Derive(i, E, DeclaredAfter(job[t], W)[i])
    OBVIOUS
  <2> HIDE DEF new, w
  <2> QED BY <2>2, <2>3
<1> HIDE DEF w, E, W
<1>7. WritesFresh'
  <2> SUFFICES ASSUME ~unsure', NEW u \in Request, phase'[u] = "ready", ~conflict'[u],
                      u \notin split',
                      NEW i \in Tracked \cap PresentAfter(job[u], mine[u])'
               PROVE  StatusAfter(u)'[i] = Derive(i, LinksAfter(links, job[u], mine[u])',
                                                  DeclaredAfter(job[u], mine[u])'[i])
    BY DEF WritesFresh
  <2>1. CASE u = t
    <3>1. job'[u] = job[t] /\ mine'[u] = W /\ writes'[u] = w
      BY <1>1, <2>1 DEF StatusInv, Shape, TypeOK, W
    <3>2. /\ PresentAfter(job[u], mine[u])' = PresentAfter(job[t], W)
          /\ LinksAfter(links, job[u], mine[u])' = LinksAfter(links, job[t], W)
          /\ DeclaredAfter(job[u], mine[u])' = DeclaredAfter(job[t], W)
      <4>1. present' = present /\ links' = links /\ declared' = declared
        BY <1>1
      <4> QED BY <3>1, <4>1 DEF PresentAfter, LinksAfter, DeclaredAfter
    <3>3. i \in Item /\ i \notin Dropped(job[t], W)
      BY <1>2, <3>2 DEF PresentAfter, Dropped, Added, JobInv, Tracked, Item
    <3>4. StatusAfter(u)'[i] = IF i \in DOMAIN w THEN w[i] ELSE status[i]
      BY <1>1, <3>1, <3>3 DEF StatusAfter
    <3> QED BY <1>1, <1>6, <2>1, <3>2, <3>4 DEF E
  <2>2. CASE u # t
    <3>1. phase[u] = "ready" /\ ~conflict[u] /\ job'[u] = job[u] /\ mine'[u] = mine[u]
          /\ writes'[u] = writes[u]
      BY <1>1, <2>2 DEF StatusInv, Shape, TypeOK
    <3>2. /\ PresentAfter(job[u], mine[u])' = PresentAfter(job[u], mine[u])
          /\ StatusAfter(u)' = StatusAfter(u)
          /\ LinksAfter(links, job[u], mine[u])' = LinksAfter(links, job[u], mine[u])
          /\ DeclaredAfter(job[u], mine[u])' = DeclaredAfter(job[u], mine[u])
      <4>1. present' = present /\ links' = links /\ declared' = declared /\ status' = status
        BY <1>1
      <4> QED BY <3>1, <4>1 DEF StatusAfter, PresentAfter, LinksAfter, DeclaredAfter
    <3>3. ~unsure /\ u \notin split
      BY <1>1
    <3> QED BY <3>1, <3>2, <3>3 DEF StatusInv, WritesFresh
  <2> QED BY <2>1, <2>2
<1>8. \A u \in Request : SeenInv(u)' /\ DOMAIN writes'[u] \subseteq Tracked
  <2> TAKE u \in Request
  <2>1. SeenInv(u)'
    BY <1>1, SeenStays DEF StatusInv, Shape, TypeOK
  <2>2. DOMAIN writes'[u] \subseteq Tracked
    BY <1>1, <1>3 DEF StatusInv, Shape, TypeOK
  <2> QED BY <2>1, <2>2
<1>9. \A i \in Item \ Tracked : status'[i] = NoStatus
  BY <1>1 DEF StatusInv
<1> QED BY <1>4, <1>5, <1>7, <1>8, <1>9 DEF StatusInv

LEMMA CommitStatus ==
    ASSUME StatusInv, NEW t \in Request, Commit(t)
    PROVE  StatusInv'
<1>1. /\ Done(t) /\ phase[t] = "ready" /\ ~conflict[t] /\ Open(t) /\ job[t] \in Job
      /\ JobInv(t) /\ MineInv(t) /\ FreshInv(t) /\ TypeOK /\ Shape /\ Shape'
      /\ present' = PresentAfter(job[t], mine[t])
      /\ links' = LinksAfter(links, job[t], mine[t])
      /\ declared' = DeclaredAfter(job[t], mine[t])
      /\ status' = StatusAfter(t)
      /\ unsure' = (unsure \/ t \in split)
      /\ split' = {u \in Request \ {t} :
                     u \in split \/ (phase[u] = "reading" /\ links' # links)}
  BY CommitShape DEF Commit, Open, StatusInv, Shape, TypeOK
\* What it commits is derived.
<1>2. \A i \in Item \ Tracked : status'[i] = NoStatus
  BY <1>1 DEF StatusAfter, StatusInv
<1>3. StatusDerived'
  <2> SUFFICES ASSUME ~unsure', NEW i \in present' PROVE status'[i] = Derive(i, links', declared'[i])
    BY DEF StatusDerived
  <2>1. CASE i \in Tracked
    BY <1>1, <2>1 DEF StatusInv, WritesFresh
  <2>2. CASE i \notin Tracked
    <3>1. i \in Item
      BY <1>1 DEF Shape, TypeOK
    <3> QED BY <1>2, <2>2, <3>1, DeriveUntracked
  <2> QED BY <2>1, <2>2
\* It leaves everything about the other items as it was.
<1>4. ASSUME NEW i \in Item, i \notin Written(t)
      PROVE  /\ i \in present' <=> i \in present
             /\ status'[i] = status[i]
             /\ declared'[i] = declared[i]
             /\ Into(links', i) = Into(links, i)
  <2>1. i \notin mine[t] /\ i \notin DOMAIN writes[t] /\ i \notin Dropped(job[t], mine[t])
    BY <1>4 DEF Written, Dropped
  <2>2. i \in present' <=> i \in present
    BY <1>1, <2>1 DEF PresentAfter, Added, MineInv
  <2>3. status'[i] = status[i]
    BY <1>1, <2>1 DEF StatusAfter
  <2>4. declared'[i] = declared[i]
    BY <1>1, <2>1, DeclaredElsewhere
  <2>5. Into(links', i) = Into(links, i)
    BY <1>1, <2>1, IntoElsewhere DEF MineInv, FreshInv
  <2> QED BY <2>2, <2>3, <2>4, <2>5
<1>5. WritesFresh'
  <2> SUFFICES ASSUME ~unsure', NEW u \in Request, phase'[u] = "ready", ~conflict'[u],
                      u \notin split',
                      NEW i \in Tracked \cap PresentAfter(job[u], mine[u])'
               PROVE  StatusAfter(u)'[i] = Derive(i, LinksAfter(links, job[u], mine[u])',
                                                  DeclaredAfter(job[u], mine[u])'[i])
    BY DEF WritesFresh
  <2>1. u # t
    BY <1>1, DoneOthers
  <2>2. phase[u] = "ready" /\ job'[u] = job[u] /\ mine'[u] = mine[u] /\ writes'[u] = writes[u]
        /\ ~unsure /\ u \notin split
    <3>1. phase[u] = "ready" /\ job'[u] = job[u] /\ mine'[u] = mine[u] /\ writes'[u] = writes[u]
      BY <1>1, <2>1, DoneOthers
    <3>2. ~unsure
      BY <1>1, Zenon
    <3>3. u \notin split
      BY <1>1, <2>1
    <3> QED BY <3>1, <3>2, <3>3
  <2>3. ~conflict[u] /\ Written(u) \cap Written(t) = {}
    BY <1>1, <2>1, <2>2, CommitStore DEF Open
  <2>4. i \in Item /\ job[u] \in Job /\ JobInv(u) /\ MineInv(u) /\ MineInv(u)' /\ FreshInv(u)'
    BY <1>1 DEF Shape, TypeOK, Tracked, Item
  <2> DEFINE P == PresentAfter(job[u], mine[u])
             E == LinksAfter(links, job[u], mine[u])
             D == DeclaredAfter(job[u], mine[u])
  <2>5. i \notin Dropped(job[u], mine[u])
    BY <2>2, <2>4 DEF PresentAfter, Dropped, Added, JobInv
  <2>6. ASSUME i \notin Written(t), i \in P, i \in mine[u] \/ i \in DOMAIN writes[u] PROVE StatusAfter(u)'[i] = Derive(i, E', D'[i])
    <3>1. Into(E', i) = Into(E, i)
      BY <1>4, <2>2, <2>4, <2>6, IntoLocal
    <3>2. D'[i] = D[i]
      BY <1>4, <2>2, <2>4, <2>6 DEF DeclaredAfter
    <3>3. StatusAfter(u)'[i] = StatusAfter(u)[i]
      BY <1>4, <2>2, <2>4, <2>6 DEF StatusAfter
    <3>4. StatusAfter(u)[i] = Derive(i, E, D[i])
      BY <2>2, <2>3, <2>6 DEF StatusInv, WritesFresh
    <3> QED BY <3>1, <3>2, <3>3, <3>4, DeriveSame
  <2>7. CASE i \in mine[u]
    <3>1. i \notin Written(t)
      BY <2>3, <2>7 DEF Written
    <3>2. i \in P
      BY <1>4, <2>2, <2>4, <3>1 DEF PresentAfter
    <3> QED BY <2>6, <2>7, <3>1, <3>2
  <2>8. CASE i \notin mine[u]
    <3>1. i \in present' /\ i \notin Added(job[u])
      BY <2>2, <2>4, <2>8 DEF PresentAfter, Added, MineInv, Open
    <3>2. CASE i \in DOMAIN writes[u]
      <4>1. i \notin Written(t)
        BY <2>3, <3>2 DEF Written
      <4>2. i \in P
        BY <1>4, <2>4, <2>5, <3>1, <4>1 DEF PresentAfter
      <4> QED BY <2>6, <3>2, <4>1, <4>2
    <3>3. CASE i \notin DOMAIN writes[u]
      <4>1. StatusAfter(u)'[i] = status'[i]
        BY <2>2, <2>4, <2>5, <3>3 DEF StatusAfter
      <4>2. status'[i] = Derive(i, links', declared'[i])
        BY <1>3, <3>1, Zenon DEF StatusDerived
      <4>3. Into(E', i) = Into(links', i)
        BY <2>2, <2>4, <2>8, IntoElsewhere DEF MineInv, FreshInv, Open
      <4>4. D'[i] = declared'[i]
        BY <2>2, <2>4, <2>8 DEF DeclaredAfter, Dropped
      <4> QED BY <4>1, <4>2, <4>3, <4>4, DeriveSame
    <3> QED BY <3>2, <3>3
  <2> QED BY <2>7, <2>8
<1>6. ASSUME NEW u \in Request PROVE SeenInv(u)' /\ DOMAIN writes'[u] \subseteq Tracked
  <2>1. CASE u = t
    <3>1. phase'[t] = "idle" /\ writes'[t] = NoWrites
      BY <1>1 DEF Done, TypeOK
    <3> QED BY <2>1, <3>1 DEF SeenInv, NoWrites
  <2>2. CASE u # t
    <3>1. phase'[u] = phase[u] /\ job'[u] = job[u] /\ mine'[u] = mine[u]
          /\ writes'[u] = writes[u] /\ seen'[u] = seen[u]
      BY <1>1, <2>2, DoneOthers DEF Done, TypeOK
    <3>2. CASE links' = links
      BY <1>1, <2>2, <3>1, <3>2, SeenStays DEF StatusInv
    <3>3. CASE links' # links
      BY <1>1, <2>2, <3>1, <3>3 DEF StatusInv, SeenInv
    <3> QED BY <3>1, <3>2, <3>3 DEF StatusInv, SeenInv
  <2> QED BY <2>1, <2>2
<1> QED BY <1>1, <1>2, <1>3, <1>5, <1>6 DEF StatusInv

LEMMA OtherStatus ==
    ASSUME StatusInv, Shape', NEW t \in Request,
           \/ CheckLink(t) \/ CheckUnlink(t) \/ CheckDeclare(t) \/ CheckStore(t)
           \/ Abort(t)
    PROVE  StatusInv'
<1>1. PICK p \in {"checked", "idle"} :
        /\ phase' = [phase EXCEPT ![t] = p]
        /\ \A u \in Request \ {t} : job'[u] = job[u] /\ mine'[u] = mine[u] /\ seen'[u] = seen[u]
                                   /\ writes'[u] = writes[u] /\ conflict'[u] = conflict[u]
                                   /\ (u \in split' <=> u \in split)
        /\ DOMAIN writes'[t] \subseteq Tracked
        /\ UNCHANGED <<storeVars, unsure>>
  <2>1. CASE CheckLink(t) \/ CheckUnlink(t) \/ CheckDeclare(t) \/ CheckStore(t)
    <3>1. PICK j : Accept(t, j)
      BY <2>1 DEF CheckLink, CheckUnlink, CheckDeclare, CheckStore
    <3> QED BY <3>1 DEF Accept, Goto, txVars, StatusInv, Shape, TypeOK
  <2>2. CASE Abort(t)
    BY <2>2 DEF Abort, Done, NoWrites, StatusInv, Shape, TypeOK
  <2> QED BY <2>1, <2>2
<1>2. \A u \in Request : phase'[u] \in {"reading", "ready"} => u # t /\ phase'[u] = phase[u]
  BY <1>1 DEF StatusInv, Shape, TypeOK
<1>3. ASSUME NEW u \in Request PROVE SeenInv(u)'
  <2>1. links' = links /\ SeenInv(u)
    BY <1>1 DEF storeVars, StatusInv
  <2> QED BY <1>1, <1>2, <2>1, SeenStays
<1>4. \A u \in Request : DOMAIN writes'[u] \subseteq Tracked
  BY <1>1 DEF StatusInv
<1> QED BY <1>1, <1>2, <1>3, <1>4, SameStatus

LEMMA StutterStatus == StatusInv /\ UNCHANGED vars => StatusInv'
<1> SUFFICES ASSUME StatusInv, UNCHANGED vars PROVE StatusInv'
  OBVIOUS
<1>1. Shape'
  BY NextShape DEF StatusInv
<1>2. \A u \in Request : SeenInv(u)'
  BY SeenStays DEF StatusInv, vars, storeVars, txVars
<1> QED BY <1>1, <1>2, SameStatus DEF vars, txVars, StatusInv

LEMMA NextStatus == StatusInv /\ [Next]_vars => StatusInv'
<1> SUFFICES ASSUME StatusInv, Next PROVE StatusInv'
  BY StutterStatus
<1>1. Shape'
  BY NextShape DEF StatusInv
<1> QED BY <1>1, BeginStatus, ReadStatus, CommitStatus, OtherStatus DEF Next

\* Whatever requests overlap, a stored status is what the links and the declared
\* status give, until a refresh whose two reads saw different links is stored.
THEOREM StatusesStayDerived == Spec => []StatusDerived
<1>1. StatusInv => StatusDerived
  BY DEF StatusInv
<1> QED BY <1>1, InitStatus, NextStatus, PTL DEF Spec

\* What an unconflicted request is about to store stays right, unless it read its
\* links and its items in two states.
THEOREM WritesStayFresh == Spec => []WritesFresh
<1>1. StatusInv => WritesFresh
  BY DEF StatusInv
<1> QED BY <1>1, InitStatus, NextStatus, PTL DEF Spec

-----------------------------------------------------------------------------
(* The search for a circle.  Reached is a recursive function, so it has to *)
(* be shown that there is one; then what it finds is closed under chain    *)
(* links, since a path that a history's order allows is never longer than  *)
(* there are decisions.                                                    *)

\* A set of numbers has a least one.
LEMMA Least ==
    ASSUME NEW T \in SUBSET Nat, T # {}
    PROVE  \E m \in T : \A n \in T : m <= n
<1>1. IsWellFoundedOn(OpToRel(<, Nat), Nat)
  BY NatLessThanWellFounded
<1>2. PICK m \in T : \A n \in T : ~(<<n, m>> \in OpToRel(<, Nat))
  BY <1>1, WFMin
<1>3. \A n \in T : n \in Nat /\ ~(n < m)
  BY <1>2 DEF OpToRel
<1> QED BY <1>3

\* What one more link reaches from the items of a set.
Onward(E, S) == S \cup {e.to : e \in {e \in E : e.kind \in Chain /\ e.from \in S}}

\* The levels of the search, up to one.
IsLevels(f, E, start, m) ==
    /\ f \in [0 .. m -> SUBSET (Item \cup {start})]
    /\ f[0] = {start}
    /\ \A n \in 1 .. m : f[n] = Onward(E, f[n - 1])

\* There are levels up to any one.
LEMMA LevelsExist ==
    ASSUME NEW E \in SUBSET Link, NEW start, NEW m \in Nat
    PROVE  \E f : IsLevels(f, E, start, m)
<1> DEFINE T == {k \in Nat : ~ \E f : IsLevels(f, E, start, k)}
<1> SUFFICES ASSUME T # {} PROVE FALSE
  OBVIOUS
<1>1. PICK k \in T : \A n \in T : k <= n
  <2>1. T \in SUBSET Nat
    OBVIOUS
  <2> HIDE DEF T
  <2> QED BY <2>1, Least
<1>2. CASE k = 0
  <2>1. IsLevels([n \in 0 .. 0 |-> {start}], E, start, 0)
    BY DEF IsLevels
  <2> QED BY <1>2, <2>1
<1>3. CASE k # 0
  <2>1. k - 1 \in Nat /\ k - 1 \notin T
    BY <1>1, <1>3
  <2>2. PICK f : IsLevels(f, E, start, k - 1)
    BY <2>1
  <2> DEFINE g == [n \in 0 .. k |-> IF n = k THEN Onward(E, f[k - 1]) ELSE f[n]]
  <2>3. f[k - 1] \in SUBSET (Item \cup {start})
    BY <2>1, <2>2 DEF IsLevels
  <2>4. Onward(E, f[k - 1]) \in SUBSET (Item \cup {start})
    BY <2>3 DEF Onward, Link
  <2>5. g \in [0 .. k -> SUBSET (Item \cup {start})]
    BY <2>1, <2>2, <2>4 DEF IsLevels
  <2>6. g[0] = {start}
    BY <1>3, <2>1, <2>2 DEF IsLevels
  <2>7. ASSUME NEW n \in 1 .. k PROVE g[n] = Onward(E, g[n - 1])
    <3>1. CASE n = k
      BY <2>1, <3>1
    <3>2. CASE n # k
      <4>1. n \in 1 .. (k - 1) /\ g[n] = f[n] /\ g[n - 1] = f[n - 1]
        BY <2>1, <3>2
      <4> QED BY <2>2, <4>1 DEF IsLevels
    <3> QED BY <3>1, <3>2
  <2>8. IsLevels(g, E, start, k)
    <3> HIDE DEF g
    <3> QED BY <2>5, <2>6, <2>7 DEF IsLevels
  <2> QED BY <1>1, <2>8
<1> QED BY <1>2, <1>3

\* Levels agree as far as both go.
LEMMA LevelsAgree ==
    ASSUME NEW E, NEW start, NEW m \in Nat, NEW n \in Nat, NEW f, NEW g,
           IsLevels(f, E, start, m), IsLevels(g, E, start, n)
    PROVE  \A k \in Nat : k <= m /\ k <= n => f[k] = g[k]
<1> DEFINE T == {k \in Nat : k <= m /\ k <= n /\ f[k] # g[k]}
<1> SUFFICES ASSUME T # {} PROVE FALSE
  OBVIOUS
<1>1. PICK k \in T : \A j \in T : k <= j
  <2>1. T \in SUBSET Nat
    OBVIOUS
  <2> HIDE DEF T
  <2> QED BY <2>1, Least
<1>2. k # 0
  BY <1>1 DEF IsLevels
<1>3. k - 1 \in Nat /\ k - 1 \notin T
  BY <1>1, <1>2
<1>4. f[k - 1] = g[k - 1]
  BY <1>1, <1>3
<1>5. f[k] = Onward(E, f[k - 1]) /\ g[k] = Onward(E, g[k - 1])
  BY <1>1, <1>2 DEF IsLevels
<1> QED BY <1>1, <1>4, <1>5

\* So there is a function of all levels, and Reached is one of its values.
LEMMA ReachedIsLevel ==
    ASSUME NEW E \in SUBSET Link, NEW start
    PROVE  \E f : /\ Reached(E, start) = f[Cardinality(Item)]
                  /\ f[0] = {start}
                  /\ \A n \in Nat : f[n + 1] = Onward(E, f[n])
<1> DEFINE L(n) == CHOOSE f : IsLevels(f, E, start, n)
           h == [n \in Nat |-> L(n)[n]]
           F(f) == [n \in Nat |->
                      IF n = 0 THEN {start}
                      ELSE f[n - 1] \cup
                           {e.to : e \in {e \in E : e.kind \in Chain /\ e.from \in f[n - 1]}}]
           w == CHOOSE f : f = F(f)
<1>1. \A n \in Nat : IsLevels(L(n), E, start, n)
  BY LevelsExist
<1>2. h[0] = {start}
  BY <1>1 DEF IsLevels
<1>3. ASSUME NEW n \in Nat, n # 0 PROVE h[n] = Onward(E, h[n - 1])
  <2>1. n - 1 \in Nat
    BY <1>3
  <2>2. h[n] = L(n)[n] /\ h[n - 1] = L(n - 1)[n - 1]
    BY <2>1
  <2> HIDE DEF L
  <2>3. L(n)[n] = Onward(E, L(n)[n - 1])
    BY <1>1, <1>3 DEF IsLevels
  <2>4. L(n)[n - 1] = L(n - 1)[n - 1]
    BY <1>1, <2>1, LevelsAgree
  <2> QED BY <2>2, <2>3, <2>4
<1>4. h = F(h)
  <2>1. h = [n \in Nat |-> h[n]]
    OBVIOUS
  <2> HIDE DEF h
  <2>2. ASSUME NEW n \in Nat
        PROVE  h[n] = IF n = 0 THEN {start}
                      ELSE h[n - 1] \cup
                           {e.to : e \in {e \in E : e.kind \in Chain /\ e.from \in h[n - 1]}}
    BY <1>2, <1>3 DEF Onward
  <2> QED BY <2>1, <2>2
<1>5. w = F(w)
  <2> HIDE DEF h, F
  <2> QED BY <1>4
<1>6. Reached(E, start) = w[Cardinality(Item)]
  BY DEF Reached
<1>7. w[0] = {start}
  <2>1. F(w)[0] = {start}
    OBVIOUS
  <2> HIDE DEF w, F
  <2> QED BY <1>5, <2>1
<1>8. ASSUME NEW n \in Nat PROVE w[n + 1] = Onward(E, w[n])
  <2>1. F(w)[n + 1] = Onward(E, w[n])
    <3> HIDE DEF w
    <3>1. n + 1 \in Nat /\ n + 1 # 0 /\ (n + 1) - 1 = n
      OBVIOUS
    <3> QED BY <3>1 DEF Onward
  <2> HIDE DEF w, F
  <2> QED BY <1>5, <2>1
<1> HIDE DEF w
<1> QED BY <1>6, <1>7, <1>8

Ages == [Decision -> 1 .. Cardinality(Decision)]

\* There are numbers of decisions and of items, the second no smaller.
LEMMA Sizes ==
    /\ IsFiniteSet(Decision)
    /\ Cardinality(Decision) \in Nat /\ Cardinality(Item) \in Nat
    /\ Cardinality(Decision) <= Cardinality(Item)
<1>1. IsFiniteSet(Item) /\ Decision \in SUBSET Item
  BY LineageAssumption DEF Item
<1> QED BY <1>1, FS_Subset, FS_CardinalityType

\* In links that can be put in order, what a decision reaches is closed under chain
\* links: each level's new items are younger than the last's, and there are only so
\* many ages.
LEMMA ReachedClosed ==
    ASSUME NEW E \in SUBSET Link, \A e \in E : WellTyped(e), InOrder(E),
           NEW start \in Decision
    PROVE  LET R == Reached(E, start) IN
           /\ start \in R
           /\ \A e \in E : e.kind \in Chain /\ e.from \in R => e.to \in R
<1>1. PICK f : /\ Reached(E, start) = f[Cardinality(Item)]
               /\ f[0] = {start}
               /\ \A n \in Nat : f[n + 1] = Onward(E, f[n])
  <2>1. E \in SUBSET Link
    OBVIOUS
  <2> QED BY <2>1, ReachedIsLevel
<1>2. PICK age \in Ages : \A e \in E : e.kind \in Chain => age[e.to] > age[e.from]
  BY DEF InOrder, Ages
<1>3. \A e \in E : e.kind \in Chain => e.from \in Decision /\ e.to \in Decision
  BY DEF WellTyped
<1>4. \A d \in Decision : age[d] \in Nat /\ age[d] >= 1 /\ age[d] <= Cardinality(Decision)
  BY Sizes DEF Ages
<1> DEFINE New(n) == {e.to : e \in {e \in E : /\ e.kind \in Chain
                                               /\ e.from \in f[n] /\ e.to \notin f[n]}}
           T == {n \in Nat : \E x \in New(n) : ~ (age[x] >= n + 2)}
<1>5. T = {}
  <2> SUFFICES ASSUME T # {} PROVE FALSE
    OBVIOUS
  <2>1. PICK n \in T : \A k \in T : n <= k
    <3>1. T \in SUBSET Nat
      OBVIOUS
    <3> HIDE DEF T
    <3> QED BY <3>1, Least
  <2>2. PICK e \in E : e.kind \in Chain /\ e.from \in f[n] /\ e.to \notin f[n] /\ ~ (age[e.to] >= n + 2)
    BY <2>1
  <2>3. age[e.to] > age[e.from] /\ age[e.from] >= 1 /\ age[e.from] \in Nat /\ age[e.to] \in Nat
    BY <1>2, <1>3, <1>4, <2>2
  <2>4. n # 0
    BY <2>2, <2>3
  <2>5. n - 1 \in Nat /\ n - 1 \notin T /\ (n - 1) + 1 = n
    BY <2>1, <2>4
  <2>6. f[n] = Onward(E, f[n - 1])
    BY <1>1, <2>5
  <2>7. e.from \notin f[n - 1]
    BY <2>2, <2>6 DEF Onward
  <2>8. PICK d \in E : d.kind \in Chain /\ d.from \in f[n - 1] /\ d.to = e.from
    BY <2>2, <2>6, <2>7 DEF Onward
  <2>9. e.from \in New(n - 1)
    BY <2>7, <2>8
  <2>10. age[e.from] >= (n - 1) + 2
    BY <2>5, <2>9
  <2> QED BY <2>1, <2>2, <2>3, <2>10
<1>6. ASSUME NEW e \in E, e.kind \in Chain, e.from \in f[Cardinality(Item)]
      PROVE  e.to \in f[Cardinality(Item)]
  <2> SUFFICES ASSUME e.to \notin f[Cardinality(Item)] PROVE FALSE
    OBVIOUS
  <2>1. e.to \in New(Cardinality(Item))
    BY <1>6
  <2>2. age[e.to] >= Cardinality(Item) + 2
    BY <1>5, <2>1, Sizes
  <2> QED BY <1>3, <1>4, <1>6, <2>2, Sizes
<1>7. ASSUME NEW n \in Nat PROVE start \in f[n]
  <2> DEFINE U == {k \in Nat : start \notin f[k]}
  <2> SUFFICES ASSUME U # {} PROVE FALSE
    BY <1>7
  <2>1. PICK k \in U : \A j \in U : k <= j
    <3>1. U \in SUBSET Nat
      OBVIOUS
    <3> HIDE DEF U
    <3> QED BY <3>1, Least
  <2>2. k # 0
    BY <1>1, <2>1
  <2>3. k - 1 \in Nat /\ k - 1 \notin U /\ (k - 1) + 1 = k
    BY <2>1, <2>2
  <2> QED BY <1>1, <2>1, <2>3 DEF Onward
<1> QED BY <1>1, <1>6, <1>7, Sizes

\* A link whose newer end the older end does not reach can be added to a history:
\* what the older end reaches is put after all the rest, in the same order.
LEMMA LinkKeepsOrder ==
    ASSUME NEW E \in SUBSET Link, \A e \in E : WellTyped(e), InOrder(E),
           NEW l \in Link, Allowed(l, E)
    PROVE  InOrder(E \cup {l})
<1>1. PICK age \in Ages : \A e \in E : e.kind \in Chain => age[e.to] > age[e.from]
  BY DEF InOrder, Ages
<1>2. CASE l.kind \notin Chain
  BY <1>1, <1>2 DEF InOrder, Ages
<1>3. CASE l.kind \in Chain
  <2> DEFINE R == Reached(E, l.to)
             Before(x, y) == \/ x \notin R /\ y \in R
                             \/ (x \in R <=> y \in R) /\ age[x] < age[y]
             Upto(y) == {x \in Decision : Before(x, y)} \cup {y}
             rank == [y \in Decision |-> Cardinality(Upto(y))]
  <2>1. l.from \in Decision /\ l.to \in Decision /\ l.from \notin R
    BY <1>3 DEF Allowed, WellTyped
  <2>2. l.to \in R /\ \A e \in E : e.kind \in Chain /\ e.from \in R => e.to \in R
    BY <2>1, ReachedClosed
  <2>3. ASSUME NEW e \in E \cup {l}, e.kind \in Chain
        PROVE  e.from \in Decision /\ e.to \in Decision /\ Before(e.from, e.to)
    <3>1. CASE e = l
      BY <2>1, <2>2, <3>1
    <3>2. CASE e \in E
      <4>1. e.from \in Decision /\ e.to \in Decision /\ age[e.to] > age[e.from]
            /\ age[e.to] \in Nat /\ age[e.from] \in Nat
        BY <1>1, <2>3, <3>2, Sizes DEF WellTyped, Ages
      <4>2. e.from \in R => e.to \in R
        BY <2>2, <2>3, <3>2
      <4> QED BY <4>1, <4>2
    <3> QED BY <3>1, <3>2
  <2>4. \A x \in Decision : age[x] \in Nat
    BY Sizes DEF Ages
  <2>5. ASSUME NEW x \in Decision, NEW y \in Decision, Before(x, y)
        PROVE  Upto(x) \subseteq Upto(y) /\ y \in Upto(y) /\ y \notin Upto(x)
    <3> HIDE DEF R
    <3>1. ~ Before(y, x) /\ x # y
      BY <2>4, <2>5
    <3>2. \A z \in Decision : Before(z, x) => Before(z, y)
      BY <2>4, <2>5
    <3> QED BY <2>5, <3>1, <3>2
  <2>6. ASSUME NEW y \in Decision
        PROVE  Upto(y) \in SUBSET Decision /\ IsFiniteSet(Upto(y))
               /\ Cardinality(Upto(y)) \in 1 .. Cardinality(Decision)
    <3>1. Upto(y) \in SUBSET Decision /\ Upto(y) # {}
      OBVIOUS
    <3> HIDE DEF Upto
    <3>2. IsFiniteSet(Upto(y)) /\ Cardinality(Upto(y)) <= Cardinality(Decision)
      BY <3>1, Sizes, FS_Subset
    <3>3. Cardinality(Upto(y)) \in Nat /\ Cardinality(Upto(y)) # 0
      BY <3>1, <3>2, FS_CardinalityType, FS_EmptySet
    <3> QED BY <3>1, <3>2, <3>3, Sizes
  <2>7. ASSUME NEW x \in Decision, NEW y \in Decision, Before(x, y)
        PROVE  rank[y] > rank[x]
    <3>1. Upto(x) \in SUBSET Upto(y) /\ Upto(x) # Upto(y)
      BY <2>5, <2>7
    <3> HIDE DEF Upto
    <3>2. IsFiniteSet(Upto(y)) /\ Cardinality(Upto(x)) \in Nat /\ Cardinality(Upto(y)) \in Nat
      BY <2>6, Sizes
    <3>3. Cardinality(Upto(x)) <= Cardinality(Upto(y)) /\ Cardinality(Upto(x)) # Cardinality(Upto(y))
      BY <3>1, <3>2, FS_Subset
    <3> QED BY <3>2, <3>3
  <2>8. rank \in Ages
    <3> HIDE DEF Upto
    <3> QED BY <2>6 DEF Ages
  <2>9. \A e \in E \cup {l} : e.kind \in Chain => rank[e.to] > rank[e.from]
    <3> HIDE DEF rank, Before
    <3> QED BY <2>3, <2>7
  <2> HIDE DEF rank
  <2> QED BY <2>8, <2>9 DEF InOrder, Ages
<1> QED BY <1>2, <1>3

-----------------------------------------------------------------------------
(* A check suffices when nothing commits before what it checked is stored. *)

\* While nothing has committed, what a link's check found is still so.
CheckedInv ==
    \A t \in Request : current[t] /\ phase[t] # "idle" =>
        job[t].op = "link" /\ Allowed(job[t].link, links)

LEMMA InitChecked == Init => CheckedInv
BY DEF Init, CheckedInv

LEMMA NextChecked == Shape /\ CheckedInv /\ [Next]_vars => CheckedInv'
<1> SUFFICES ASSUME Shape, CheckedInv, [Next]_vars PROVE CheckedInv'
  OBVIOUS
<1> USE DEF storeVars, txVars
<1>1. CASE UNCHANGED vars
  BY <1>1 DEF CheckedInv, vars
<1>2. ASSUME NEW t \in Request, CheckLink(t) \/ CheckUnlink(t) \/ CheckDeclare(t) \/ CheckStore(t)
      PROVE  CheckedInv'
  <2>1. PICK j : Accept(t, j) /\ (j.op = "link" => Allowed(j.link, links))
    <3>1. CASE CheckLink(t)
      <4>1. PICK l \in Link : Allowed(l, links) /\ Accept(t, [op |-> "link", link |-> l])
        BY <3>1 DEF CheckLink
      <4> QED BY <4>1
    <3>2. CASE CheckUnlink(t)
      BY <3>2 DEF CheckUnlink
    <3>3. CASE CheckDeclare(t)
      BY <3>3 DEF CheckDeclare
    <3>4. CASE CheckStore(t)
      <4>1. PICK i \in Item : \/ Accept(t, [op |-> "store", drop |-> {i}, add |-> {}])
                             \/ Accept(t, [op |-> "store", drop |-> {}, add |-> {i}])
        BY <3>4 DEF CheckStore
      <4> QED BY <4>1
    <3> QED BY <1>2, <3>1, <3>2, <3>3, <3>4
  <2>2. links' = links /\ job'[t] = j /\ current'[t] = (j.op = "link")
        /\ \A u \in Request \ {t} : current'[u] = current[u] /\ phase'[u] = phase[u] /\ job'[u] = job[u]
    BY <2>1 DEF Accept, Goto, Shape, TypeOK
  <2> QED BY <2>1, <2>2 DEF CheckedInv
<1>3. ASSUME NEW t \in Request, Begin(t) \/ ReadItems(t)
      PROVE  CheckedInv'
  <2>1. links' = links /\ current' = current /\ job' = job /\ phase[t] # "idle"
        /\ \A u \in Request \ {t} : phase'[u] = phase[u]
    BY <1>3 DEF Begin, ReadItems, Goto, Shape, TypeOK
  <2> QED BY <2>1 DEF CheckedInv
<1>4. ASSUME NEW t \in Request, Commit(t)
      PROVE  CheckedInv'
  <2>1. \A u \in Request : current'[u] => u # t /\ current[u] /\ links' = links
    BY <1>4 DEF Commit
  <2>2. \A u \in Request \ {t} : phase'[u] = phase[u] /\ job'[u] = job[u]
    BY <1>4, DoneOthers DEF Commit, Shape
  <2> QED BY <2>1, <2>2 DEF CheckedInv
<1>5. ASSUME NEW t \in Request, Abort(t)
      PROVE  CheckedInv'
  <2>1. \A u \in Request : current'[u] => u # t /\ current[u] /\ links' = links
    BY <1>5 DEF Abort, Shape, TypeOK
  <2>2. \A u \in Request \ {t} : phase'[u] = phase[u] /\ job'[u] = job[u]
    BY <1>5, DoneOthers DEF Abort, Shape
  <2> QED BY <2>1, <2>2 DEF CheckedInv
<1> QED BY <1>1, <1>2, <1>3, <1>4, <1>5 DEF Next

\* A link that a check allows leaves a sound history sound.
LEMMA LinkKeepsSound ==
    ASSUME NEW E \in SUBSET Link, \A e \in E : WellTyped(e), Sound(E),
           NEW l \in Link, Allowed(l, E)
    PROVE  Sound(E \cup {l})
<1>1. InOrder(E \cup {l})
  BY LinkKeepsOrder DEF Sound
<1>2. PairsOnce(E \cup {l})
  BY DEF Sound, PairsOnce, Allowed, Joined
<1> QED BY <1>1, <1>2 DEF Sound

\* A commit of a link whose check is still current stores it, or finds an end gone.
LEMMA CommitSound ==
    ASSUME Shape, CheckedInv, NEW t \in Request, Commit(t), current[t], Sound(links)
    PROVE  Sound(links')
<1>1. job[t] \in Job /\ job[t].op = "link" /\ Allowed(job[t].link, links) /\ job[t].link \in Link
  BY JobForms DEF Commit, CheckedInv, Shape, TypeOK
<1>2. links \in SUBSET Link /\ \A e \in links : WellTyped(e)
  BY DEF Shape, TypeOK, LinksWellFormed
<1>3. links' = links \/ links' = links \cup {job[t].link}
  BY <1>1 DEF Commit, LinksAfter, Dropped
<1> QED BY <1>1, <1>2, <1>3, LinkKeepsSound

\* validate_link is enough when nothing commits between its check and its write: a
\* history that can be put in order, each pair linked once, stays so, for any number
\* of items and links and every kind of link.
THEOREM ChecksAreSound == Spec => ChecksSuffice
<1> DEFINE A == \A t \in Request :
                   current[t] /\ phase[t] = "ready" /\ links' # links /\ Sound(links)
                   /\ phase'[t] = "idle" => Sound(links')
<1>1. Shape /\ CheckedInv /\ [Next]_vars => [A]_vars
  <2> SUFFICES ASSUME Shape, CheckedInv, Next, NEW t \in Request,
                      current[t], phase[t] = "ready", links' # links, Sound(links), phase'[t] = "idle"
               PROVE  Sound(links')
    OBVIOUS
  <2>1. PICK u \in Request : Commit(u)
    BY DEF Next, CheckLink, CheckUnlink, CheckDeclare, CheckStore, Accept, Begin, ReadItems, Abort, storeVars
  <2>2. u = t
    BY <2>1, DoneOthers DEF Commit, Shape
  <2> QED BY <2>1, <2>2, CommitSound
<1>2. ChecksSuffice <=> [][A]_vars
  BY DEF ChecksSuffice
<1> HIDE DEF A
<1> QED BY <1>1, <1>2, InitShape, NextShape, InitChecked, NextChecked, PTL DEF Spec

=============================================================================
