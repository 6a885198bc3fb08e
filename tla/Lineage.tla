------------------------------- MODULE Lineage -------------------------------
(***************************************************************************)
(* Decision tracking, app/services/lineage.py: the EVOLVES links between   *)
(* the items of one space and the statuses derived from them, under        *)
(* concurrent requests.  A request that links checks first and writes      *)
(* later, in a transaction of its own; every request that can move a       *)
(* status recomputes the statuses inside its transaction.  ArcadeDB's part *)
(* is external: a transaction's writes appear together at its commit,      *)
(* which fails if another commit wrote an item it wrote too.               *)
(***************************************************************************)
EXTENDS Naturals, FiniteSets

CONSTANTS
    Decision, Risk, Lesson,     \* the items a space may hold, by type
    DecisionStatus, RiskStatus, \* statuses users declare by hand, of DECLARABLE_STATUSES
    Linkable,                   \* the kinds of link users make here, of LINK_KINDS
    Request,                    \* API requests and syncs that run at once
    MaxLinks                    \* bound: the links of the space

Item == Decision \cup Risk \cup Lesson
Tracked == Decision \cup Risk

\* LINK_KINDS and CHAIN_KINDS.
Chain == {"supersedes", "reverses", "amends"}
Kind == Chain \cup {"realizes", "mitigates", "learned_from"}

Link == [from : Item, kind : Kind, to : Item]

\* A status that no link gives: of an item not yet refreshed, or not tracked.
NoStatus == "none"
Status == {NoStatus, "active", "proposed", "deprecated", "rejected", "reversed",
           "superseded", "open", "mitigated", "materialized", "closed"}

\* DECLARABLE_STATUSES, or none.
Declarable(i) ==
    {NoStatus} \cup (CASE i \in Decision -> DecisionStatus
                        [] i \in Risk -> RiskStatus
                        [] OTHER -> {})

ASSUME LineageAssumption ==
    /\ Decision \cap Risk = {} /\ Decision \cap Lesson = {} /\ Risk \cap Lesson = {}
    /\ DecisionStatus \subseteq {"proposed", "active", "deprecated", "rejected",
                                 "reversed", "superseded"}
    /\ RiskStatus \subseteq {"open", "mitigated", "materialized", "closed"}
    /\ Linkable \subseteq Kind
    /\ MaxLinks \in Nat
    /\ IsFiniteSet(Item)

VARIABLES
    present,    \* the items stored
    links,      \* the EVOLVES edges
    declared,   \* declared_status, NoStatus where there is none
    status,     \* the stored status
    phase,      \* where each request is
    job,        \* what it is asked to do
    current,    \* history: nothing it checked has changed since
    seen,       \* the links its refresh read
    writes,     \* the statuses its refresh will store: item -> status
    mine,       \* the items its first writes wrote
    conflict,   \* another commit wrote an item it wrote since
    split,      \* history: the links changed between the two reads of its refresh
    unsure      \* history: what such a refresh computed has been stored

storeVars == <<present, links, declared, status>>
txVars == <<seen, writes, mine, conflict, split>>
vars == <<storeVars, phase, job, current, txVars, unsure>>

\* The jobs: link and unlink two items, declare a status, or store an artifact,
\* which drops and adds items.
Job ==
    [op : {"link"}, link : Link]
    \cup [op : {"unlink"}, link : Link]
    \cup [op : {"declare"}, item : Tracked, status : Status]
    \cup [op : {"store"}, drop : SUBSET Item, add : SUBSET Item]

NoJob == [op |-> "store", drop |-> {}, add |-> {}]
NoWrites == [i \in {} |-> NoStatus]

TypeOK ==
    /\ present \subseteq Item
    /\ links \subseteq Link
    /\ declared \in [Item -> Status]
    /\ \A i \in Item : declared[i] \in Declarable(i)
    /\ status \in [Item -> Status]
    /\ phase \in [Request -> {"idle", "checked", "reading", "ready"}]
    /\ job \in [Request -> Job]
    /\ current \in [Request -> BOOLEAN]
    /\ seen \in [Request -> SUBSET Link]
    /\ mine \in [Request -> SUBSET Item]
    /\ writes = [t \in Request |-> writes[t]]
    /\ \A t \in Request : writes[t] \in [DOMAIN writes[t] -> Status]
    /\ conflict \in [Request -> BOOLEAN]
    /\ split \subseteq Request
    /\ unsure \in BOOLEAN

Init ==
    /\ present = {}
    /\ links = {}
    /\ declared = [i \in Item |-> NoStatus]
    /\ status = [i \in Item |-> NoStatus]
    /\ phase = [t \in Request |-> "idle"]
    /\ job = [t \in Request |-> NoJob]
    /\ current = [t \in Request |-> FALSE]
    /\ seen = [t \in Request |-> {}]
    /\ writes = [t \in Request |-> NoWrites]
    /\ mine = [t \in Request |-> {}]
    /\ conflict = [t \in Request |-> FALSE]
    /\ split = {}
    /\ unsure = FALSE

-----------------------------------------------------------------------------
(* The rules.                                                              *)

\* The links that point to an item.
Into(E, i) == {e \in E : e.to = i}

\* derive_status: incoming links win, the stronger first.
Derive(i, E, decl) ==
    LET incoming == {e.kind : e \in Into(E, i)} IN
    CASE i \notin Tracked -> NoStatus
      [] i \in Decision /\ "reverses" \in incoming -> "reversed"
      [] i \in Decision /\ incoming \cap {"reverses", "supersedes"} = {"supersedes"} -> "superseded"
      [] i \in Risk /\ "realizes" \in incoming -> "materialized"
      [] i \in Risk /\ incoming \cap {"realizes", "mitigates"} = {"mitigates"} -> "mitigated"
      [] OTHER -> IF decl # NoStatus THEN decl ELSE IF i \in Decision THEN "active" ELSE "open"

\* What chain links reach from an item, newer to older, in at most n of them.
Reached(E, start) ==
    LET within[n \in Nat] ==
          IF n = 0 THEN {start}
          ELSE within[n - 1] \cup
               {e.to : e \in {e \in E : e.kind \in Chain /\ e.from \in within[n - 1]}}
    IN within[Cardinality(Item)]

WellTyped(l) ==
    /\ l.from # l.to
    /\ l.kind \in Chain => l.from \in Decision /\ l.to \in Decision
    /\ l.kind \in {"realizes", "mitigates"} => l.to \in Risk
    /\ l.kind = "learned_from" => l.from \in Lesson

Joined(E, i, j) == \E e \in E : {e.from, e.to} = {i, j}

\* validate_link.  (Mutant: the search for a circle starts at the wrong end.)
AllowedBackwards(l, E) ==
    /\ WellTyped(l)
    /\ ~Joined(E, l.from, l.to)
    /\ l.kind \in Chain => l.to \notin Reached(E, l.from)
Allowed(l, E) ==
    /\ WellTyped(l)
    /\ ~Joined(E, l.from, l.to)
    /\ l.kind \in Chain => l.from \notin Reached(E, l.to)

-----------------------------------------------------------------------------
(* What a transaction changes.  Its first write decides: an edge between   *)
(* items gone by then is not created, and an update finds nothing.         *)

\* The items its statements find and write.
\* (Mutant: the edge is created without looking for the items it joins.)
TouchesBlindly(j) ==
    CASE j.op = "link"    -> {j.link.from, j.link.to}
      [] j.op = "unlink"  -> IF \E e \in links : e.from = j.link.from /\ e.to = j.link.to
                             THEN {j.link.from, j.link.to} ELSE {}
      [] j.op = "declare" -> {j.item} \cap present
      [] j.op = "store"   -> LET gone == j.drop \cap present IN
                             gone \cup j.add
                             \cup {i \in Item : \E k \in gone : Joined(links, i, k)}
Touches(j) ==
    CASE j.op = "link"    -> IF {j.link.from, j.link.to} \subseteq present
                             THEN {j.link.from, j.link.to} ELSE {}
      [] j.op = "unlink"  -> IF \E e \in links : e.from = j.link.from /\ e.to = j.link.to
                             THEN {j.link.from, j.link.to} ELSE {}
      [] j.op = "declare" -> {j.item} \cap present
      [] j.op = "store"   -> LET gone == j.drop \cap present IN
                             gone \cup j.add
                             \cup {i \in Item : \E k \in gone : Joined(links, i, k)}

Dropped(j, W) == IF j.op = "store" THEN j.drop \cap W ELSE {}
Added(j) == IF j.op = "store" THEN j.add ELSE {}

PresentAfter(j, W) == (present \ Dropped(j, W)) \cup Added(j)

LinksAfter(E, j, W) ==
    CASE j.op = "link" /\ W # {} -> E \cup {j.link}
      [] j.op = "unlink" /\ W # {} ->
             {e \in E : e.from # j.link.from \/ e.to # j.link.to}
      [] OTHER -> {e \in E : {e.from, e.to} \cap Dropped(j, W) = {}}

DeclaredAfter(j, W) ==
    [i \in Item |->
        CASE j.op = "declare" /\ i = j.item /\ i \in W -> j.status
          [] i \in Dropped(j, W) -> NoStatus
          [] OTHER -> declared[i]]

\* refresh_statuses, given the links it has read: it stores what differs.
\* (Mutant: a deletion does not refresh.)
RefreshedUnlessDeleting(j, W, E) ==
    LET new == [i \in Tracked \cap PresentAfter(j, W) |->
                    Derive(i, E, DeclaredAfter(j, W)[i])]
    IN  [i \in {i \in DOMAIN new : Dropped(j, W) = {} /\ new[i] # status[i]} |-> new[i]]
Refreshed(j, W, E) ==
    LET new == [i \in Tracked \cap PresentAfter(j, W) |->
                    Derive(i, E, DeclaredAfter(j, W)[i])]
    IN  [i \in {i \in DOMAIN new : new[i] # status[i]} |-> new[i]]

-----------------------------------------------------------------------------
(* Requests.                                                               *)

Goto(t, from, to) == phase[t] = from /\ phase' = [phase EXCEPT ![t] = to]

Accept(t, j) ==
    /\ Goto(t, "idle", "checked")
    /\ job' = [job EXCEPT ![t] = j]
    /\ current' = [current EXCEPT ![t] = (j.op = "link")]
    /\ UNCHANGED <<storeVars, txVars, unsure>>

\* add_link reads both items and every link, and validates.
CheckLink(t) ==
    /\ Cardinality(links) < MaxLinks
    /\ \E l \in Link :
         /\ l.kind \in Linkable
         /\ {l.from, l.to} \subseteq present
         /\ Allowed(l, links)
         /\ Accept(t, [op |-> "link", link |-> l])

\* remove_link finds the link, in either direction.
CheckUnlink(t) ==
    \E l \in links : Accept(t, [op |-> "unlink", link |-> l])

\* declare_status, of a decision or a risk.
\* (Mutant: whatever the item's type.)
CheckDeclareAny(t) ==
    \E i \in Tracked \cap present : \E s \in DecisionStatus \cup RiskStatus :
        Accept(t, [op |-> "declare", item |-> i, status |-> s])
CheckDeclare(t) ==
    \E i \in Tracked \cap present : \E s \in Declarable(i) :
        Accept(t, [op |-> "declare", item |-> i, status |-> s])

\* persist_artifact and the deletions of items and artifacts: items come and go.
\* Bound: one item at a time comes or goes.
CheckStore(t) ==
    \E i \in Item :
        \/ i \in present /\ Accept(t, [op |-> "store", drop |-> {i}, add |-> {}])
        \/ Accept(t, [op |-> "store", drop |-> {}, add |-> {i}])

\* The first write opens the transaction, and refresh_statuses reads the links.
\* (A commit between the two conflicts, or is as if it had come before both.)
\* (Mutant: the refresh comes before the link is written.)
BeginRefreshingFirst(t) ==
    /\ Goto(t, "checked", "reading")
    /\ mine' = [mine EXCEPT ![t] = Touches(job[t])]
    /\ seen' = [seen EXCEPT ![t] = links]
    /\ UNCHANGED <<storeVars, job, current, writes, conflict, split, unsure>>
Begin(t) ==
    /\ Goto(t, "checked", "reading")
    /\ mine' = [mine EXCEPT ![t] = Touches(job[t])]
    /\ seen' = [seen EXCEPT ![t] = LinksAfter(links, job[t], Touches(job[t]))]
    /\ UNCHANGED <<storeVars, job, current, writes, conflict, split, unsure>>

\* It reads the items next, and other commits may have changed the links since: no
\* isolation level is asked for, so its two reads may see two states.
ReadItems(t) ==
    /\ Goto(t, "reading", "ready")
    /\ writes' = [writes EXCEPT ![t] = Refreshed(job[t], mine[t], seen[t])]
    /\ seen' = [seen EXCEPT ![t] = {}]
    /\ UNCHANGED <<storeVars, job, current, mine, conflict, split, unsure>>

\* What it has written by now.
Written(t) == mine[t] \cup DOMAIN writes[t]

\* The statuses its commit leaves.
StatusAfter(t) ==
    [i \in Item |->
        CASE i \in Dropped(job[t], mine[t]) -> NoStatus
          [] i \in DOMAIN writes[t] -> writes[t][i]
          [] OTHER -> status[i]]

\* The request is over.
Done(t) ==
    /\ phase' = [phase EXCEPT ![t] = "idle"]
    /\ job' = [job EXCEPT ![t] = NoJob]
    /\ seen' = [seen EXCEPT ![t] = {}]
    /\ writes' = [writes EXCEPT ![t] = NoWrites]
    /\ mine' = [mine EXCEPT ![t] = {}]

Commit(t) ==
    /\ phase[t] = "ready"
    /\ ~conflict[t]
    /\ present' = PresentAfter(job[t], mine[t])
    /\ links' = LinksAfter(links, job[t], mine[t])
    /\ declared' = DeclaredAfter(job[t], mine[t])
    /\ status' = StatusAfter(t)
    /\ conflict' = [u \in Request |->
                      u # t /\ (conflict[u] \/ Written(u) \cap Written(t) # {})]
    /\ current' = [u \in Request |->
                      u # t /\ current[u] /\ links' = links /\ present' = present]
    /\ split' = {u \in Request \ {t} :
                  u \in split \/ (phase[u] = "reading" /\ links' # links)}
    /\ unsure' = (unsure \/ t \in split)
    /\ Done(t)

\* The commit fails, on a conflict or any database error: nothing is stored.
Abort(t) ==
    /\ phase[t] \in {"reading", "ready"}
    /\ conflict' = [conflict EXCEPT ![t] = FALSE]
    /\ current' = [current EXCEPT ![t] = FALSE]
    /\ split' = split \ {t}
    /\ Done(t)
    /\ UNCHANGED <<storeVars, unsure>>

Next ==
    \E t \in Request :
        \/ CheckLink(t) \/ CheckUnlink(t) \/ CheckDeclare(t) \/ CheckStore(t)
        \/ Begin(t) \/ ReadItems(t) \/ Commit(t) \/ Abort(t)

Spec == Init /\ [][Next]_vars

-----------------------------------------------------------------------------
(* Properties.                                                             *)

\* lineage.py, lines 13-18: a stored status is always what the links and the
\* declared status give, whatever requests overlap, until a refresh that read its
\* links and its items in two states (lines 83 and 85) is stored.
StatusDerived ==
    ~unsure => \A i \in present : status[i] = Derive(i, links, declared[i])

\* Why: until something it wrote is committed by another, what a request computed in
\* its refresh stays right for the items it will leave, whatever commits meanwhile
\* on other items.
WritesFresh ==
    ~unsure =>
    \A t \in Request : phase[t] = "ready" /\ ~conflict[t] /\ t \notin split =>
        \A i \in Tracked \cap PresentAfter(job[t], mine[t]) :
            StatusAfter(t)[i] = Derive(i, LinksAfter(links, job[t], mine[t]),
                                       DeclaredAfter(job[t], mine[t])[i])

\* Links join stored items of the right types, though either end may have gone
\* between a request's check and its write.
LinksWellFormed ==
    \A l \in links : {l.from, l.to} \subseteq present /\ WellTyped(l)

\* The history can be put in order, newer before older, and no pair is linked twice.
InOrder(E) ==
    \E age \in [Decision -> 1 .. Cardinality(Decision)] :
        \A l \in E : l.kind \in Chain => age[l.to] > age[l.from]
PairsOnce(E) ==
    \A k, l \in E : {k.from, k.to} = {l.from, l.to} => k = l
Sound(E) == InOrder(E) /\ PairsOnce(E)

\* docs/decision-tracking.md, line 23: a circular history and a pair linked twice
\* are refused.
LinksSound == Sound(links)

\* validate_link is enough when nothing commits between its check and its write.
ChecksSuffice ==
    [][\A t \in Request :
          current[t] /\ phase[t] = "ready" /\ links' # links /\ Sound(links)
          /\ phase'[t] = "idle" => Sound(links')]_vars
=============================================================================
