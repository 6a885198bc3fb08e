----------------------------- MODULE Answering -----------------------------
(***************************************************************************)
(* One question put to a space (services/graphrag.py, repositories/        *)
(* graph.py): what is retrieved, fused, reranked, let through and cited,   *)
(* whatever the models answer.                                             *)
(*                                                                         *)
(* A text stands for its vector, and Score for the cosine similarities, in *)
(* hundredths.  The knowledge does not change during a question.           *)
(***************************************************************************)
EXTENDS Places

CONSTANTS
  Item, Artifact,     \* the nodes, numbers, as the database orders them
  Text, Question,     \* what can be embedded
  Score,              \* by text and item
  Edges,              \* CONTAINS, RELATED_TO, LINK and EVOLVES edges, as pairs
  Replacing,          \* the supersedes and reverses edges among them: newer, older
  DeclaredStale,      \* items whose source declares them superseded, whatever the edges say
  None,
  TopK, Factor, Floor,  \* top_k, and the numbers in candidate_count
  Unit                \* what fused scores are counted in, a multiple of 60 and each rank

Node == Item \union Artifact

ASSUME NodeAssumption ==
  /\ IsFiniteSet(Node) /\ Node \subseteq Int /\ Item \intersect Artifact = {}
  /\ Question \in Text /\ Score \in [Text -> [Item -> 0..100]]
  /\ Replacing \subseteq Item \X Item /\ DeclaredStale \subseteq Item
  /\ TopK \in Nat \ {0} /\ Factor \in Nat /\ Floor \in Nat
  /\ Unit \in Nat \ {0} /\ \A n \in 1..Cardinality(Node) : Unit % (60 + n) = 0

VARIABLES
  own, rejected,      \* the items of the space, and those of them a review rejected
  stage,
  queries, subs,      \* the texts that have vectors: the question's and the HyDE text's; sub-queries'
  lists, fused,       \* the ranked lists; the nodes in their fused order
  context,            \* the nodes the answer is made from, as hits
  replacedBy,         \* what successors() found to have replaced each
  summaries, citations, told  \* artifacts by summary; ids cited; what a made-up answer tells

answeringVars == <<own, rejected, stage, queries, subs, lists, fused, context, replacedBy,
          summaries, citations, told>>

Live == own \ rejected
Replacers(i) == {e[1] : e \in {f \in Replacing : f[2] = i /\ f[1] \in own}}

\* The stored status is superseded or reversed: by an edge, or else as declared (derive_status).
\* One that is only declared has no successor to name.
Stale(i) == i \in own /\ (i \in DeclaredStale \/ Replacers(i) # {})

AnsweringInit ==
  /\ own \in SUBSET Item /\ rejected \in SUBSET own
  /\ stage = "asked"
  /\ queries = <<>> /\ subs = <<>> /\ lists = <<>> /\ fused = <<>>
  /\ context = <<>> /\ replacedBy = [n \in Node |-> {}]
  /\ summaries = {} /\ citations = <<>> /\ told = {}

-----------------------------------------------------------------------------
(* The queries.                                                            *)

\* transform_query: a usable reply's sub-queries, with the question among them, and its HyDE text.
Rewritten(reply) ==
  IF reply = None THEN [subs |-> <<Question>>, hyde |-> Question]
  ELSE LET qs == IF reply.subs = <<>> THEN <<Question>> ELSE reply.subs
       IN  [subs |-> IF Question \in ToSet(qs) THEN qs ELSE <<Question>> \o qs, hyde |-> reply.hyde]

\* What is searched for: texts that differ from the question and got a vector.
Transform == \E reply \in {None} \union [subs : BoundedSeq(Text, 2), hyde : Text], embedded \in SUBSET Text :
  LET r == Rewritten(reply)
      Has(t) == t \in embedded
      Other(t) == t # Question /\ Has(t)
  IN  /\ stage = "asked"
      /\ queries' = Where(<<Question>>, Has) \o Where(<<r.hyde>>, Other)
      /\ subs' = Where(First(Tail(r.subs), 2), Other)
      /\ stage' = "transformed"
      /\ UNCHANGED <<own, rejected, lists, fused, context, replacedBy, summaries, citations, told>>

-----------------------------------------------------------------------------
(* Retrieval.                                                              *)

Larger(a, b) == IF a > b THEN a ELSE b
CandidateCount(k) == Larger(k * Factor, Floor)

\* Mutated form: what the index returns is taken for the user's own nearest.
NearestUnchecked(t, k) ==
  LET Mine(i) == i \in Live
  IN  First(Where(First(Sorted(Item, Score[t]), CandidateCount(k)), Mine), k)

\* The index is shared by all users; too few of this space's own in it, and they are all scanned.
Nearest(t, k) ==
  LET Mine(i) == i \in Live
      found == First(Where(First(Sorted(Item, Score[t]), CandidateCount(k)), Mine), k)
  IN  IF Len(found) >= k THEN found ELSE First(Sorted(Live, Score[t]), k)

Hits(ids, by) == [n \in DOMAIN ids |-> [id |-> ids[n], by |-> by, stale |-> Stale(ids[n])]]

\* Mutated form: rejected neighbours are walked to.
NeighboursAny(ids) ==
  {n \in Artifact \union own : \E i \in ids : <<i, n>> \in Edges \/ <<n, i>> \in Edges}

\* graph_expand: one hop, to what is not rejected.
Neighbours(ids) ==
  {n \in Artifact \union Live : \E i \in ids : <<i, n>> \in Edges \/ <<n, i>> \in Edges}

\* Mutated form: neighbours come without their status.
RetrievedUnmarked(t, k) ==
  LET seeds == ToSet(Nearest(t, k)) around == Neighbours(seeds) \ seeds
      W(n) == Score[t][n] * 10
      best == CHOOSE b \in {W(s) : s \in seeds} : \A s \in seeds : b >= W(s)
      order == Sorted(seeds \union around,
                      [n \in seeds \union around |-> IF n \in seeds THEN W(n) ELSE (best * 7) \div 10])
  IN  IF seeds = {} THEN <<>>
      ELSE [n \in DOMAIN order |->
             [id |-> order[n], by |-> IF order[n] \in seeds THEN "vector" ELSE "graph",
              stale |-> order[n] \in seeds /\ Stale(order[n])]]

\* retrieve_for_rag: the nearest, and their neighbours at 0.7 of the best one's score.
Retrieved(t, k) ==
  LET seeds == ToSet(Nearest(t, k)) around == Neighbours(seeds) \ seeds
      W(n) == Score[t][n] * 10
      best == CHOOSE b \in {W(s) : s \in seeds} : \A s \in seeds : b >= W(s)
      order == Sorted(seeds \union around,
                      [n \in seeds \union around |-> IF n \in seeds THEN W(n) ELSE (best * 7) \div 10])
  IN  IF seeds = {} THEN <<>>
      ELSE [n \in DOMAIN order |->
             [id |-> order[n], by |-> IF order[n] \in seeds THEN "vector" ELSE "graph", stale |-> Stale(order[n])]]

\* The full-text index returns some of the live items that match, in its order.
KeywordHits == {s \in BoundedSeq(Live, TopK) : IsInjective(s)}

Retrieve == \E words \in KeywordHits, shown \in SUBSET Artifact :
  LET Full(n) == Retrieved(queries[n], TopK)
      Plain(n) == Hits(Nearest(subs[n], Larger(TopK \div 2, 1)), "vector")
  IN  /\ stage = "transformed"
      /\ lists' = Where([n \in DOMAIN queries |-> Full(n)] \o [n \in DOMAIN subs |-> Plain(n)]
                              \o <<Hits(words, "keyword")>>, LAMBDA l : l # <<>>)
      /\ summaries' = IF queries = <<>> THEN {} ELSE shown
      /\ stage' = IF lists' = <<>> THEN "none" ELSE "retrieved"
      /\ UNCHANGED <<own, rejected, queries, subs, fused, context, replacedBy, citations, told>>

-----------------------------------------------------------------------------
(* Fusion.                                                                 *)

Ids(l) == {h.id : h \in ToSet(l)}
RankIn(l, i) == CHOOSE n \in DOMAIN l : l[n].id = i
ShareIn(l, i) == IF i \in Ids(l) THEN Unit \div (60 + RankIn(l, i)) ELSE 0

\* _rrf: the sum of 1 / (60 + rank), against that of a node that is first in every list.
Share(i) ==
  LET sum[n \in 0..Len(lists)] == IF n = 0 THEN 0 ELSE sum[n - 1] + ShareIn(lists[n], i)
  IN  sum[Len(lists)]
BestShare == Len(lists) * (Unit \div 61)

Everything == UNION {Ids(l) : l \in ToSet(lists)}

\* Mutated form: ranks count from the end.
FuseBackwards ==
  /\ stage = "retrieved"
  /\ fused' = Reverse(Sorted(Everything, [i \in Everything |-> Share(i)]))
  /\ stage' = "fused"
  /\ UNCHANGED <<own, rejected, queries, subs, lists, context, replacedBy, summaries, citations, told>>

Fuse ==
  /\ stage = "retrieved"
  /\ fused' = Sorted(Everything, [i \in Everything |-> Share(i)])
  /\ stage' = "fused"
  /\ UNCHANGED <<own, rejected, queries, subs, lists, context, replacedBy, summaries, citations, told>>

\* Of a node found several times, the last list's row is kept.
LastHit(i) ==
  LET l == lists[SelectLastInSeq(lists, LAMBDA m : i \in Ids(m))]
  IN  l[RankIn(l, i)]

-----------------------------------------------------------------------------
(* Choice, gate and context.                                               *)

\* rerank: with a real choice to make, the model's scores may put any nodes first.
Reranked ==
  {First(fused, TopK)} \union
    (IF Len(fused) > TopK * 2 THEN {s \in TupleOf(ToSet(fused), TopK) : IsInjective(s)} ELSE {})

Gate == \E ranked \in Reranked :
  LET strong == Where(ranked, LAMBDA i : Share(i) * 10 >= BestShare)
      kept == IF strong = <<>> THEN First(ranked, 3) ELSE strong
  IN  /\ stage = "fused"
      /\ context' = [n \in DOMAIN kept |-> LastHit(kept[n])]
      /\ stage' = IF \E i \in ToSet(kept) : Share(i) * 2 >= BestShare THEN "allowed" ELSE "refused"
      /\ UNCHANGED <<own, rejected, queries, subs, lists, fused, replacedBy, summaries, citations, told>>

\* Stale nodes get what replaced them.
Explain ==
  /\ stage = "allowed"
  /\ replacedBy' = [n \in Node |-> IF \E h \in ToSet(context) : h.id = n /\ h.stale
                                   THEN Replacers(n) ELSE {}]
  /\ stage' = "explained"
  /\ UNCHANGED <<own, rejected, queries, subs, lists, fused, context, summaries, citations, told>>

Primary == Where(context, LAMBDA h : h.by # "graph")

\* _build_context: of an item that was hit itself the prompt says its status and what replaced it,
\* of one that came from the graph its status alone.
PromptEntry(h) == [id |-> h.id, stale |-> h.stale,
                   replacedBy |-> IF h.by = "graph" THEN {} ELSE replacedBy[h.id]]
Prompt == {PromptEntry(h) : h \in ToSet(context)}

Known == Ids(context) \union summaries

\* _extract_citations: the ids of the context, each once, as the answer names them.
Cited(answer) ==
  At(answer, {n \in DOMAIN answer : answer[n] \in Known /\ \A m \in 1..(n - 1) : answer[m] # answer[n]})

\* The model's answer names nodes, or ids it made up.
Generate == \E answer \in BoundedSeq(Known \union UNION {e.replacedBy : e \in Prompt} \union {None}, 2) :
  /\ stage = "explained"
  /\ citations' = Cited(answer)
  /\ stage' = "answered"
  /\ UNCHANGED <<own, rejected, queries, subs, lists, fused, context, replacedBy, summaries, told>>

\* Without a language model, an answer lists the first five items that were hit themselves (all of
\* one kind here), marked if stale, without what replaced them, and names no ids.
MakeUp ==
  /\ stage = "explained"
  /\ told' = ToSet(First(Primary, 5))
  /\ stage' = "answered"
  /\ UNCHANGED <<own, rejected, queries, subs, lists, fused, context, replacedBy, summaries, citations>>

AnsweringNext == Transform \/ Retrieve \/ Fuse \/ Gate \/ Explain \/ Generate \/ MakeUp

AnsweringSpec == AnsweringInit /\ [][AnsweringNext]_answeringVars

-----------------------------------------------------------------------------
(* Properties.                                                             *)

\* A vector search finds the space's own nearest items, however many nearer ones other spaces have
\* and whatever was rejected (graph.py:4-11).
NearestIsExact ==
  stage = "retrieved" /\ Live # {} => \A n \in DOMAIN queries :
    LET found == {h.id : h \in {g \in ToSet(lists[n]) : g.by = "vector"}}
    IN  /\ found \subseteq Live
        /\ Cardinality(found) = IF Cardinality(Live) < TopK THEN Cardinality(Live) ELSE TopK
        /\ \A i \in found, j \in Live \ found : Score[queries[n]][i] >= Score[queries[n]][j]

\* What an answer is made from and cites is the space's own and not rejected, by every way a node
\* gets into the context.
ContextIsLive ==
  /\ Ids(context) \subseteq Live \union Artifact
  /\ ToSet(citations) \subseteq Live \union Artifact

\* A node that every list it shares with another, and every list the other is in, puts higher is
\* never fused below it; and only the first of every list reaches the best possible score.
FusionIsFair ==
  /\ stage = "fused" => \A m, n \in DOMAIN fused :
       (\A l \in ToSet(lists) : fused[n] \in Ids(l) =>
          fused[m] \in Ids(l) /\ RankIn(l, fused[m]) < RankIn(l, fused[n])) => m < n \/ m = n
  /\ stage = "fused" => \A i \in ToSet(fused) :
       Share(i) <= BestShare /\ (Share(i) = BestShare <=> \A l \in ToSet(lists) : l[1].id = i)

\* Nobody is told a replaced decision as the current one: whichever lists a node came from, and
\* whichever of its rows was kept, the prompt and a made-up answer mark it exactly if its status is
\* stale, by an edge or as declared.  And once successors are looked up, an item of the prompt that
\* was hit itself comes with exactly the items of the space that replaced it.  (What came from the
\* graph, and all of a made-up answer, has the mark alone: docs/architecture.md:86 promises more.)
StaleIsMarked ==
  /\ \A e \in Prompt \union told : e.stale = Stale(e.id)
  /\ stage \in {"explained", "answered"} =>
       \A h \in ToSet(Primary) : PromptEntry(h).replacedBy = Replacers(h.id)

\* Rejected items are never used (docs/features.md:7), not even in a prompt as what replaced another.
RejectedNeverUsed ==
  \A e \in Prompt : e.id \notin rejected /\ e.replacedBy \intersect rejected = {}
=============================================================================
