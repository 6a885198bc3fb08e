-------------------------- MODULE ArtifactPipeline --------------------------
(***************************************************************************)
(* Storing what a source says (services/artifact_pipeline.py) while people *)
(* review, edit, share and delete it (routers/knowledge.py).  An ingestion *)
(* is two to four transactions around slow model calls; each is one step   *)
(* here, and any of them may fail and leave what was committed before.     *)
(*                                                                         *)
(* An artifact is a document, the space's own or the copy in another       *)
(* space; its contents are the versions its source has had.  An item is    *)
(* told apart by its artifact and title, as stable_id does.                *)
(***************************************************************************)
EXTENDS Naturals

CONSTANTS
  Doc, Content, Title, None,
  Titles,     \* what regular expressions find in a content
  Links,      \* the links an OKF file with that content states, as pairs of titles
  Imported,   \* the one content an OKF file of a document has: its id is made from it
  Declares,   \* contents in which a structured source states its items' status
  Request,
  MaxJobs     \* bound on the jobs begun

ASSUME ContentAssumption ==
  /\ None \notin Content /\ "edited" \notin Content /\ None # "edited"
  /\ Imported \in Content /\ Declares \subseteq Content
  /\ Titles \in [Content -> SUBSET Title]
  /\ Links \in [Content -> SUBSET (Title \X Title)]
  /\ \A c \in Content : Links[c] \subseteq Titles[c] \X Titles[c]

Own == Doc \X {"own"}
Art == Doc \X {"own", "copy"}
Copy(a) == <<a[1], "copy">>
Key == Art \X Title
Of(a) == {k \in Key : k[1] = a}
Extraction == {"text", "document", "transcript", "structured", "import", "reextract"}
Verdict == {"pending", "accepted", "rejected"}

VARIABLES
  content, summary,   \* by artifact: its content, and the content its summary is of
  items,              \* the stored items
  text,               \* the content an item's details come from, or "edited"
  review,             \* review_status
  declared,           \* whether declared_status is set
  vector,             \* the content its embedding was computed from
  contains, linked,   \* CONTAINS edges by item; LINK edges
  kind, art, new, found, seen, step,  \* each request's job, what it read, and how far it is
  clean,              \* history: no other commit met the job, and every model answered
  jobs

store == <<content, summary, items, text, review, declared, vector, contains, linked>>
job == <<kind, art, new, found, seen>>
vars == <<store, job, step, clean, jobs>>

Init ==
  /\ content = [a \in Art |-> None] /\ summary = [a \in Art |-> None]
  /\ items = {} /\ contains = {} /\ linked = {}
  /\ text = [k \in Key |-> None] /\ vector = [k \in Key |-> None]
  /\ review = [k \in Key |-> "pending"] /\ declared = [k \in Key |-> FALSE]
  /\ kind = [r \in Request |-> "text"] /\ art \in [Request -> Own]
  /\ new = [r \in Request |-> None] /\ found = [r \in Request |-> {}]
  /\ seen = [r \in Request |-> None]
  /\ step = [r \in Request |-> "done"] /\ clean = [r \in Request |-> FALSE]
  /\ jobs = 0

-----------------------------------------------------------------------------
(* Requests: what they read, before their first transaction.               *)

Begin(r, k, a, v, f, s) ==
  /\ step[r] \in {"done", "failed"} /\ jobs < MaxJobs
  /\ jobs' = jobs + 1
  /\ kind' = [kind EXCEPT ![r] = k]
  /\ art' = [art EXCEPT ![r] = a]
  /\ new' = [new EXCEPT ![r] = v]
  /\ found' = [found EXCEPT ![r] = f]
  /\ seen' = [seen EXCEPT ![r] = s]
  /\ step' = [step EXCEPT ![r] = "checked"]
  /\ clean' = [clean EXCEPT ![r] = TRUE]
  /\ UNCHANGED store

\* Mutated form: an entry without a title becomes an item.
FoundUntitled(k, v) == IF k = "document" THEN SUBSET (Titles[v] \union {None}) ELSE {Titles[v]}

\* Regular expressions find what they find; a model's answer may hold any part of it.
FoundIn(k, v) == IF k \in {"document", "transcript"} THEN SUBSET Titles[v] ELSE {Titles[v]}

\* Sources: entered text, an uploaded or fetched document, a transcript or message, an ADR whose
\* entries are stated, an OKF file.
Ingest(r, k, v) == \E a \in Own : \E f \in FoundIn(k, v) : Begin(r, k, a, v, f, None)
IngestText(r) == \E v \in Content : Ingest(r, "text", v)
IngestDocument(r) == \E v \in Content : Ingest(r, "document", v)
IngestTranscript(r) == \E v \in Content : Ingest(r, "transcript", v)
IngestStructured(r) == \E v \in Content : Ingest(r, "structured", v)
ImportOkf(r) == Ingest(r, "import", Imported)
BeginIngest(r) ==
  IngestText(r) \/ IngestDocument(r) \/ IngestTranscript(r) \/ IngestStructured(r) \/ ImportOkf(r)

\* An artifact is found, and its new content extracted from; or it is to be shared or deleted.
BeginReextract(r) == \E a \in Art, v \in Content :
  content[a] # None /\ Begin(r, "reextract", a, v, Titles[v], None)

BeginShare(r) == \E a \in Own :
  content[a] # None /\ Begin(r, "share", a, content[a], {}, summary[a])

BeginDelete(r) == \E a \in Art :
  content[a] # None /\ Begin(r, "delete", a, None, {}, None)

\* An item is found, to be reviewed, edited or deleted.
BeginItem(r) == \E i \in items, k \in {"review", "edit", "drop"} :
  Begin(r, k, i[1], None, {i[2]}, None)

-----------------------------------------------------------------------------
(* Transactions.                                                           *)

\* A commit meets the other jobs on the same artifacts.
Meets(r, arts) == clean' =
  [q \in Request |-> /\ clean[q]
                     /\ q = r \/ (art[q] \notin arts /\ (kind[q] = "share" => Copy(art[q]) \notin arts))]

Goes(r, s) == step' = [step EXCEPT ![r] = s] /\ UNCHANGED <<job, jobs>>

Found(r) == {art[r]} \X found[r]

\* The artifact's row is made, or its mutable fields are refreshed; its summary stays.
Stored(a, v) == content' = [content EXCEPT ![a] = v]
Summarised(a, v) == summary' = IF content[a] # None THEN [summary EXCEPT ![a] = v] ELSE summary

\* The missing edges of one artifact's items are made.
Contained(gone, kept) == contains' = (contains \ gone) \union kept

\* Vertices that go take their edges along.
LinksWithout(gone) == {l \in linked : {<<l[1], l[2]>>, <<l[1], l[3]>>} \cap gone = {}}
Without(gone) ==
  /\ Contained(gone, {})
  /\ linked' = LinksWithout(gone)

\* Mutated form: a refreshed row is reviewed afresh.
UpsertedAfresh(gone, kept, v, start) ==
  /\ items' = (items \ gone) \union kept
  /\ text' = [k \in Key |-> IF k \in kept THEN v ELSE IF k \in gone THEN None ELSE text[k]]
  /\ review' = [k \in Key |-> IF k \in kept THEN start ELSE IF k \in gone THEN "pending" ELSE review[k]]
  /\ declared' = [k \in Key |-> k \notin gone /\ declared[k]]
  /\ vector' = [k \in Key |-> IF k \in gone THEN None ELSE vector[k]]

\* An existing row keeps its review state; a new one starts with what its source says of it.
Upserted(gone, kept, v, start) ==
  /\ items' = (items \ gone) \union kept
  /\ text' = [k \in Key |-> IF k \in kept THEN v ELSE IF k \in gone THEN None ELSE text[k]]
  /\ review' = [k \in Key |-> IF k \in kept \ items THEN start
                              ELSE IF k \in gone THEN "pending" ELSE review[k]]
  /\ declared' = [k \in Key |-> k \notin gone /\ declared[k]]
  /\ vector' = [k \in Key |-> IF k \in gone THEN None ELSE vector[k]]

\* Mutated form: items the new content no longer has are kept.
PersistKeeping(r) ==
  /\ step[r] = "checked" /\ kind[r] \in Extraction
  /\ Stored(art[r], new[r])
  /\ Upserted({}, Found(r), new[r], IF kind[r] = "structured" THEN "accepted" ELSE "pending")
  /\ Contained({}, Found(r))
  /\ Meets(r, {art[r]})
  /\ Goes(r, IF kind[r] \in {"structured", "import"} THEN "persisted" ELSE "indexing")
  /\ UNCHANGED <<summary, linked>>

\* persist_artifact: the artifact, its items, their edges and statuses, in one transaction.
Persist(r) ==
  LET a == art[r] gone == (items \cap Of(a)) \ Found(r)
  IN  /\ step[r] = "checked" /\ kind[r] \in Extraction
      /\ Stored(a, new[r])
      /\ Upserted(gone, Found(r), new[r], IF kind[r] = "structured" THEN "accepted" ELSE "pending")
      /\ Contained(gone, Found(r))
      /\ linked' = LinksWithout(gone)
      /\ Meets(r, {a})
      /\ Goes(r, IF kind[r] \in {"structured", "import"} THEN "persisted" ELSE "indexing")
      /\ UNCHANGED summary

\* A structured source's own statuses, and an import's links, follow in a second transaction.
Declare(r) ==
  /\ step[r] = "persisted" /\ kind[r] = "structured"
  /\ declared' = [k \in Key |-> declared[k] \/ (new[r] \in Declares /\ k \in Found(r) \cap items)]
  /\ Meets(r, IF new[r] \in Declares THEN {art[r]} ELSE {})
  /\ Goes(r, "indexing")
  /\ UNCHANGED <<content, summary, items, text, review, vector, contains, linked>>

Linkable(r) == {<<art[r], p[1], p[2]>> : p \in
  {q \in Links[new[r]] : {<<art[r], q[1]>>, <<art[r], q[2]>>} \subseteq items}}

LinkImported(r) ==
  /\ step[r] = "persisted" /\ kind[r] = "import"
  /\ linked' = linked \union Linkable(r)
  /\ Meets(r, {art[r]})
  /\ Goes(r, "indexing")
  /\ UNCHANGED <<content, summary, items, text, review, declared, vector, contains>>

\* Mutated form: only items without a vector are embedded.
EmbedNew(r) ==
  /\ step[r] = "indexing"
  /\ vector' = [k \in Key |-> IF k \in Found(r) \cap items /\ vector[k] = None THEN new[r] ELSE vector[k]]
  /\ Meets(r, {art[r]})
  /\ Goes(r, IF kind[r] = "reextract" THEN "done" ELSE "summarising")
  /\ UNCHANGED <<content, summary, items, text, review, declared, contains, linked>>

\* embed_and_store: vectors of the items as they were extracted, for those still there.
Embed(r) ==
  /\ step[r] = "indexing"
  /\ vector' = [k \in Key |-> IF k \in Found(r) \cap items THEN new[r] ELSE vector[k]]
  /\ Meets(r, {art[r]})
  /\ Goes(r, IF kind[r] = "reextract" THEN "done" ELSE "summarising")
  /\ UNCHANGED <<content, summary, items, text, review, declared, contains, linked>>

Summarise(r) ==
  /\ step[r] = "summarising"
  /\ Summarised(art[r], new[r])
  /\ Meets(r, {art[r]})
  /\ Goes(r, "done")
  /\ UNCHANGED <<content, items, text, review, declared, vector, contains, linked>>

\* No embedding model answers: nothing is stored, and the job goes on.  (A summary is the start of
\* the text when no language model answers.)
ModelSilent(r) ==
  /\ step[r] = "indexing"
  /\ Goes(r, IF kind[r] = "reextract" THEN "done" ELSE "summarising")
  /\ clean' = [clean EXCEPT ![r] = FALSE]
  /\ UNCHANGED store

\* copy_artifact: the artifact as it was read, its items as they are now, with their review state.
Share(r) ==
  LET a == art[r] c == Copy(a)
      from(k) == <<a, k[2]>>
      kept == {k \in Of(c) : from(k) \in items}
  IN  /\ step[r] = "checked" /\ kind[r] = "share"
      /\ Stored(c, new[r])
      /\ summary' = IF seen[r] # None THEN [summary EXCEPT ![c] = seen[r]] ELSE summary
      /\ items' = (items \ Of(c)) \union kept
      /\ text' = [k \in Key |-> IF k \in Of(c) THEN text[from(k)] ELSE text[k]]
      /\ review' = [k \in Key |-> IF k \in Of(c) THEN review[from(k)] ELSE review[k]]
      /\ declared' = [k \in Key |-> IF k \in Of(c) THEN declared[from(k)] ELSE declared[k]]
      /\ vector' = [k \in Key |-> IF k \in kept /\ vector[from(k)] = None /\ k \in items THEN vector[k]
                                  ELSE IF k \in Of(c) THEN vector[from(k)] ELSE vector[k]]
      /\ Contained(Of(c), kept)
      /\ linked' = {l \in linked : l[1] = c => {<<c, l[2]>>, <<c, l[3]>>} \subseteq kept}
      /\ Meets(r, {c})
      /\ Goes(r, "done")

\* Mutated form: the artifact goes, its items stay.
DeleteAlone(r) ==
  /\ step[r] = "checked" /\ kind[r] = "delete"
  /\ content' = [content EXCEPT ![art[r]] = None]
  /\ summary' = [summary EXCEPT ![art[r]] = None]
  /\ Meets(r, {art[r]})
  /\ Goes(r, "done")
  /\ UNCHANGED <<items, text, review, declared, vector, contains, linked>>

\* delete_cascade: the artifact and its items.
Delete(r) ==
  LET a == art[r]
  IN  /\ step[r] = "checked" /\ kind[r] = "delete"
      /\ content' = [content EXCEPT ![a] = None]
      /\ summary' = [summary EXCEPT ![a] = None]
      /\ Upserted(Of(a), {}, None, "pending")
      /\ Without(Of(a))
      /\ Meets(r, {a})
      /\ Goes(r, "done")

\* A review, which may edit too, an edit or a deletion of an item: on the row that is there, if it
\* still is.
Review(r) == \E verdict \in {"accepted", "rejected"}, edits \in SUBSET Found(r) :
  /\ step[r] = "checked" /\ kind[r] = "review"
  /\ review' = [k \in Key |-> IF k \in Found(r) \cap items THEN verdict ELSE review[k]]
  /\ text' = [k \in Key |-> IF k \in edits \cap items THEN "edited" ELSE text[k]]
  /\ Meets(r, {art[r]}) /\ Goes(r, "done")
  /\ UNCHANGED <<content, summary, items, declared, vector, contains, linked>>

Edit(r) ==
  /\ step[r] = "checked" /\ kind[r] = "edit"
  /\ text' = [k \in Key |-> IF k \in Found(r) \cap items THEN "edited" ELSE text[k]]
  /\ Meets(r, {art[r]}) /\ Goes(r, "done")
  /\ UNCHANGED <<content, summary, items, review, declared, vector, contains, linked>>

Drop(r) ==
  /\ step[r] = "checked" /\ kind[r] = "drop"
  /\ Upserted(Found(r), {}, None, "pending")
  /\ Without(Found(r))
  /\ Meets(r, {art[r]}) /\ Goes(r, "done")
  /\ UNCHANGED <<content, summary>>

\* An error, a conflict or the end of the process: what was committed stays.
Fails(r) ==
  /\ step[r] \notin {"done", "failed"}
  /\ Goes(r, "failed")
  /\ UNCHANGED <<store, clean>>

Transaction(r) ==
  \/ Persist(r) \/ Declare(r) \/ LinkImported(r) \/ Embed(r) \/ Summarise(r)
  \/ Share(r) \/ Delete(r) \/ Review(r) \/ Edit(r) \/ Drop(r)

Next == \E r \in Request :
  \/ BeginIngest(r) \/ BeginReextract(r) \/ BeginShare(r) \/ BeginDelete(r) \/ BeginItem(r)
  \/ Transaction(r) \/ ModelSilent(r) \/ Fails(r)

Spec == Init /\ [][Next]_vars

-----------------------------------------------------------------------------
(* Properties.                                                             *)

\* Every variable has its declared type.
TypeOK ==
  /\ content \in [Art -> Content \union {None}] /\ summary \in [Art -> Content \union {None}]
  /\ items \subseteq Key
  /\ text \in [Key -> Content \union {None, "edited"}] /\ vector \in [Key -> Content \union {None, "edited"}]
  /\ review \in [Key -> Verdict] /\ declared \in [Key -> BOOLEAN]
  /\ contains \subseteq Key /\ linked \subseteq Art \X Title \X Title
  /\ kind \in [Request -> Extraction \union {"share", "delete", "review", "edit", "drop"}]
  /\ art \in [Request -> Art] /\ new \in [Request -> Content \union {None}]
  /\ found \in [Request -> SUBSET Title] /\ seen \in [Request -> Content \union {None}]
  /\ step \in [Request -> {"done", "failed", "checked", "persisted", "indexing", "summarising"}]
  /\ clean \in [Request -> BOOLEAN] /\ jobs \in Nat

\* Whatever fails or overlaps, an item's artifact is stored and contains it, and no edge is left
\* without its ends: late transactions of a job never bring back half of what was deleted.
ItemsBelong ==
  /\ \A k \in items : content[k[1]] # None
  /\ contains = items
  /\ \A l \in linked : {<<l[1], l[2]>>, <<l[1], l[3]>>} \subseteq items

\* An item of the space's own artifacts says what the stored content says, or what a person wrote
\* over it: overlapping extractions of two versions never leave items of both.
ItemsFollowContent ==
  \A k \in items : k[1] \in Own => text[k] \in {content[k[1]], "edited"}

\* A review decision on an item stays through re-extractions, re-syncs and failures, as long as
\* the item does; only a review, or sharing onto a copy, sets it (knowledge_items.py:66-72).
ReviewSurvives ==
  [][\A k \in items \cap items' : review'[k] # review[k] =>
       \E r \in Request : (Review(r) /\ k \in Found(r)) \/ (Share(r) /\ k[1] = Copy(art[r]))]_vars

Indexed(r) ==
  /\ items \cap Of(art[r]) = Found(r)
  /\ \A k \in Found(r) : text[k] = new[r] /\ vector[k] = new[r]
  /\ kind[r] = "structured" /\ new[r] \in Declares => \A k \in Found(r) : declared[k]
  /\ kind[r] = "import" => {<<art[r], p[1], p[2]>> : p \in Links[new[r]]} \subseteq linked
  /\ kind[r] # "reextract" => summary[art[r]] = new[r]

Copied(r) ==
  LET a == art[r] c == Copy(a)
  IN  /\ content[c] = content[a]
      /\ \A t \in Title : <<c, t>> \in items <=> <<a, t>> \in items
      /\ \A t \in Title : <<a, t>> \in items =>
           /\ text[<<c, t>>] = text[<<a, t>>] /\ review[<<c, t>>] = review[<<a, t>>]
           /\ declared[<<c, t>>] = declared[<<a, t>>]
           /\ vector[<<a, t>>] # None => vector[<<c, t>>] = vector[<<a, t>>]

\* A job that ends, met by no other commit and with models that answered, leaves everything it
\* promises, whatever earlier jobs failed half-way: repeating a call repairs what a failure left.
JobsComplete ==
  [][\A r \in Request :
       step[r] \notin {"done", "failed"} /\ step'[r] = "done" /\ clean[r] /\ clean'[r] =>
         /\ kind[r] \in Extraction => content'[art[r]] = new[r] /\ Indexed(r)'
         /\ kind[r] = "share" => Copied(r)'
         /\ kind[r] = "delete" => content'[art[r]] = None /\ items' \cap Of(art[r]) = {}]_vars
=============================================================================
