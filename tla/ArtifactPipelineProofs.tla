----------------------- MODULE ArtifactPipelineProofs -----------------------
(***************************************************************************)
(* What ArtifactPipeline guarantees for any documents, contents, titles,   *)
(* requests and number of jobs.                                            *)
(***************************************************************************)
EXTENDS ArtifactPipeline, TLAPS

-----------------------------------------------------------------------------
(* The invariant.                                                          *)

Running(r) == step[r] \notin {"done", "failed"}

\* What a request that runs has read and has yet to do.
JobInv == \A r \in Request : Running(r) =>
  /\ kind[r] \in Extraction \union {"share"} => new[r] \in Content
  /\ kind[r] = "share" => art[r] \in Own
  /\ step[r] # "checked" => kind[r] \in Extraction

StoreInv == TypeOK /\ JobInv /\ ItemsBelong /\ ItemsFollowContent

-----------------------------------------------------------------------------
(* Keys.                                                                   *)

LEMMA Keys ==
  /\ Own \subseteq Art
  /\ \A a \in Own : Copy(a) \in Art /\ Copy(a) \notin Own
  /\ \A k \in Key : k[1] \in Art /\ k[2] \in Title /\ k = <<k[1], k[2]>>
  /\ \A a \in Art : Of(a) \subseteq Key /\ \A k \in Of(a) : k[1] = a
  /\ \A a \in Art : \A t \in Title : <<a, t>> \in Of(a)
  /\ None \notin Content
BY ContentAssumption DEF Own, Art, Copy, Key, Of

\* The keys of what a request found are those of its artifact.
LEMMA FoundKeys ==
  ASSUME TypeOK, NEW r \in Request
  PROVE  art[r] \in Art /\ Found(r) \subseteq Of(art[r]) /\ Found(r) \subseteq Key /\ Of(art[r]) \subseteq Key
<1>1. art[r] \in Art /\ found[r] \subseteq Title
  BY DEF TypeOK
<1> QED BY <1>1 DEF Found, Of, Key

-----------------------------------------------------------------------------
(* Types.                                                                  *)

LEMMA InitStore == Init => StoreInv
BY Keys DEF Init, StoreInv, TypeOK, JobInv, Running, ItemsBelong, ItemsFollowContent, Extraction, Verdict

\* A job begins: the store stays, and its own part has the types of what was read.
LEMMA BegunJob ==
  ASSUME StoreInv, NEW r \in Request, NEW k \in Extraction \union {"share", "delete", "review", "edit", "drop"},
         NEW a \in Art, NEW v \in Content \union {None}, NEW f \in SUBSET Title, NEW s \in Content \union {None},
         Begin(r, k, a, v, f, s), k \in Extraction \union {"share"} => v \in Content, k = "share" => a \in Own
  PROVE  StoreInv'
<1>1. TypeOK'
  BY DEF Begin, store, StoreInv, TypeOK
<1>2. JobInv'
  BY DEF Begin, StoreInv, TypeOK, JobInv, Running
<1>3. ItemsBelong' /\ ItemsFollowContent'
  BY DEF Begin, store, StoreInv, ItemsBelong, ItemsFollowContent
<1> QED BY <1>1, <1>2, <1>3 DEF StoreInv

LEMMA Begins ==
  ASSUME StoreInv, NEW r \in Request,
         BeginIngest(r) \/ BeginReextract(r) \/ BeginShare(r) \/ BeginDelete(r) \/ BeginItem(r)
  PROVE  StoreInv'
<1>1. CASE BeginIngest(r)
  <2>1. PICK k \in {"text", "document", "transcript", "structured", "import"}, v \in Content : Ingest(r, k, v)
    BY <1>1, ContentAssumption DEF BeginIngest, IngestText, IngestDocument, IngestTranscript, IngestStructured, ImportOkf
  <2>2. PICK a \in Own, f \in FoundIn(k, v) : Begin(r, k, a, v, f, None)
    BY <2>1 DEF Ingest
  <2>3. f \in SUBSET Title /\ a \in Art /\ k \in Extraction
    BY <2>1, <2>2, ContentAssumption, Keys DEF FoundIn, Extraction
  <2> QED BY <2>2, <2>3, BegunJob DEF Extraction
<1>2. CASE BeginReextract(r)
  <2>1. PICK a \in Art, v \in Content : Begin(r, "reextract", a, v, Titles[v], None)
    BY <1>2 DEF BeginReextract
  <2>2. Titles[v] \in SUBSET Title /\ "reextract" \in Extraction
    BY ContentAssumption DEF Extraction
  <2> QED BY <2>1, <2>2, BegunJob
<1>3. CASE BeginShare(r)
  <2>1. PICK a \in Own : content[a] # None /\ Begin(r, "share", a, content[a], {}, summary[a])
    BY <1>3 DEF BeginShare
  <2>2. a \in Art /\ content[a] \in Content /\ summary[a] \in Content \union {None}
    BY <2>1, Keys DEF StoreInv, TypeOK
  <2> QED BY <2>1, <2>2, BegunJob
<1>4. CASE BeginDelete(r)
  <2>1. PICK a \in Art : Begin(r, "delete", a, None, {}, None)
    BY <1>4 DEF BeginDelete
  <2>2. "delete" \notin Extraction
    BY DEF Extraction
  <2> QED BY <2>1, <2>2, BegunJob
<1>5. CASE BeginItem(r)
  <2>1. PICK i \in items, k \in {"review", "edit", "drop"} : Begin(r, k, i[1], None, {i[2]}, None)
    BY <1>5 DEF BeginItem
  <2>2. i[1] \in Art /\ {i[2]} \in SUBSET Title /\ k \notin Extraction
    BY <2>1, Keys DEF StoreInv, TypeOK, Extraction
  <2> QED BY <2>1, <2>2, BegunJob
<1> QED BY <1>1, <1>2, <1>3, <1>4, <1>5

\* How far a job is, after one of its transactions.
LEMMA WentOn ==
  ASSUME StoreInv, NEW r \in Request, NEW arts, Goes(r, step'[r]), Running(r), Meets(r, arts),
         step'[r] \in {"done", "persisted", "indexing", "summarising"},
         step'[r] = "done" \/ kind[r] \in Extraction
  PROVE  /\ JobInv' /\ UNCHANGED <<kind, art, new, found, seen, jobs>>
         /\ step' \in [Request -> {"done", "failed", "checked", "persisted", "indexing", "summarising"}]
         /\ clean' \in [Request -> BOOLEAN]
<1>1. UNCHANGED <<kind, art, new, found, seen, jobs>>
  BY DEF Goes, job
<1>2. step' = [step EXCEPT ![r] = step'[r]]
  BY DEF Goes
<1>3. step' \in [Request -> {"done", "failed", "checked", "persisted", "indexing", "summarising"}]
  BY <1>2 DEF StoreInv, TypeOK
<1>4. clean' \in [Request -> BOOLEAN]
  BY DEF Meets, StoreInv, TypeOK
<1>5. JobInv'
  BY <1>1, <1>2 DEF StoreInv, TypeOK, JobInv, Running
<1> QED BY <1>1, <1>3, <1>4, <1>5

\* Items come and go with their edges, and what is written of them has its types.
LEMMA UpsertedTypes ==
  ASSUME StoreInv, NEW gone \in SUBSET Key, NEW kept \in SUBSET Key, NEW v \in Content \union {None},
         NEW start \in Verdict, Upserted(gone, kept, v, start)
  PROVE  /\ items' \subseteq Key /\ text' \in [Key -> Content \union {None, "edited"}]
         /\ vector' \in [Key -> Content \union {None, "edited"}]
         /\ review' \in [Key -> Verdict] /\ declared' \in [Key -> BOOLEAN]
<1>1. items' \subseteq Key /\ text' \in [Key -> Content \union {None, "edited"}]
  BY DEF Upserted, StoreInv, TypeOK
<1>2. vector' \in [Key -> Content \union {None, "edited"}] /\ declared' \in [Key -> BOOLEAN]
  BY DEF Upserted, StoreInv, TypeOK
<1>3. review' \in [Key -> Verdict]
  BY DEF Upserted, StoreInv, TypeOK, Verdict
<1> QED BY <1>1, <1>2, <1>3

LEMMA Persists ==
  ASSUME StoreInv, NEW r \in Request, Persist(r)
  PROVE  StoreInv'
<1> DEFINE gone == (items \cap Of(art[r])) \ Found(r)
           start == IF kind[r] = "structured" THEN "accepted" ELSE "pending"
<1>1. PICK a \in Art : a = art[r]
  BY FoundKeys DEF StoreInv
<1>2. PICK v \in Content : v = new[r]
  BY DEF Persist, StoreInv, JobInv, Running
<1>3. /\ Upserted(gone, Found(r), v, start) /\ Contained(gone, Found(r))
      /\ linked' = LinksWithout(gone) /\ content' = [content EXCEPT ![a] = v] /\ summary' = summary
  BY <1>1, <1>2 DEF Persist, Stored
<1>4. /\ Found(r) \subseteq Of(a) /\ gone \subseteq Key /\ Found(r) \subseteq Key /\ start \in Verdict
      /\ gone = {k \in items : k[1] = a /\ k \notin Found(r)}
  BY <1>1, FoundKeys, Keys DEF StoreInv, TypeOK, Verdict, Of
<1>5. JobInv' /\ UNCHANGED <<kind, art, new, found, seen, jobs>>
      /\ step' \in [Request -> {"done", "failed", "checked", "persisted", "indexing", "summarising"}]
      /\ clean' \in [Request -> BOOLEAN]
  <2> DEFINE s == IF kind[r] \in {"structured", "import"} THEN "persisted" ELSE "indexing"
  <2>1. Goes(r, s) /\ Meets(r, {art[r]}) /\ kind[r] \in Extraction /\ Running(r)
    BY DEF Persist, Running
  <2>2. step'[r] = s
    BY <2>1 DEF Goes, StoreInv, TypeOK
  <2> QED BY <2>1, <2>2, WentOn
<1> HIDE DEF start
<1>6. /\ items' = (items \ gone) \union Found(r)
      /\ text' = [k \in Key |-> IF k \in Found(r) THEN v ELSE IF k \in gone THEN None ELSE text[k]]
  BY <1>3 DEF Upserted
<1>7. /\ items' \subseteq Key /\ text' \in [Key -> Content \union {None, "edited"}]
      /\ vector' \in [Key -> Content \union {None, "edited"}]
      /\ review' \in [Key -> Verdict] /\ declared' \in [Key -> BOOLEAN]
  BY <1>3, <1>4, UpsertedTypes
<1>8. contains' = (contains \ gone) \union Found(r) /\ linked' \subseteq linked
  BY <1>3 DEF Contained, LinksWithout
<1>9. TypeOK'
  BY <1>3, <1>4, <1>5, <1>7, <1>8 DEF StoreInv, TypeOK
<1>10. ItemsBelong'
  <2>1. \A k \in items' : content'[k[1]] # None
    <3>1. \A k \in items' : (k \in items /\ k[1] # a) \/ k[1] = a
      BY <1>4, <1>6 DEF Of
    <3>2. \A k \in items : k[1] \in Art
      BY Keys DEF StoreInv, TypeOK
    <3> QED BY <1>3, <3>1, <3>2, Keys DEF StoreInv, TypeOK, ItemsBelong
  <2>2. contains' = items'
    BY <1>6, <1>8 DEF StoreInv, ItemsBelong
  <2>3. \A l \in linked' : {<<l[1], l[2]>>, <<l[1], l[3]>>} \subseteq items'
    BY <1>3, <1>6 DEF LinksWithout, StoreInv, ItemsBelong
  <2> QED BY <2>1, <2>2, <2>3 DEF ItemsBelong
<1>11. ItemsFollowContent'
  <2> SUFFICES ASSUME NEW k \in items', k[1] \in Own PROVE text'[k] \in {content'[k[1]], "edited"}
    BY DEF ItemsFollowContent
  <2>1. CASE k \in Found(r)
    BY <1>3, <1>4, <1>6, <2>1 DEF Of, StoreInv, TypeOK
  <2>2. CASE k \notin Found(r)
    <3>1. k \in items /\ k \in Key /\ k \notin gone /\ k[1] # a
      BY <1>4, <1>6, <1>7, <2>2
    <3>2. text'[k] = text[k] /\ content'[k[1]] = content[k[1]]
      BY <1>3, <1>6, <2>2, <3>1, Keys DEF StoreInv, TypeOK
    <3> QED BY <3>1, <3>2 DEF StoreInv, ItemsFollowContent
  <2> QED BY <2>1, <2>2
<1> QED BY <1>5, <1>9, <1>10, <1>11 DEF StoreInv

\* Later transactions of an ingestion: statuses, links, vectors, a summary.
LEMMA Follows ==
  ASSUME StoreInv, NEW r \in Request, Declare(r) \/ LinkImported(r) \/ Embed(r) \/ Summarise(r)
  PROVE  StoreInv'
<1>1. JobInv' /\ UNCHANGED <<kind, art, new, found, seen, jobs>>
      /\ step' \in [Request -> {"done", "failed", "checked", "persisted", "indexing", "summarising"}]
      /\ clean' \in [Request -> BOOLEAN]
  <2>1. Running(r) /\ step[r] # "checked"
    BY DEF Declare, LinkImported, Embed, Summarise, Running
  <2>2. PICK s \in {"done", "indexing", "summarising"}, arts \in SUBSET Art : Goes(r, s) /\ Meets(r, arts)
    BY FoundKeys DEF Declare, LinkImported, Embed, Summarise, StoreInv
  <2>3. step'[r] = s
    BY <2>2 DEF Goes, StoreInv, TypeOK
  <2>4. kind[r] \in Extraction
    BY <2>1 DEF StoreInv, JobInv
  <2> QED BY <2>1, <2>2, <2>3, <2>4, WentOn
<1>2. new[r] \in Content /\ art[r] \in Art
  BY FoundKeys DEF Declare, LinkImported, Embed, Summarise, StoreInv, JobInv, Running
<1>3. UNCHANGED <<content, items, text, review, contains>>
  BY DEF Declare, LinkImported, Embed, Summarise
<1>4. summary' \in [Art -> Content \union {None}] /\ declared' \in [Key -> BOOLEAN]
  BY <1>2 DEF Declare, LinkImported, Embed, Summarise, Summarised, StoreInv, TypeOK
<1>5. vector' \in [Key -> Content \union {None, "edited"}]
  BY <1>2 DEF Declare, LinkImported, Embed, Summarise, StoreInv, TypeOK
<1>6. linked' \subseteq linked \union Linkable(r)
  BY DEF Declare, LinkImported, Embed, Summarise
<1>7. /\ Linkable(r) \subseteq Art \X Title \X Title
      /\ \A l \in Linkable(r) : {<<l[1], l[2]>>, <<l[1], l[3]>>} \subseteq items
  <2> SUFFICES ASSUME NEW l \in Linkable(r)
               PROVE  l \in Art \X Title \X Title /\ {<<l[1], l[2]>>, <<l[1], l[3]>>} \subseteq items
    OBVIOUS
  <2>1. PICK p \in Links[new[r]] : l = <<art[r], p[1], p[2]>> /\ {<<art[r], p[1]>>, <<art[r], p[2]>>} \subseteq items
    BY DEF Linkable
  <2>2. p[1] \in Title /\ p[2] \in Title
    BY <1>2, <2>1, ContentAssumption
  <2> QED BY <1>2, <2>1, <2>2
<1>8. TypeOK'
  BY <1>1, <1>3, <1>4, <1>5, <1>6, <1>7 DEF StoreInv, TypeOK
<1>9. ItemsBelong' /\ ItemsFollowContent'
  BY <1>3, <1>6, <1>7 DEF StoreInv, ItemsBelong, ItemsFollowContent
<1> QED BY <1>1, <1>8, <1>9 DEF StoreInv

LEMMA Shares ==
  ASSUME StoreInv, NEW r \in Request, Share(r)
  PROVE  StoreInv'
<1>1. PICK a \in Own : a = art[r]
  BY DEF Share, StoreInv, JobInv, Running
<1>2. PICK c \in Art : c = Copy(a)
  BY Keys
<1>3. PICK kept \in SUBSET Of(c) : kept = {k \in Of(c) : <<a, k[2]>> \in items}
  OBVIOUS
<1>4. a \in Art /\ c \notin Own /\ Of(c) \subseteq Key /\ new[r] \in Content
      /\ \A k \in Of(c) : k[1] = c /\ <<a, k[2]>> \in Key
  <2>1. \A k \in Of(c) : k[2] \in Title
    BY Keys
  <2> QED BY <1>1, <1>2, <2>1, Keys DEF Share, StoreInv, JobInv, Running
<1>5. JobInv' /\ UNCHANGED <<kind, art, new, found, seen, jobs>>
      /\ step' \in [Request -> {"done", "failed", "checked", "persisted", "indexing", "summarising"}]
      /\ clean' \in [Request -> BOOLEAN]
  <2>1. Goes(r, "done") /\ Meets(r, {c}) /\ Running(r)
    BY <1>1, <1>2 DEF Share, Running
  <2>2. step'[r] = "done"
    BY <2>1 DEF Goes, StoreInv, TypeOK
  <2> QED BY <2>1, <2>2, WentOn
<1>6. /\ content' = [content EXCEPT ![c] = new[r]]
      /\ summary' = IF seen[r] # None THEN [summary EXCEPT ![c] = seen[r]] ELSE summary
      /\ items' = (items \ Of(c)) \union kept
      /\ contains' = (contains \ Of(c)) \union kept
      /\ linked' = {l \in linked : l[1] = c => {<<c, l[2]>>, <<c, l[3]>>} \subseteq kept}
  BY <1>1, <1>2, <1>3 DEF Share, Stored, Contained
<1>7. /\ text' = [k \in Key |-> IF k \in Of(c) THEN text[<<a, k[2]>>] ELSE text[k]]
      /\ review' = [k \in Key |-> IF k \in Of(c) THEN review[<<a, k[2]>>] ELSE review[k]]
      /\ declared' = [k \in Key |-> IF k \in Of(c) THEN declared[<<a, k[2]>>] ELSE declared[k]]
      /\ vector' = [k \in Key |-> IF k \in kept /\ vector[<<a, k[2]>>] = None /\ k \in items THEN vector[k]
                                  ELSE IF k \in Of(c) THEN vector[<<a, k[2]>>] ELSE vector[k]]
  BY <1>1, <1>2, <1>3 DEF Share
<1>8. TypeOK'
  <2>1. content' \in [Art -> Content \union {None}] /\ summary' \in [Art -> Content \union {None}]
    BY <1>4, <1>6 DEF StoreInv, TypeOK
  <2>2. items' \subseteq Key /\ contains' \subseteq Key /\ linked' \subseteq Art \X Title \X Title
    BY <1>4, <1>6 DEF StoreInv, TypeOK
  <2>3. /\ text' \in [Key -> Content \union {None, "edited"}] /\ vector' \in [Key -> Content \union {None, "edited"}]
        /\ review' \in [Key -> Verdict] /\ declared' \in [Key -> BOOLEAN]
    BY <1>4, <1>7 DEF StoreInv, TypeOK
  <2> QED BY <1>5, <2>1, <2>2, <2>3 DEF StoreInv, TypeOK
<1>9. ItemsBelong'
  <2>1. \A k \in items' : content'[k[1]] # None
    <3>1. \A k \in items' : k[1] = c \/ (k \in items /\ k[1] # c)
      BY <1>4, <1>6 DEF StoreInv, TypeOK, Of
    <3>2. \A k \in items : k[1] \in Art
      BY Keys DEF StoreInv, TypeOK
    <3> QED BY <1>4, <1>6, <3>1, <3>2, Keys DEF StoreInv, TypeOK, ItemsBelong
  <2>2. contains' = items'
    BY <1>6 DEF StoreInv, ItemsBelong
  <2>3. ASSUME NEW l \in linked' PROVE {<<l[1], l[2]>>, <<l[1], l[3]>>} \subseteq items'
    <3>1. {<<l[1], l[2]>>, <<l[1], l[3]>>} \subseteq items
      BY <1>6, <2>3 DEF StoreInv, ItemsBelong
    <3>2. CASE l[1] = c
      BY <1>6, <2>3, <3>2
    <3>3. CASE l[1] # c
      <4>1. \A x : <<l[1], x>> \notin Of(c)
        BY <1>4, <3>3
      <4> QED BY <1>6, <3>1, <4>1
    <3> QED BY <3>2, <3>3
  <2> QED BY <2>1, <2>2, <2>3 DEF ItemsBelong
<1>10. ItemsFollowContent'
  <2> SUFFICES ASSUME NEW k \in items', k[1] \in Own PROVE text'[k] \in {content'[k[1]], "edited"}
    BY DEF ItemsFollowContent
  <2>1. k \in items /\ k \in Key /\ k \notin Of(c) /\ k[1] # c
    BY <1>4, <1>6 DEF StoreInv, TypeOK
  <2>2. text'[k] = text[k] /\ content'[k[1]] = content[k[1]]
    BY <1>6, <1>7, <2>1, Keys DEF StoreInv, TypeOK
  <2> QED BY <2>1, <2>2 DEF StoreInv, ItemsFollowContent
<1> QED BY <1>5, <1>8, <1>9, <1>10 DEF StoreInv

\* Items go with their edges: a deleted artifact's, or one.
LEMMA Goings ==
  ASSUME StoreInv, NEW r \in Request, Delete(r) \/ Drop(r)
  PROVE  StoreInv'
<1>1. PICK a \in Art : a = art[r]
  BY FoundKeys DEF StoreInv
<1>2. PICK gone \in SUBSET Key : Upserted(gone, {}, None, "pending") /\ Without(gone)
                                 /\ (Drop(r) \/ (Delete(r) /\ gone = Of(a)))
  <2>1. CASE Delete(r)
    <3>1. Of(a) \in SUBSET Key /\ Upserted(Of(a), {}, None, "pending") /\ Without(Of(a))
      BY <1>1, <2>1, FoundKeys DEF Delete, StoreInv
    <3> QED BY <2>1, <3>1
  <2>2. CASE Drop(r)
    <3>1. Found(r) \in SUBSET Key /\ Upserted(Found(r), {}, None, "pending") /\ Without(Found(r))
      BY <2>2, FoundKeys DEF Drop, StoreInv
    <3> QED BY <2>2, <3>1
  <2> QED BY <2>1, <2>2
<1>3. /\ content' = content \/ (content' = [content EXCEPT ![a] = None] /\ gone = Of(a))
      /\ summary' \in [Art -> Content \union {None}]
  BY <1>1, <1>2 DEF Delete, Drop, StoreInv, TypeOK
<1>4. JobInv' /\ UNCHANGED <<kind, art, new, found, seen, jobs>>
      /\ step' \in [Request -> {"done", "failed", "checked", "persisted", "indexing", "summarising"}]
      /\ clean' \in [Request -> BOOLEAN]
  <2>1. Goes(r, "done") /\ Meets(r, {art[r]}) /\ Running(r)
    BY DEF Delete, Drop, Running
  <2>2. step'[r] = "done"
    BY <2>1 DEF Goes, StoreInv, TypeOK
  <2> QED BY <2>1, <2>2, WentOn
<1>5. /\ items' = items \ gone /\ contains' = contains \ gone
      /\ linked' = {l \in linked : {<<l[1], l[2]>>, <<l[1], l[3]>>} \cap gone = {}}
      /\ text' = [k \in Key |-> IF k \in gone THEN None ELSE text[k]]
  BY <1>2 DEF Upserted, Without, Contained, LinksWithout
<1>6. /\ items' \subseteq Key /\ text' \in [Key -> Content \union {None, "edited"}]
      /\ vector' \in [Key -> Content \union {None, "edited"}]
      /\ review' \in [Key -> Verdict] /\ declared' \in [Key -> BOOLEAN]
  BY <1>2, UpsertedTypes DEF Verdict
<1>7. TypeOK'
  BY <1>3, <1>4, <1>5, <1>6 DEF StoreInv, TypeOK
<1>8. \A k \in items' : k \in items /\ k \in Key /\ content'[k[1]] = content[k[1]] /\ text'[k] = text[k]
  <2> SUFFICES ASSUME NEW k \in items' PROVE k \in items /\ k \in Key /\ content'[k[1]] = content[k[1]] /\ text'[k] = text[k]
    OBVIOUS
  <2>1. k \in items /\ k \notin gone /\ k \in Key
    BY <1>5 DEF StoreInv, TypeOK
  <2>2. gone = Of(a) => k[1] # a
    BY <2>1 DEF Of
  <2> QED BY <1>3, <1>5, <2>1, <2>2, Keys DEF StoreInv, TypeOK
<1>9. ItemsBelong' /\ ItemsFollowContent'
  BY <1>5, <1>8 DEF StoreInv, ItemsBelong, ItemsFollowContent
<1> QED BY <1>4, <1>7, <1>9 DEF StoreInv

\* A person's review or edit of an item.
LEMMA Changes ==
  ASSUME StoreInv, NEW r \in Request, Review(r) \/ Edit(r)
  PROVE  StoreInv'
<1>1. JobInv' /\ UNCHANGED <<kind, art, new, found, seen, jobs>>
      /\ step' \in [Request -> {"done", "failed", "checked", "persisted", "indexing", "summarising"}]
      /\ clean' \in [Request -> BOOLEAN]
  <2>1. Goes(r, "done") /\ Meets(r, {art[r]}) /\ Running(r)
    BY DEF Review, Edit, Running
  <2>2. step'[r] = "done"
    BY <2>1 DEF Goes, StoreInv, TypeOK
  <2> QED BY <2>1, <2>2, WentOn
<1>2. UNCHANGED <<content, summary, items, declared, vector, contains, linked>>
  BY DEF Review, Edit
<1>3. review' \in [Key -> Verdict] /\ text' \in [Key -> Content \union {None, "edited"}]
      /\ \A k \in Key : text'[k] \in {text[k], "edited"}
  BY DEF Review, Edit, StoreInv, TypeOK, Verdict
<1>4. TypeOK'
  BY <1>1, <1>2, <1>3 DEF StoreInv, TypeOK
<1>5. ItemsBelong' /\ ItemsFollowContent'
  BY <1>2, <1>3 DEF StoreInv, TypeOK, ItemsBelong, ItemsFollowContent
<1> QED BY <1>1, <1>4, <1>5 DEF StoreInv

LEMMA NextStore == StoreInv /\ [Next]_vars => StoreInv'
<1> SUFFICES ASSUME StoreInv, [Next]_vars PROVE StoreInv'
  OBVIOUS
<1>1. ASSUME NEW r \in Request, ModelSilent(r) \/ Fails(r) PROVE StoreInv'
  <2>1. /\ UNCHANGED <<store, job, jobs>> /\ Running(r) /\ clean' \in [Request -> BOOLEAN]
        /\ step' \in {[step EXCEPT ![r] = s] : s \in {"failed", "done", "summarising"}}
        /\ step'[r] = "summarising" => step[r] # "checked"
    BY <1>1 DEF ModelSilent, Fails, Goes, Running, StoreInv, TypeOK
  <2>2. TypeOK'
    BY <2>1 DEF StoreInv, TypeOK, store, job
  <2>3. JobInv'
    BY <2>1 DEF StoreInv, TypeOK, JobInv, Running, job
  <2>4. ItemsBelong' /\ ItemsFollowContent'
    BY <2>1 DEF StoreInv, ItemsBelong, ItemsFollowContent, store
  <2> QED BY <2>2, <2>3, <2>4 DEF StoreInv
<1>2. CASE UNCHANGED vars
  BY <1>2 DEF StoreInv, TypeOK, JobInv, Running, ItemsBelong, ItemsFollowContent, vars, store, job
<1> QED
  BY <1>1, <1>2, Begins, Persists, Follows, Shares, Goings, Changes DEF Next, Transaction

LEMMA StoreAlways == Spec => []StoreInv
BY InitStore, NextStore, PTL DEF Spec

\* Type correctness, for any documents, contents, titles and requests.
THEOREM TypeCorrect == Spec => []TypeOK
<1>1. StoreInv => TypeOK
  BY DEF StoreInv
<1> QED BY <1>1, StoreAlways, PTL

\* Whatever fails between the transactions of a job and whatever overlaps, an item's artifact is
\* stored and contains it, and links join items that are there.
THEOREM ItemsStayWhole == Spec => []ItemsBelong
<1>1. StoreInv => ItemsBelong
  BY DEF StoreInv
<1> QED BY <1>1, StoreAlways, PTL

\* An item of the space's own artifacts says what the stored content says, or what somebody wrote
\* over it, however extractions, edits and deletions overlap.
THEOREM ItemsStayTrue == Spec => []ItemsFollowContent
<1>1. StoreInv => ItemsFollowContent
  BY DEF StoreInv
<1> QED BY <1>1, StoreAlways, PTL

\* A review decision changes by a review, or on a copy by sharing onto it: no extraction, failure or
\* repetition takes it back while the item stays.
THEOREM ReviewsStay == Spec => ReviewSurvives
<1>1. StoreInv /\ [Next]_vars =>
        [\A k \in items \cap items' : review'[k] # review[k] =>
           \E r \in Request : (Review(r) /\ k \in Found(r)) \/ (Share(r) /\ k[1] = Copy(art[r]))]_vars
  <2> SUFFICES ASSUME StoreInv, Next, NEW k \in items, k \in items', review'[k] # review[k]
               PROVE  \E r \in Request : (Review(r) /\ k \in Found(r)) \/ (Share(r) /\ k[1] = Copy(art[r]))
    OBVIOUS
  <2>1. k \in Key
    BY DEF StoreInv, TypeOK
  <2>2. PICK r \in Request :
          \/ BeginIngest(r) \/ BeginReextract(r) \/ BeginShare(r) \/ BeginDelete(r) \/ BeginItem(r)
          \/ Transaction(r) \/ ModelSilent(r) \/ Fails(r)
    BY DEF Next
  <2>3. ASSUME BeginIngest(r) \/ BeginReextract(r) \/ BeginShare(r) \/ BeginDelete(r) \/ BeginItem(r)
        PROVE  review' = review
    BY <2>3 DEF BeginIngest, IngestText, IngestDocument, IngestTranscript, IngestStructured, ImportOkf, Ingest,
      BeginReextract, BeginShare, BeginDelete, BeginItem, Begin, store
  <2>4. ASSUME Declare(r) \/ LinkImported(r) \/ Embed(r) \/ Summarise(r) \/ Edit(r) \/ ModelSilent(r) \/ Fails(r)
        PROVE  review' = review
    BY <2>4 DEF Declare, LinkImported, Embed, Summarise, Edit, ModelSilent, Fails, store
  <2>5. ASSUME NEW gone, NEW kept, NEW v, NEW start, gone \cap kept = {}, Upserted(gone, kept, v, start)
        PROVE  FALSE
    BY <2>1, <2>5 DEF Upserted
  <2>6. ~(Persist(r) \/ Delete(r) \/ Drop(r))
    <3>1. ((items \cap Of(art[r])) \ Found(r)) \cap Found(r) = {}
      OBVIOUS
    <3> QED BY <2>5, <3>1 DEF Persist, Delete, Drop
  <2>7. CASE Review(r)
    BY <2>1, <2>7 DEF Review
  <2>8. CASE Share(r)
    BY <2>1, <2>8 DEF Share, Of
  <2> QED BY <2>2, <2>3, <2>4, <2>6, <2>7, <2>8 DEF Transaction
<1> QED BY <1>1, StoreAlways, PTL DEF Spec, ReviewSurvives

-----------------------------------------------------------------------------
(* Jobs that nothing met.                                                  *)

\* What a job that nothing met has left so far.
Left(r) ==
  /\ kind[r] = "import" => found[r] = Titles[new[r]]
  /\ kind[r] = "share" => content[art[r]] = new[r]
  /\ step[r] # "checked" =>
       /\ content[art[r]] = new[r] /\ items \cap Of(art[r]) = Found(r)
       /\ \A k \in Found(r) : text[k] = new[r]
  /\ step[r] \in {"indexing", "summarising"} =>
       /\ kind[r] = "structured" /\ new[r] \in Declares => \A k \in Found(r) : declared[k]
       /\ kind[r] = "import" => {<<art[r], p[1], p[2]>> : p \in Links[new[r]]} \subseteq linked
  /\ step[r] = "summarising" => \A k \in Found(r) : vector[k] = new[r]
  /\ step[r] = "persisted" => kind[r] \in {"structured", "import"}
CleanInv == \A r \in Request : clean[r] /\ Running(r) => Left(r)

\* What belongs to an artifact is as it was.
Apart(a) ==
  /\ content'[a] = content[a] /\ items' \cap Of(a) = items \cap Of(a)
  /\ \A k \in Of(a) : text'[k] = text[k] /\ vector'[k] = vector[k] /\ (declared[k] => declared'[k])
  /\ \A l \in linked : l[1] = a => l \in linked'

LEMMA InitClean == Init => CleanInv
BY DEF Init, CleanInv

\* A job keeps what it has left while commits leave its artifact alone.
LEMMA CleanKept ==
  ASSUME StoreInv, NEW r \in Request, Left(r), Apart(art[r]),
         UNCHANGED <<kind, art, new, found>>, step'[r] = step[r]
  PROVE  Left(r)'
<1>1. Found(r) \subseteq Of(art[r]) /\ Found(r)' = Found(r)
  BY FoundKeys DEF StoreInv, Found
<1> QED BY <1>1 DEF Left, Apart

\* A commit that a job is not met by leaves its artifact alone.
LEMMA OthersApart ==
  ASSUME StoreInv, NEW q \in Request, NEW r \in Request, q # r, Transaction(q), clean'[r]
  PROVE  clean[r] /\ Apart(art[r]) /\ UNCHANGED <<kind, art, new, found>> /\ step'[r] = step[r]
<1>1. UNCHANGED <<kind, art, new, found>> /\ step'[r] = step[r]
  BY DEF Transaction, Persist, Declare, LinkImported, Embed, Summarise, Share, Delete, Review, Edit, Drop,
    Goes, job, StoreInv, TypeOK
<1>2. PICK a \in Art, b \in Art : a = art[r] /\ b = art[q] /\ Found(q) \subseteq Of(b)
  BY FoundKeys DEF StoreInv
<1>3. \A k \in Of(a) : k \in Key /\ k[1] = a
  BY Keys
<1>4. \A c \in Art : c # a => Of(c) \cap Of(a) = {}
  BY Keys
<1>5. \A arts : Meets(q, arts) => clean[r] /\ a \notin arts
  BY <1>2 DEF Meets
<1>6. ASSUME Persist(q) PROVE clean[r] /\ Apart(a)
  <2>1. clean[r] /\ a # b
    BY <1>2, <1>5, <1>6 DEF Persist
  <2> DEFINE gone == (items \cap Of(b)) \ Found(q)
  <2>2. gone \cap Of(a) = {} /\ Found(q) \cap Of(a) = {}
    BY <1>2, <1>4, <2>1
  <2>3. content'[a] = content[a]
    BY <1>2, <1>6, <2>1 DEF Persist, Stored, StoreInv, TypeOK
  <2>4. PICK start : Upserted(gone, Found(q), new[q], start)
    BY <1>2, <1>6 DEF Persist
  <2>5. linked' = LinksWithout(gone)
    BY <1>2, <1>6 DEF Persist
  <2>6. \A k \in gone : k[1] # a
    BY <1>2, <2>1, Keys
  <2> HIDE DEF gone
  <2>7. /\ items' \cap Of(a) = items \cap Of(a)
        /\ \A k \in Of(a) : text'[k] = text[k] /\ vector'[k] = vector[k] /\ (declared[k] => declared'[k])
    BY <1>3, <2>2, <2>4 DEF Upserted
  <2>8. \A l \in linked : l[1] = a => l \in linked'
    BY <2>5, <2>6 DEF LinksWithout
  <2> QED BY <2>1, <2>3, <2>7, <2>8 DEF Apart
<1>7. ASSUME Delete(q) \/ Drop(q) PROVE clean[r] /\ Apart(a)
  <2>1. clean[r] /\ a # b
    BY <1>2, <1>5, <1>7 DEF Delete, Drop
  <2>2. PICK gone \in SUBSET Of(b) : Upserted(gone, {}, None, "pending") /\ Without(gone)
    BY <1>2, <1>7 DEF Delete, Drop
  <2>3. content'[a] = content[a]
    BY <1>2, <1>7, <2>1 DEF Delete, Drop, StoreInv, TypeOK
  <2>4. gone \cap Of(a) = {} /\ \A k \in gone : k[1] # a
    BY <1>4, <2>1, Keys
  <2>5. /\ items' \cap Of(a) = items \cap Of(a)
        /\ \A k \in Of(a) : text'[k] = text[k] /\ vector'[k] = vector[k] /\ (declared[k] => declared'[k])
    BY <1>3, <2>2, <2>4 DEF Upserted
  <2>6. \A l \in linked : l[1] = a => l \in linked'
    BY <2>2, <2>4 DEF Without, LinksWithout
  <2> QED BY <2>1, <2>3, <2>5, <2>6 DEF Apart
<1>8. ASSUME Declare(q) \/ LinkImported(q) \/ Embed(q) \/ Summarise(q) \/ Review(q) \/ Edit(q)
      PROVE  clean[r] /\ Apart(a)
  <2>1. clean[r] /\ (a # b \/ (Declare(q) /\ new[q] \notin Declares))
    BY <1>2, <1>5, <1>8 DEF Declare, LinkImported, Embed, Summarise, Review, Edit
  <2>2. content' = content /\ items' = items /\ \A l \in linked : l \in linked'
    BY <1>8 DEF Declare, LinkImported, Embed, Summarise, Review, Edit
  <2>3. a # b => Found(q) \cap Of(a) = {}
    BY <1>2, <1>4
  <2>4. \A k \in Of(a) : text'[k] = text[k]
    BY <1>3, <1>8, <2>1, <2>3 DEF Declare, LinkImported, Embed, Summarise, Review, Edit
  <2>5. \A k \in Of(a) : vector'[k] = vector[k] /\ (declared[k] => declared'[k])
    BY <1>3, <1>8, <2>1, <2>3 DEF Declare, LinkImported, Embed, Summarise, Review, Edit
  <2> QED BY <2>1, <2>2, <2>4, <2>5 DEF Apart
<1>9. ASSUME Share(q) PROVE clean[r] /\ Apart(a)
  <2>1. PICK c \in Art : c = Copy(b)
    BY <1>2, <1>9, Keys DEF Share, StoreInv, JobInv, Running
  <2>2. clean[r] /\ a # c
    BY <1>2, <1>5, <1>9, <2>1 DEF Share
  <2>3. Of(c) \cap Of(a) = {}
    BY <1>4, <2>2
  <2>4. content'[a] = content[a]
    BY <1>2, <1>9, <2>1, <2>2 DEF Share, Stored, StoreInv, TypeOK
  <2>5. items' \cap Of(a) = items \cap Of(a)
    BY <1>2, <1>9, <2>1, <2>3 DEF Share
  <2>6. \A k \in Of(a) : text'[k] = text[k] /\ vector'[k] = vector[k] /\ (declared[k] => declared'[k])
    BY <1>2, <1>3, <1>9, <2>1, <2>3 DEF Share
  <2>7. \A l \in linked : l[1] = a => l \in linked'
    BY <1>2, <1>9, <2>1, <2>2 DEF Share
  <2> QED BY <2>2, <2>4, <2>5, <2>6, <2>7 DEF Apart
<1> QED BY <1>1, <1>2, <1>6, <1>7, <1>8, <1>9 DEF Transaction

\* What a job promises of the state it ends in.
Promised(r) ==
  /\ kind[r] \in Extraction => content'[art[r]] = new[r] /\ Indexed(r)'
  /\ kind[r] = "share" => Copied(r)'
  /\ kind[r] = "delete" => content'[art[r]] = None /\ items' \cap Of(art[r]) = {}

\* A job whose next commit is its own.
LEMMA Ingested ==
  ASSUME StoreInv, NEW r \in Request, Left(r), Running(r),
         Persist(r) \/ Declare(r) \/ LinkImported(r) \/ Embed(r) \/ Summarise(r)
  PROVE  (Running(r)' => Left(r)') /\ (step'[r] = "done" => Promised(r))
<1>1. PICK a \in Art, v \in Content : a = art[r] /\ v = new[r] /\ Found(r) \subseteq Of(a) /\ kind[r] \in Extraction
  <2>1. kind[r] \in Extraction
    BY DEF Persist, Declare, LinkImported, Embed, Summarise, StoreInv, JobInv
  <2> QED BY <2>1, FoundKeys DEF StoreInv, JobInv
<1>2. UNCHANGED <<kind, art, new, found>> /\ Found(r)' = Found(r) /\ Of(a) \subseteq Key
  <2>1. UNCHANGED <<kind, art, new, found>>
    BY DEF Persist, Declare, LinkImported, Embed, Summarise, Goes, job
  <2> QED BY <2>1, Keys DEF Found
<1>3. CASE Persist(r)
  <2> DEFINE gone == (items \cap Of(a)) \ Found(r)
             s == IF kind[r] \in {"structured", "import"} THEN "persisted" ELSE "indexing"
  <2>1. content'[a] = v
    BY <1>1, <1>3 DEF Persist, Stored, StoreInv, TypeOK
  <2>2. PICK start : Upserted(gone, Found(r), v, start)
    BY <1>1, <1>3 DEF Persist
  <2>3. items' \cap Of(a) = Found(r)
    BY <1>1, <2>2 DEF Upserted
  <2>4. \A k \in Found(r) : text'[k] = v
    BY <1>1, <1>2, <2>2 DEF Upserted
  <2>5. step'[r] = s
    BY <1>3 DEF Persist, Goes, StoreInv, TypeOK
  <2> HIDE DEF gone
  <2>6. Left(r)'
    BY <1>1, <1>2, <2>1, <2>3, <2>4, <2>5 DEF Left, Extraction
  <2> QED BY <2>5, <2>6
<1>4. CASE Declare(r)
  <2>1. UNCHANGED <<content, items, text>> /\ step'[r] = "indexing" /\ step[r] = "persisted" /\ kind[r] = "structured"
    BY <1>4 DEF Declare, Goes, StoreInv, TypeOK
  <2>2. new[r] \in Declares => \A k \in Found(r) : declared'[k]
    BY <1>1, <1>2, <1>4, <2>1 DEF Declare, Left
  <2>3. Left(r)'
    BY <1>1, <1>2, <2>1, <2>2 DEF Left
  <2> QED BY <2>1, <2>3
<1>5. CASE LinkImported(r)
  <2>1. UNCHANGED <<content, items, text>> /\ step'[r] = "indexing" /\ step[r] = "persisted" /\ kind[r] = "import"
    BY <1>5 DEF LinkImported, Goes, StoreInv, TypeOK
  <2>2. {<<a, p[1], p[2]>> : p \in Links[v]} \subseteq linked'
    <3> SUFFICES ASSUME NEW p \in Links[v] PROVE <<a, p[1], p[2]>> \in Linkable(r)
      BY <1>1, <1>5 DEF LinkImported
    <3>1. p[1] \in found[r] /\ p[2] \in found[r]
      BY <1>1, <2>1, ContentAssumption DEF Left
    <3>2. <<a, p[1]>> \in items /\ <<a, p[2]>> \in items
      BY <1>1, <2>1, <3>1 DEF Left, Found
    <3> QED BY <1>1, <3>2 DEF Linkable
  <2>3. Left(r)'
    BY <1>1, <1>2, <2>1, <2>2 DEF Left
  <2> QED BY <2>1, <2>3
<1>6. CASE Embed(r)
  <2>1. /\ UNCHANGED <<content, items, text, declared, linked>> /\ step[r] = "indexing"
        /\ step'[r] = IF kind[r] = "reextract" THEN "done" ELSE "summarising"
    BY <1>6 DEF Embed, Goes, StoreInv, TypeOK
  <2>2. \A k \in Found(r) : vector'[k] = v
    BY <1>1, <1>2, <1>6, <2>1 DEF Embed, Left
  <2>3. Running(r)' => Left(r)'
    BY <1>1, <1>2, <2>1, <2>2 DEF Left, Running
  <2>4. step'[r] = "done" => Promised(r)
    BY <1>1, <1>2, <2>1, <2>2 DEF Left, Promised, Indexed
  <2> QED BY <2>3, <2>4
<1>7. CASE Summarise(r)
  <2>1. UNCHANGED <<content, items, text, declared, vector, linked>> /\ step[r] = "summarising" /\ step'[r] = "done"
    BY <1>7 DEF Summarise, Goes, StoreInv, TypeOK
  <2>2. content[a] = v /\ content[a] # None
    BY <1>1, <2>1, ContentAssumption DEF Left
  <2>3. summary'[a] = v
    BY <1>1, <1>7, <2>2 DEF Summarise, Summarised, StoreInv, TypeOK
  <2>4. Promised(r)
    BY <1>1, <1>2, <2>1, <2>3 DEF Left, Promised, Indexed, Extraction
  <2> QED BY <2>1, <2>4 DEF Running
<1> QED BY <1>3, <1>4, <1>5, <1>6, <1>7

LEMMA Ended ==
  ASSUME StoreInv, NEW r \in Request, Left(r), Running(r),
         Share(r) \/ Delete(r) \/ Review(r) \/ Edit(r) \/ Drop(r)
  PROVE  ~Running(r)' /\ Promised(r)
<1>1. ~Running(r)'
  BY DEF Share, Delete, Review, Edit, Drop, Goes, Running, StoreInv, TypeOK
<1>2. CASE Share(r)
  <2>1. PICK a \in Own : a = art[r]
    BY <1>2 DEF Share, StoreInv, JobInv
  <2>2. PICK c \in Art : c = Copy(a) /\ a \in Art /\ c # a
    BY <2>1, Keys
  <2>3. UNCHANGED art /\ kind[r] = "share" /\ "share" \notin Extraction
    BY <1>2 DEF Share, Goes, job, Extraction
  <2>4. content'[c] = content[a] /\ content'[a] = content[a]
    BY <1>2, <2>1, <2>2 DEF Share, Stored, Left, StoreInv, TypeOK
  <2>5. \A t \in Title : <<a, t>> \notin Of(c) /\ <<a, t>> \in Key /\ <<c, t>> \in Of(c) /\ <<c, t>> \in Key
    BY <2>2, Keys
  <2>6. \A t \in Title : (<<c, t>> \in items' <=> <<a, t>> \in items) /\ (<<a, t>> \in items' <=> <<a, t>> \in items)
    BY <1>2, <2>1, <2>2, <2>5 DEF Share
  <2>7. \A t \in Title :
          /\ text'[<<c, t>>] = text[<<a, t>>] /\ text'[<<a, t>>] = text[<<a, t>>]
          /\ review'[<<c, t>>] = review[<<a, t>>] /\ review'[<<a, t>>] = review[<<a, t>>]
    BY <1>2, <2>1, <2>2, <2>5 DEF Share, StoreInv, TypeOK
  <2>8. \A t \in Title :
          /\ declared'[<<c, t>>] = declared[<<a, t>>] /\ declared'[<<a, t>>] = declared[<<a, t>>]
          /\ vector'[<<a, t>>] = vector[<<a, t>>]
          /\ vector[<<a, t>>] # None => vector'[<<c, t>>] = vector[<<a, t>>]
    BY <1>2, <2>1, <2>2, <2>5 DEF Share, StoreInv, TypeOK
  <2>9. Copied(r)'
    BY <2>1, <2>2, <2>3, <2>4, <2>6, <2>7, <2>8 DEF Copied
  <2> QED BY <1>1, <2>3, <2>9 DEF Promised
<1>3. CASE Delete(r)
  <2>1. content'[art[r]] = None /\ kind[r] = "delete" /\ "delete" \notin Extraction
    BY <1>3, FoundKeys DEF Delete, StoreInv, TypeOK, Extraction
  <2>2. items' \cap Of(art[r]) = {}
    BY <1>3 DEF Delete, Upserted
  <2> QED BY <1>1, <2>1, <2>2 DEF Promised
<1>4. CASE Review(r) \/ Edit(r) \/ Drop(r)
  <2>1. kind[r] \in {"review", "edit", "drop"}
    BY <1>4 DEF Review, Edit, Drop
  <2> QED BY <1>1, <2>1 DEF Promised, Extraction
<1> QED BY <1>2, <1>3, <1>4

\* Steps that commit nothing: a job begins, no model answers, a job fails.
LEMMA QuietClean ==
  ASSUME StoreInv, CleanInv, NEW q \in Request,
         \/ BeginIngest(q) \/ BeginReextract(q) \/ BeginShare(q) \/ BeginDelete(q) \/ BeginItem(q)
         \/ ModelSilent(q) \/ Fails(q)
  PROVE  /\ CleanInv'
         /\ \A r \in Request : Running(r) /\ step'[r] = "done" => ~clean'[r]
<1>1. UNCHANGED store
  BY DEF BeginIngest, IngestText, IngestDocument, IngestTranscript, IngestStructured, ImportOkf, Ingest,
    BeginReextract, BeginShare, BeginDelete, BeginItem, Begin, ModelSilent, Fails
<1>2. \A a : Apart(a)
  BY <1>1 DEF Apart, store
<1>3. CASE ModelSilent(q) \/ Fails(q)
  <2>1. /\ UNCHANGED <<kind, art, new, found>> /\ \A r \in Request \ {q} : step'[r] = step[r] /\ clean'[r] = clean[r]
        /\ (~Running(q)' \/ ~clean'[q]) /\ (step'[q] = "done" => ~clean'[q])
    BY <1>3 DEF ModelSilent, Fails, Goes, job, Running, StoreInv, TypeOK
  <2>2. ASSUME NEW r \in Request, clean'[r], Running(r)' PROVE Left(r)'
    <3>1. r # q /\ clean[r] /\ Running(r)
      BY <2>1, <2>2 DEF Running
    <3>2. Left(r)
      BY <3>1 DEF CleanInv
    <3> QED BY <1>2, <2>1, <3>1, <3>2, CleanKept
  <2>3. \A r \in Request : Running(r) /\ step'[r] = "done" => ~clean'[r]
    BY <1>3, <2>1 DEF Running, ModelSilent, Fails, Goes, StoreInv, TypeOK
  <2> QED BY <2>2, <2>3 DEF CleanInv
<1>4. ASSUME NEW k, NEW a, NEW v, NEW f, NEW s, Begin(q, k, a, v, f, s),
             k = "import" => f = Titles[v], k = "share" => content[a] = v
      PROVE  CleanInv' /\ \A r \in Request : Running(r) /\ step'[r] = "done" => ~clean'[r]
  <2>1. /\ kind'[q] = k /\ art'[q] = a /\ new'[q] = v /\ found'[q] = f /\ step'[q] = "checked"
        /\ \A r \in Request \ {q} : /\ kind'[r] = kind[r] /\ art'[r] = art[r] /\ new'[r] = new[r]
                                    /\ found'[r] = found[r] /\ step'[r] = step[r] /\ clean'[r] = clean[r]
    BY <1>4 DEF Begin, StoreInv, TypeOK
  <2>2. ASSUME NEW r \in Request, clean'[r], Running(r)' PROVE Left(r)'
    <3>1. CASE r = q
      BY <1>1, <1>4, <2>1, <3>1 DEF Left, store
    <3>2. CASE r # q
      <4>1. Left(r)
        BY <2>1, <2>2, <3>2 DEF CleanInv, Running
      <4> QED BY <1>1, <2>1, <3>2, <4>1 DEF Left, Found, store
    <3> QED BY <3>1, <3>2
  <2>3. \A r \in Request : Running(r) /\ step'[r] = "done" => ~clean'[r]
    BY <2>1 DEF Running
  <2> QED BY <2>2, <2>3 DEF CleanInv
<1>5. CASE BeginIngest(q)
  <2>1. PICK k \in {"text", "document", "transcript", "structured", "import"}, v \in Content : Ingest(q, k, v)
    BY <1>5, ContentAssumption DEF BeginIngest, IngestText, IngestDocument, IngestTranscript, IngestStructured, ImportOkf
  <2>2. PICK a \in Own, f \in FoundIn(k, v) : Begin(q, k, a, v, f, None)
    BY <2>1 DEF Ingest
  <2>3. k = "import" => f = Titles[v]
    BY <2>2 DEF FoundIn
  <2> QED BY <1>4, <2>1, <2>2, <2>3
<1>6. CASE BeginReextract(q) \/ BeginShare(q) \/ BeginDelete(q) \/ BeginItem(q)
  BY <1>4, <1>6 DEF BeginReextract, BeginShare, BeginDelete, BeginItem
<1> QED BY <1>3, <1>5, <1>6

LEMMA CommitClean ==
  ASSUME StoreInv, CleanInv, NEW q \in Request, Transaction(q)
  PROVE  /\ CleanInv'
         /\ \A r \in Request : Running(r) /\ step'[r] = "done" /\ clean[r] /\ clean'[r] => r = q /\ Promised(r)
<1>1. Running(q)
  BY DEF Transaction, Persist, Declare, LinkImported, Embed, Summarise, Share, Delete, Review, Edit, Drop, Running
<1>2. clean[q] => (Running(q)' => Left(q)') /\ (step'[q] = "done" => Promised(q))
  <2>1. clean[q] => Left(q)
    BY <1>1 DEF CleanInv
  <2> QED BY <1>1, <2>1, Ingested, Ended DEF Transaction
<1>3. clean'[q] => clean[q]
  BY DEF Transaction, Persist, Declare, LinkImported, Embed, Summarise, Share, Delete, Review, Edit, Drop, Meets
<1>4. ASSUME NEW r \in Request, r # q, clean'[r]
      PROVE  clean[r] /\ step'[r] = step[r] /\ (Left(r) => Left(r)')
  BY <1>4, OthersApart, CleanKept
<1>5. CleanInv'
  <2> SUFFICES ASSUME NEW r \in Request, clean'[r], Running(r)' PROVE Left(r)'
    BY DEF CleanInv
  <2>1. CASE r = q
    BY <1>2, <1>3, <2>1
  <2>2. CASE r # q
    BY <1>4, <2>2 DEF CleanInv, Running
  <2> QED BY <2>1, <2>2
<1>6. ASSUME NEW r \in Request, Running(r), step'[r] = "done", clean[r], clean'[r] PROVE r = q /\ Promised(r)
  <2>1. r = q
    BY <1>4, <1>6 DEF Running
  <2> QED BY <1>2, <1>6, <2>1
<1> QED BY <1>5, <1>6

LEMMA NextClean == StoreInv /\ CleanInv /\ [Next]_vars => CleanInv'
<1> SUFFICES ASSUME StoreInv, CleanInv, [Next]_vars PROVE CleanInv'
  OBVIOUS
<1>1. CASE UNCHANGED vars
  BY <1>1 DEF CleanInv, Left, Found, Running, vars, store, job
<1> QED BY <1>1, QuietClean, CommitClean DEF Next

\* A job that ends, met by no other commit and with models that answered, leaves all it promises,
\* whatever earlier jobs left half-done: repeating a call repairs what a failure left.
THEOREM JobsStayComplete == Spec => JobsComplete
<1>1. Spec => [](StoreInv /\ CleanInv)
  BY InitStore, NextStore, InitClean, NextClean, PTL DEF Spec
<1>2. StoreInv /\ CleanInv /\ [Next]_vars =>
        [\A r \in Request :
           step[r] \notin {"done", "failed"} /\ step'[r] = "done" /\ clean[r] /\ clean'[r] =>
             /\ kind[r] \in Extraction => content'[art[r]] = new[r] /\ Indexed(r)'
             /\ kind[r] = "share" => Copied(r)'
             /\ kind[r] = "delete" => content'[art[r]] = None /\ items' \cap Of(art[r]) = {}]_vars
  <2> SUFFICES ASSUME StoreInv, CleanInv, Next, NEW r \in Request, Running(r), step'[r] = "done", clean[r], clean'[r]
               PROVE  Promised(r)
    BY DEF Promised, Running
  <2> QED BY QuietClean, CommitClean DEF Next
<1> QED BY <1>1, <1>2, PTL DEF Spec, JobsComplete
=============================================================================
