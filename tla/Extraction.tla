----------------------------- MODULE Extraction -----------------------------
(***************************************************************************)
(* Extraction from a document (services/llm_extraction.py): its text is    *)
(* packed into chunks, the language model is asked about each in turn, and *)
(* what it or the regular expressions find is put together.                *)
(*                                                                         *)
(* A text is a sequence of paragraphs, each a sequence of characters: a    *)
(* letter, a full stop or a space.  What is found in a chunk is abstracted *)
(* to the statements it may make.                                          *)
(***************************************************************************)
EXTENDS Places

CONSTANTS
  Documents,                \* texts
  Statement,                \* what a chunk can say, by its normalised wording
  MaxChunkChars, MaxChunks

Space == " "
Char == {Space} \union UNION {ToSet(p) : p \in UNION {ToSet(d) : d \in Documents}}

ASSUME ExtractionAssumption ==
  /\ Documents \subseteq Seq(Seq(Char)) /\ IsFiniteSet(Statement)
  /\ MaxChunkChars \in Nat \ {0} /\ MaxChunks \in Nat \ {0}

VARIABLES
  document, extractStage,   \* the text; reading, done or unavailable
  chunks,                   \* all its chunks
  read,                     \* by chunk read, which extractor read it
  gathered,                 \* what was found, and by which, in its order
  extraction                \* the statistics kept with the artifact

extractVars == <<document, extractStage, chunks, read, gathered, extraction>>

NotSpace(c) == c # Space
Strip(s) ==
  LET marks == {n \in DOMAIN s : NotSpace(s[n])}
  IN  IF marks = {} THEN <<>>
      ELSE SubSeq(s, CHOOSE n \in marks : \A m \in marks : n <= m, CHOOSE n \in marks : \A m \in marks : m <= n)

\* Where a paragraph is cut: after the last full stop that a space follows, both before the limit,
\* unless that is in the first half.
CutAt(s) ==
  LET ends == {n \in 1..(MaxChunkChars - 1) : s[n] = "." /\ s[n + 1] = Space /\ n - 1 >= MaxChunkChars \div 2}
  IN  IF ends = {} THEN MaxChunkChars ELSE CHOOSE n \in ends : \A m \in ends : m <= n

\* Mutated form: the character at the cut is taken for the space after a full stop.
CutSkipping(r) ==
  IF Len(r.left) <= MaxChunkChars THEN r
  ELSE [left |-> Strip(SubSeq(r.left, CutAt(r.left) + 2, Len(r.left))),
        pieces |-> Append(r.pieces, Strip(SubSeq(r.left, 1, CutAt(r.left))))]

\* A turn of _split_long: nothing, when what is left is no longer than the limit.
Cut(r) ==
  IF Len(r.left) <= MaxChunkChars THEN r
  ELSE [left |-> Strip(SubSeq(r.left, CutAt(r.left) + 1, Len(r.left))),
        pieces |-> Append(r.pieces, Strip(SubSeq(r.left, 1, CutAt(r.left))))]

\* _split_long: each turn takes a character at least, so that there are no more than characters.
SplitLong(s) ==
  LET turn[n \in 0..Len(s)] == IF n = 0 THEN [left |-> s, pieces |-> <<>>] ELSE Cut(turn[n - 1])
      end == turn[Len(s)]
  IN  IF end.left = <<>> THEN end.pieces ELSE Append(end.pieces, end.left)

\* chunk_text: pieces are packed, an empty line between them, as long as they fit.
Pack(packed, piece) ==
  IF packed = <<>> \/ Len(Last(packed)) + 2 + Len(piece) > MaxChunkChars THEN Append(packed, piece)
  ELSE Append(Front(packed), Last(packed) \o <<Space, Space>> \o piece)

ChunkText(paragraphs) ==
  LET pieces == FlattenSeq([n \in DOMAIN paragraphs |-> SplitLong(Strip(paragraphs[n]))])
      packed[n \in 0..Len(pieces)] == IF n = 0 THEN <<>> ELSE Pack(packed[n - 1], pieces[n])
  IN  packed[Len(pieces)]

NoStatistics == [chunks |-> 0, fallback |-> 0, left |-> 0]

ExtractionInit ==
  /\ document \in Documents /\ extractStage = "reading"
  /\ chunks = ChunkText(document)
  /\ read = <<>> /\ gathered = <<>> /\ extraction = NoStatistics

Asked == SubSeq(chunks, 1, IF Len(chunks) < MaxChunks THEN Len(chunks) ELSE MaxChunks)

\* One chunk: the model answers, or what it answers cannot be used and the regular expressions
\* read the chunk.  Without an answer about the first, the caller reads the whole document so.
ReadChunk == \E by \in {"llm", "regex"}, silent \in BOOLEAN, said \in SUBSET Statement :
  /\ extractStage = "reading" /\ Len(read) < Len(Asked)
  /\ silent => by = "regex"
  /\ IF silent /\ read = <<>>
     THEN extractStage' = "unavailable" /\ said = {} /\ UNCHANGED <<read, gathered>>
     ELSE /\ read' = Append(read, by)
          /\ gathered' = gathered \o SetToSeq({[says |-> s, by |-> by, chunk |-> Len(read')] : s \in said})
          /\ UNCHANGED extractStage
  /\ UNCHANGED <<document, chunks, extraction>>

\* _dedupe: the first of what is said more than once.
Dedupe(entries) ==
  At(entries, {n \in DOMAIN entries : \A m \in 1..(n - 1) : entries[m].says # entries[n].says})

\* What was found is put together, and what was not read is reported.
FinishExtraction ==
  /\ extractStage = "reading" /\ Len(read) = Len(Asked)
  /\ gathered' = Dedupe(gathered)
  /\ extraction' = [chunks |-> Len(Asked), fallback |-> Cardinality({n \in DOMAIN read : read[n] = "regex"}),
                    left |-> Len(FlattenSeq(SubSeq(chunks, MaxChunks + 1, Len(chunks))))]
  /\ extractStage' = "done"
  /\ UNCHANGED <<document, chunks, read>>

ExtractionNext == ReadChunk \/ FinishExtraction

ExtractionSpec == ExtractionInit /\ [][ExtractionNext]_extractVars

-----------------------------------------------------------------------------
(* Properties.                                                             *)

Letters(s) == Where(s, NotSpace)

\* A finished extraction has read all of the document but what it reports it left: wherever the
\* text was cut, nothing but the space around the cuts is missing from the chunks, none of which
\* is empty or larger than the model's context allows for, and what is in several is found once.
NothingLost ==
  LET letters == Letters(FlattenSeq(document))
      asked == Letters(FlattenSeq(Asked))
  IN  extractStage = "done" =>
        /\ IsPrefix(asked, letters)
        /\ Len(letters) - Len(asked) <= extraction.left
        /\ extraction.left = 0 => asked = letters
        /\ \A n \in DOMAIN chunks : Len(chunks[n]) \in 1..MaxChunkChars
        /\ \A m, n \in DOMAIN gathered : gathered[m].says = gathered[n].says => m = n
=============================================================================
