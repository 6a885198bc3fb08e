-------------------------------- MODULE Adrs --------------------------------
(***************************************************************************)
(* A git-ADR connector (services/connectors/git_adr.py, sync.py): from     *)
(* what the records in a checkout say of each other to the statuses their  *)
(* decisions show, over several syncs of a checkout that is edited.        *)
(*                                                                         *)
(* The connector's lock lets one sync run at a time; people link and       *)
(* unlink decisions between syncs (Lineage has them race with syncs).      *)
(***************************************************************************)
EXTENDS Places

CONSTANTS
  File,            \* numbers, as the folders are walked
  Name, Number,    \* by file: its name and its ADR number, as references give them; "" for no number
  Says,            \* by file: what its text may be: a title, a status word and lines
  Nothing,         \* no file; a text without a heading; no status
  MaxFiles,        \* max_files
  MaxSyncs         \* bound: syncs, and what people link or unlink between them

AdrText == UNION Range(Says)
Declared == {"active", "proposed", "deprecated", "rejected", "superseded"}

ASSUME AdrsAssumption ==
  /\ IsFiniteSet(File) /\ File \subseteq Int /\ DOMAIN Says = File /\ MaxFiles \in Nat
  /\ \A t \in AdrText : t.lines \in Seq(Seq(UNION {ToSet(l) : l \in ToSet(t.lines)}))
  /\ Nothing \notin File /\ Nothing \notin AdrText /\ Nothing \notin Declared
  /\ Nothing \notin [title : {t.title : t \in AdrText}, declared : Declared \union {Nothing}]
  /\ Nothing \notin [text : AdrText, declared : Declared \union {Nothing}]

VARIABLES
  adr,             \* the checkout
  syncStage,       \* rest, storing, linking
  docs, links,     \* what a sync has yet to store, and to link
  syncHash,        \* what each document was when it was last recorded
  decision,        \* the decision stored for each: its title and declared status
  evolves,         \* the EVOLVES edges
  failed,          \* what the sync could not read or store
  torn,            \* history: files of which a sync stored a part
  turns            \* syncs and hand-made changes so far

adrVars == <<adr, syncStage, docs, links, syncHash, decision, evolves, failed, torn, turns>>

AdrsInit ==
  /\ adr \in {a \in [File -> AdrText \union {Nothing}] : \A f \in File : a[f] \in Says[f] \union {Nothing}}
  /\ syncStage = "rest" /\ docs = <<>> /\ links = <<>>
  /\ syncHash = [f \in File |-> Nothing] /\ decision = [f \in File |-> Nothing]
  /\ evolves = {} /\ failed = {} /\ torn = {} /\ turns = 0

-----------------------------------------------------------------------------
(* What the records say.                                                   *)

\* _RELATIONS, in the order they are looked for.
Relations == <<
  [phrase |-> "superseded by", kind |-> "supersedes", otherIsNewer |-> TRUE],
  [phrase |-> "supersedes", kind |-> "supersedes", otherIsNewer |-> FALSE],
  [phrase |-> "amended by", kind |-> "amends", otherIsNewer |-> TRUE],
  [phrase |-> "amends", kind |-> "amends", otherIsNewer |-> FALSE]>>

\* The status words, and what they declare.
Declares(word) ==
  CASE word \in {"accepted", "approved", "active", "done"} -> "active"
    [] word \in {"proposed", "draft", "open"} -> "proposed"
    [] word \in {"deprecated", "rejected", "superseded"} -> word
    [] OTHER -> Nothing

\* parse_adr: a line is phrases and references in their order.  Only the first of _RELATIONS that
\* occurs in it counts, with every reference that stands after it.
RelationsIn(line) ==
  LET said == {r \in DOMAIN Relations : Relations[r].phrase \in ToSet(line)}
      r == Relations[CHOOSE r \in said : \A q \in said : r <= q]
      refs == At(line, {n \in DOMAIN line : /\ \E m \in 1..n : line[m] = r.phrase
                                           /\ \A q \in DOMAIN Relations : line[n] # Relations[q].phrase})
  IN  IF said = {} THEN <<>>
      ELSE [n \in DOMAIN refs |-> [kind |-> r.kind, target |-> refs[n], otherIsNewer |-> r.otherIsNewer]]

\* resolve: by file name or by number, whatever the folder; the last file there is with it.
Resolve(S, target) ==
  LET named == {f \in S : target \in {Name[f], Number[f]}}
  IN  IF named = {} THEN Nothing ELSE CHOOSE f \in named : \A g \in named : g <= f

\* The links between the parsed files S, in the order they are found.
Found(S) ==
  LET Edge(f, r) == LET other == Resolve(S, r.target)
                    IN IF r.otherIsNewer THEN [newer |-> other, kind |-> r.kind, older |-> f]
                       ELSE [newer |-> f, kind |-> r.kind, older |-> other]
      Of(f) == LET rs == FlattenSeq([n \in DOMAIN adr[f].lines |-> RelationsIn(adr[f].lines[n])])
               IN  Where([n \in DOMAIN rs |-> Edge(f, rs[n])],
                         LAMBDA e : Nothing \notin {e.newer, e.older} /\ e.newer # e.older)
      files == InOrder(S)
  IN  FlattenSeq([n \in DOMAIN files |-> Of(files[n])])

\* _list_adrs: the files there are, in the order of the folders, up to the limit.
ListAdrs == ToSet(First(InOrder({f \in File : adr[f] # Nothing}), MaxFiles))

\* Mutated form: a record that names what superseded it declares nothing, found or not.
DeclaredByText(f, S) ==
  LET word == Declares(adr[f].word)
  IN  IF word = "superseded" /\ \E n \in DOMAIN adr[f].lines : RelationsIn(adr[f].lines[n]) # <<>>
      THEN Nothing ELSE word

\* A record does not declare superseded what a link already says.
DeclaredStatus(f, S) ==
  LET word == Declares(adr[f].word)
  IN  IF word = "superseded" /\ \E e \in ToSet(Found(S)) : e.kind = "supersedes" /\ e.older = f
      THEN Nothing ELSE word

\* fetch: files that cannot be read are errors, files without a heading are passed over; a checkout
\* without records is an error that ends the sync.  A document's links are those it is the newer of.
Fetch == \E unreadable \in SUBSET ListAdrs :
  LET S == {f \in ListAdrs \ unreadable : adr[f].word # Nothing}
      files == InOrder(S)
      Newer(f) == Where(Found(S), LAMBDA e : e.newer = f)
  IN  /\ syncStage = "rest" /\ turns < MaxSyncs /\ ListAdrs # {} /\ Cardinality(unreadable) <= 1
      /\ docs' = [n \in DOMAIN files |->
                   [file |-> files[n], text |-> adr[files[n]], declared |-> DeclaredStatus(files[n], S)]]
      /\ links' = FlattenSeq([n \in DOMAIN files |-> Newer(files[n])])
      /\ failed' = unreadable
      /\ syncStage' = "storing" /\ turns' = turns + 1
      /\ UNCHANGED <<adr, syncHash, decision, evolves, torn>>

-----------------------------------------------------------------------------
(* A sync.                                                                 *)

\* The edges of a decision go with it.
Without(f) == {e \in evolves : f \notin {e.newer, e.older}}

\* A decision is identified by its title, so that a new title makes a new decision.
SameTitle(d) == decision[d.file] # Nothing /\ decision[d.file].title = d.text.title

\* persist_artifact: a decision there is keeps its declared status and its edges.
Persist(d) ==
  /\ decision' = [decision EXCEPT ![d.file] = IF SameTitle(d) THEN @ ELSE [title |-> d.text.title, declared |-> Nothing]]
  /\ evolves' = IF SameTitle(d) THEN evolves ELSE Without(d.file)

\* ingest_structured: and then, in a second transaction, gets the status declared, if any is.
Declare(d) ==
  LET old == IF SameTitle(d) THEN decision[d.file].declared ELSE Nothing
  IN  /\ decision' = [decision EXCEPT ![d.file] = [title |-> d.text.title,
                        declared |-> IF d.declared = Nothing THEN old ELSE d.declared]]
      /\ evolves' = IF SameTitle(d) THEN evolves ELSE Without(d.file)

Hash(d) == [text |-> d.text, declared |-> d.declared]

\* A document is stored, unless it is as it was recorded; its failure does not stop the others, and
\* leaves what was committed before.
StoreAdr ==
  /\ syncStage = "storing"
  /\ IF docs = <<>>
     THEN /\ syncStage' = "linking"
          /\ UNCHANGED <<docs, syncHash, decision, evolves, failed, torn>>
     ELSE LET d == Head(docs) f == d.file IN
          /\ docs' = Tail(docs) /\ UNCHANGED syncStage
          /\ \/ /\ syncHash[f] = Hash(d)
                /\ UNCHANGED <<syncHash, decision, evolves, failed, torn>>
             \/ /\ syncHash[f] # Hash(d) /\ Declare(d)
                /\ syncHash' = [syncHash EXCEPT ![f] = Hash(d)]
                /\ torn' = torn \ {f} /\ UNCHANGED failed
             \/ /\ syncHash[f] # Hash(d) /\ (Persist(d) \/ Declare(d))
                /\ torn' = torn \union {f} /\ failed' = failed \union {f} /\ UNCHANGED syncHash
             \/ /\ syncHash[f] # Hash(d)
                /\ failed' = failed \union {f} /\ UNCHANGED <<syncHash, decision, evolves, torn>>
  /\ UNCHANGED <<adr, links, turns>>

\* What an item evolved from, through any number of edges.
Reached(E, start) ==
  LET step[n \in 0..Cardinality(File)] ==
        IF n = 0 THEN {start} ELSE step[n - 1] \union {e.older : e \in {d \in E : d.newer \in step[n - 1]}}
  IN  step[Cardinality(File)]

\* validate_link: no second edge between two decisions, and no circle.
CanLink(e) ==
  /\ \A d \in evolves : {d.newer, d.older} # {e.newer, e.older}
  /\ e.newer \notin Reached(evolves, e.older)

\* _apply_links: of all documents, stored or not; a link that is refused is passed over.
ApplyLink ==
  /\ syncStage = "linking"
  /\ IF links = <<>> THEN syncStage' = "rest" /\ UNCHANGED <<links, evolves>>
     ELSE LET e == Head(links) IN
          /\ links' = Tail(links) /\ UNCHANGED syncStage
          /\ evolves' = IF decision[e.newer] # Nothing /\ decision[e.older] # Nothing /\ CanLink(e)
                        THEN evolves \union {e} ELSE evolves
  /\ UNCHANGED <<adr, docs, syncHash, decision, failed, torn, turns>>

-----------------------------------------------------------------------------
(* People, between syncs.                                                  *)

\* The checkout is pulled: a record is written, changed or removed.
EditAdr == \E f \in File : \E text \in (Says[f] \union {Nothing}) \ {adr[f]} :
  /\ syncStage = "rest" /\ turns \in 1..(MaxSyncs - 1)
  /\ adr' = [adr EXCEPT ![f] = text]
  /\ UNCHANGED <<syncStage, docs, links, syncHash, decision, evolves, failed, torn, turns>>

\* Somebody links two decisions, or removes a link.
LinkByHand == \E newer, older \in File, kind \in {"amends", "reverses"} :
  LET e == [newer |-> newer, kind |-> kind, older |-> older] IN
  /\ syncStage = "rest" /\ turns \in 1..(MaxSyncs - 1) /\ newer # older
  /\ decision[newer] # Nothing /\ decision[older] # Nothing /\ CanLink(e)
  /\ evolves' = evolves \union {e} /\ turns' = turns + 1
  /\ UNCHANGED <<adr, syncStage, docs, links, syncHash, decision, failed, torn>>

UnlinkByHand == \E e \in evolves :
  /\ syncStage = "rest" /\ turns \in 1..(MaxSyncs - 1)
  /\ evolves' = evolves \ {e} /\ turns' = turns + 1
  /\ UNCHANGED <<adr, syncStage, docs, links, syncHash, decision, failed, torn>>

AdrsNext == Fetch \/ StoreAdr \/ ApplyLink \/ EditAdr \/ LinkByHand \/ UnlinkByHand

AdrsSpec == AdrsInit /\ [][AdrsNext]_adrVars

-----------------------------------------------------------------------------
(* Properties.                                                             *)

\* derive_status.
StatusOf(f) ==
  LET kinds == {e.kind : e \in {d \in evolves : d.older = f}}
  IN  IF "reverses" \in kinds THEN "reversed"
      ELSE IF "supersedes" \in kinds THEN "superseded"
      ELSE IF decision[f].declared = Nothing THEN "active" ELSE decision[f].declared

\* A link the checkout asks for that another link stands in the way of.
StandsInTheWay(e) == e \notin evolves /\ ~CanLink(e)

\* Once a sync that stored all it read has linked, a record that says it was superseded, or that
\* another record it can find says it supersedes, is not shown as current, whatever was edited,
\* linked and unlinked before.  Two ways to fail are left: another link between the two, or a
\* circle, stands in the way of the only link that would say so (git_adr.py:231 has then dropped
\* the status the record declares), and a sync that failed after it had stored a part, before the
\* record was changed back (torn).
SupersededIsShown ==
  LET S == {f \in ListAdrs : adr[f].word # Nothing}
      Wanted == {e \in ToSet(Found(S)) : e.kind = "supersedes"}
  IN  syncStage = "linking" /\ links = <<>> /\ failed = {} =>
        \A f \in S \ torn :
          adr[f].word = "superseded" \/ (\E e \in Wanted : e.older = f) =>
            \/ StatusOf(f) \in {"superseded", "reversed"}
            \/ \E e \in Wanted : e.older = f /\ StandsInTheWay(e)
=============================================================================
