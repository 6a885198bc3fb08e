---------------------------- MODULE MCAlgorithms ----------------------------
(* The three parts share no variable, so each is run with the others at rest. *)
EXTENDS Answering, Adrs, Extraction, TLC
MCScore == [question |-> <<90, 70, 60, 20>>, hyde |-> <<30, 80, 50, 70>>, sub |-> <<40, 40, 100, 10>>]
MCEdges == {<<5, 1>>, <<5, 2>>, <<5, 3>>, <<5, 4>>, <<3, 1>>, <<4, 2>>}
MCReplacing == {<<3, 1>>, <<4, 2>>}
MCDeclaredStale == {4}
MCUnit == 61 * 31 * 63 * 64 * 65
Record(t, w, l) == [title |-> t, word |-> w, lines |-> l]
MCName == <<"1-a.md", "2-b.md", "2-c.md">>
MCNumber == <<"1", "2", "2">>
MCSays == <<
  {Record("a", "superseded", <<<<"superseded by", "2">>>>), Record("a", "deprecated", <<>>)},
  {Record("b", "accepted", <<<<"supersedes", "1-a.md">>, <<"amends", "2-c.md">>>>),
   Record("B", "amends", <<<<"amends", "1">>>>)},
  {Record("c", "accepted", <<<<"amends", "1", "supersedes", "2-b.md">>>>), Record("c", Nothing, <<>>)}>>
MCDocuments ==
  LET P == {s \in BoundedSeq({"a", ".", " "}, 8) : s # <<>> /\ s[1] # " " /\ s[Len(s)] # " "}
      Q == BoundedSeq({"a", ".", " "}, 3)
  IN  {<<p>> : p \in P} \union {<<p, q>> : p \in Q, q \in Q}
AnsweringRest == own = {} /\ stage = "asked"
AdrsRest == turns = 0 /\ \A f \in File : adr[f] = Nothing
ExtractionRest == document = <<<<"a">>>> /\ extractStage = "reading" /\ read = <<>>
MCInit ==
  \/ (AnsweringInit /\ AnsweringRest) /\ (AdrsInit /\ AdrsRest) /\ ExtractionInit
  \/ (AnsweringInit /\ AnsweringRest) /\ (ExtractionInit /\ ExtractionRest) /\ AdrsInit
  \/ (AdrsInit /\ AdrsRest) /\ (ExtractionInit /\ ExtractionRest) /\ AnsweringInit
MCNext ==
  \/ AdrsRest /\ ExtractionRest /\ AnsweringNext /\ UNCHANGED <<adrVars, extractVars>>
  \/ AnsweringRest /\ ExtractionRest /\ AdrsNext /\ UNCHANGED <<answeringVars, extractVars>>
  \/ AnsweringRest /\ AdrsRest /\ ExtractionNext /\ UNCHANGED <<answeringVars, adrVars>>
MCSpec == MCInit /\ [][MCNext]_<<answeringVars, adrVars, extractVars>>
=============================================================================
