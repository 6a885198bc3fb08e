------------------------- MODULE MCArtifactPipeline -------------------------
EXTENDS ArtifactPipeline, TLC
CONSTANTS c1, c2, t1, t2
MCTitles == c1 :> {t1, t2} @@ c2 :> {t1}
MCLinks == c1 :> {<<t1, t2>>} @@ c2 :> {}
Symmetry == Permutations(Request)
=============================================================================
