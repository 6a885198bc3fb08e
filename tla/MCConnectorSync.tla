--------------------------- MODULE MCConnectorSync ---------------------------
(***************************************************************************)
(* ConnectorSync for TLC.  Deliveries and handlers are interchangeable:    *)
(* no definition prefers one, so the safety runs may identify states that  *)
(* differ by renaming them.                                                *)
(***************************************************************************)
EXTENDS ConnectorSync, TLC

Symmetry == Permutations(Run) \cup Permutations(Handler)
=============================================================================
