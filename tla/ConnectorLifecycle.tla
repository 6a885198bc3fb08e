------------------------- MODULE ConnectorLifecycle -------------------------
(***************************************************************************)
(* What the Sources page promises of one connector's displayed status:     *)
(* an outcome follows a running sync and nothing else, "interrupted" comes *)
(* only from a running sync, and a deleted connector never comes back.     *)
(***************************************************************************)
VARIABLE shown

Outcome == {"ok", "partial", "error"}

Status == Outcome \cup {"never", "queued", "running", "interrupted", "gone"}

Init == shown = "never"

\* A sync is accepted; a queued status written behind a running sync's back
\* shows once that sync lets go of its lock.
Queue == shown # "gone" /\ shown' = "queued"

Start == shown \notin {"never", "gone"} /\ shown' = "running"

Stop == shown = "running" /\ shown' \in Outcome \cup {"interrupted"}

Delete == shown # "gone" /\ shown' = "gone"

Next == Queue \/ Start \/ Stop \/ Delete

Spec == Init /\ [][Next]_shown
=============================================================================
