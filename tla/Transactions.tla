---------------------------- MODULE Transactions ----------------------------
(***************************************************************************)
(* What ArcadeSession promises of a unit of work (arcadedb.py, lines 1-8   *)
(* and 22-31): its writes are stored together or not at all, an answered   *)
(* commit has stored them, and what was reported as failed is never        *)
(* stored.  Only a commit whose answer was lost may have gone either way.  *)
(***************************************************************************)
EXTENDS Naturals

CONSTANT Tx

VARIABLES work, stored, told

vars == <<work, stored, told>>

Init ==
  /\ work = [t \in Tx |-> 0]
  /\ stored = {}
  /\ told = [t \in Tx |-> "none"]

Write(t) ==
  /\ t \notin stored
  /\ work' = [work EXCEPT ![t] = @ + 1]
  /\ UNCHANGED <<stored, told>>

Store(t) ==
  /\ t \notin stored
  /\ told[t] \in {"none", "unsure"}
  /\ stored' = stored \union {t}
  /\ told' \in {told, [told EXCEPT ![t] = "ok"]}
  /\ UNCHANGED work

Report(t, answer) ==
  /\ told[t] = "none"
  /\ t \notin stored
  /\ told' = [told EXCEPT ![t] = answer]
  /\ UNCHANGED <<work, stored>>

Next == \E t \in Tx : Write(t) \/ Store(t) \/ Report(t, "failed") \/ Report(t, "unsure")

Spec == Init /\ [][Next]_vars
=============================================================================
