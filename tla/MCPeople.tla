------------------------------ MODULE MCPeople ------------------------------
(***************************************************************************)
(* People for TLC.  Accounts, groups and requests are interchangeable.     *)
(***************************************************************************)
EXTENDS People, TLC

Symmetry == Permutations(User) \cup Permutations(Group) \cup Permutations(Request)
=============================================================================
