---------------------------- MODULE MCOrgRoster ----------------------------
(* Finite instances of OrgRoster for TLC. *)
EXTENDS OrgRoster, TLC

CONSTANTS u1, u2, u3, t1, t2

Ids == Permutations(User) \cup Permutations(Tx)
=============================================================================
