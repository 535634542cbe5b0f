-------------------------- MODULE MCClientDomains --------------------------
(* Finite instances of ClientDomains for TLC. *)
EXTENDS ClientDomains, TLC

CONSTANTS d1, d2, k1, k2, r1, r2, r3, j1, j2, t1, t2

Scope(ops, start) == [ops |-> ops, start |-> start]

Scenarios ==
  { Scope({"discover", "accept", "decline", "delete", "register"}, "empty"),
    Scope({"discover", "accept", "register", "status"}, "empty"),
    Scope({"discover", "accept", "keys"}, "empty"),
    Scope({"resend", "claim", "sweep", "delete"}, "accepted"),
    Scope({"rotate", "claim", "direct"}, "accepted"),
    Scope({"rotate", "resend", "claim"}, "accepted"),
    Scope({"sign", "exchange", "status", "mapping", "prune"}, "accepted"),
    Scope({"sign", "exchange", "reset", "prune", "status"}, "accepted") }

Replacements == {Scope({"rotate", "resend", "claim"}, "accepted")}
Resends      == {Scope({"resend", "claim"}, "accepted")}
Decisions    == {Scope({"discover", "accept", "decline"}, "empty")}
Exchanges    == {Scope({"sign", "exchange", "mapping"}, "accepted")}
Retention    == {Scope({"sign", "exchange", "prune"}, "accepted")}

Ids == Permutations(Domain) \cup Permutations(Kid) \cup Permutations(Request)
         \cup Permutations(Assertion) \cup Permutations(Tx)
=============================================================================
