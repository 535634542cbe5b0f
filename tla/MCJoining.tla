----------------------------- MODULE MCJoining -----------------------------
(* Finite instances of Joining for TLC: a behaviour is about the           *)
(* operations of one scenario.                                             *)
EXTENDS Joining, TLC

CONSTANTS u1, u2, n1, n2, t1, t2, h

About(ops, invites) == [ops |-> ops, invites |-> invites]

Scenarios ==
  { About({"invite", "resend", "approve", "deny", "revoke", "accept"}, 2),
    About({"invite", "resend", "revoke", "accept", "acceptToken", "decline", "declineToken"}, 2),
    About({"invite", "resend", "acceptToken"}, 3),
    About({"invite", "accept", "acceptToken", "placeOwn", "placeMapped", "requiredTeam",
           "remove"}, 2),
    About({"redeem", "selfJoin", "remove", "placeOwn"}, 0),
    About({"requestAccess", "autoGrant", "approveRequest", "reject", "remove", "placeOwn"}, 0) }

Ids == Permutations(User \ AutoGrant) \cup Permutations(Tx)
=============================================================================
