---------------------------- MODULE MCSignatures ----------------------------
(* Finite instances of Signatures for TLC: a behaviour is about the        *)
(* operations of one scenario.                                             *)
EXTENDS Signatures, TLC

CONSTANTS a1, a2, v1, v2, c1, c2, t1, t2, x1, x2, w1, w2

From(start, ops) == [ops |-> ops, start |-> start]

Scenarios ==
  { From("required", {"gate", "sign", "complete", "reset", "clock"}),
    From("required", {"gate", "sign", "revoke"}),
    From("drafted", {"gate", "sign", "text", "publish"}),
    From("required", {"gate", "refresh", "sign", "settings", "withdraw"}),
    From("required", {"gate", "sign", "agreement", "edit"}),
    From("empty", {"agreement", "upload", "text",
                   "replace", "delete", "publish", "later", "clock"}) }

(* The user signs in once while a text changes, or the settings do twice.  *)
SignaturesExplored ==
  \/ {"text", "settings"} \cap scope.ops = {}
  \/ "settings" \in scope.ops /\ settings.rev <= 3
  \/ Cardinality({c \in Cont : cont[c].st # "none"}) <= 1

(* The scenarios of the runs that show where the code falls short.         *)
RenameScenarios   == {From("required", {"gate", "sign", "edit", "rename"})}
WithdrawScenarios == {From("required", {"settings", "withdraw"})}
LockoutScenarios  == {From("required", {"agreement"})}
EditScenarios     == {From("required", {"agreement", "edit", "upload", "publish"}),
                      From("required", {"gate", "sign", "agreement", "edit"})}
DraftScenarios    == {From("drafted", {"replace"})}

Ids == Permutations(Cont) \cup Permutations(Tx) \cup Permutations(Version)
         \cup Permutations(Agreement) \cup Permutations(Text)
=============================================================================
