--------------------------- MODULE MCCredentials ---------------------------
(* Finite instances of Credentials for TLC. *)
EXTENDS Credentials, TLC

CONSTANTS k1, k2, k3, j1, s1, s2, t1, t2, p1, p2

(* Bounds.  A state that is not explored is not extended.                  *)
Only(ops, types) ==
  /\ \A t \in Tx : tx[t].op \in ops \cup types \cup {"none"}
  /\ \A k \in TokenId : Exists(k) => tok[k].type \in types
Unused(how) == \A l \in logins : l.how # how
ResetsByMail(n) == n = Cardinality({k \in TokenId : tok[k].type = "PASSWORD_RESET" /\ uses[k] > 0})
NoSecrets   == \A s \in Secret : setup[s] = Never
NoChooser   == \A j \in Jti : chooser[j].epoch = Never

(* The links that open an account, those of an account that exists, the    *)
(* second factor with either way to take it away, login codes, and the     *)
(* chooser, the last two beside password resets.                           *)
AboutOpening ==
  NoSecrets /\ NoChooser /\ user.epoch = 0 /\ Only({"social"}, Registration \cup {"LOGIN_LINK"})
AboutRecovery ==
  /\ NoSecrets /\ NoChooser /\ ResetsByMail(user.epoch) /\ Unused("social")
  /\ Only({"login"}, {"PASSWORD_RESET", "LOGIN_LINK"})
AboutFactor ==
  /\ NoChooser /\ now <= 1 /\ user.epoch <= 1 /\ Unused("social") /\ Unused("link")
  /\ \/ Only({"login", "setup", "enroll", "verify", "disable", "adminReset"}, {})
     \/ /\ Only({"login", "setup", "enroll", "verify"}, {"TWOFA_RESET"})
        /\ Cardinality({k \in TokenId : tok[k].st # "none"}) <= 1
AboutCodes ==
  /\ NoSecrets /\ NoChooser /\ now <= 1 /\ ResetsByMail(user.epoch) /\ Unused("social") /\ Unused("link")
  /\ Only({"login"}, {"PASSWORD_RESET", "LOGIN_CODE"})
AboutChooser ==
  /\ NoSecrets /\ now <= 1 /\ ResetsByMail(user.epoch) /\ Unused("social") /\ Unused("link")
  /\ Only({"login", "chooser", "select"}, {"PASSWORD_RESET"})
CredentialsExplored == AboutOpening \/ AboutRecovery \/ AboutFactor \/ AboutCodes \/ AboutChooser

Ids == Permutations(TokenId) \cup Permutations(Secret) \cup Permutations(Tx)
         \cup Permutations(Password)
=============================================================================
