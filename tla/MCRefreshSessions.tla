------------------------ MODULE MCRefreshSessions ------------------------
(* Finite instances of RefreshSessions for TLC. *)
EXTENDS RefreshSessions, TLC

CONSTANTS r1, r2, r3, r4, c1, c2, t1, t2, d1, d2, o1, o2, w1, w2, w3

(* Two organisations on two domains. *)
TwoOrgDomain == (o1 :> d1) @@ (o2 :> d2)
TwoOrgOf == (w1 :> o1) @@ (w2 :> o2) @@ (w3 :> o2)
TwoDefault == (o1 :> w1) @@ (o2 :> w2)

(* One organisation, with its default team or with a second one. *)
OneOrgDomain == (o1 :> d1)
OneOrgOf == (w1 :> o1)
TwoTeamsOrgOf == (w1 :> o1) @@ (w3 :> o1)
OneDefault == (o1 :> w1)

(* Bounds.  A state that is not explored is not extended.                  *)
Logins(n) ==
  Cardinality({c \in CodeId : code[c].st # "none"}) + Cardinality({t \in Tx : tx[t].op = "issueCode"}) <= n
RowsUsed(n)  == Cardinality({r \in RowId : row[r].st # "none"}) <= n
Only(ops)    == \A t \in Tx : tx[t].op \in ops \cup {"none", "issueCode", "exchange"}

(* Ids are alike, so they may as well be used in this order.               *)
RowOrder  == <<r1, r2, r3, r4>>
CodeOrder == <<c1, c2>>
InOrder ==
  /\ \A i \in 1..3 : RowOrder[i + 1] \in RowId /\ row[RowOrder[i + 1]].st # "none"
                       => row[RowOrder[i]].st # "none"
  /\ CodeOrder[2] \in CodeId /\ code[CodeOrder[2]].st # "none" => code[CodeOrder[1]].st # "none"

(* The long life of one family, two families side by side, and a domain    *)
(* that is disabled.                                                       *)
AboutOneFamily == Logins(1) /\ disabled = {} /\ (epoch <= 1 \/ now <= 1)
AboutTwoFamilies == disabled = {} /\ now = 0 /\ epoch <= 1
AboutDomains == Logins(1) /\ RowsUsed(2) /\ now = 0 /\ epoch = 0 /\ Only({"refresh"})
FamiliesExplored == InOrder /\ (AboutOneFamily \/ AboutTwoFamilies \/ AboutDomains)

(* Switches between two organisations after logins, one at a time; and the *)
(* memberships of one of them, while there is a session they could affect. *)
AboutSwitches ==
  /\ Only({"switch"}) /\ orgSt[o1] = "ACTIVE"
  /\ \A t \in Tx : tx[t].op \in {"issueCode", "exchange"} => \A u \in Tx \ {t} : tx[u].op = "none"
  /\ \A w \in Workspace : teamSt[w] = orgSt[OrgOf[w]] /\ teamSt[w] \in {"NONE", "ACTIVE"}
  /\ \A r \in RowId : row[r].revoked # Never => row[r].next # None
AboutMembers ==
  /\ orgSt[o1] = "NONE" /\ Logins(1) /\ RowsUsed(2)
  /\ RowsUsed(0) \/ \E r \in RowId : Live(r)
  /\ orgSt[o2] \in {"DEACTIVATED", "REMOVED"} => ~RowsUsed(0)
  /\ Only({"refresh"} \cup Revoking \cup Memberwise)
  /\ \A t \in Tx : tx[t].op = "issueCode" => tx[t].mfa /\ tx[t].dst # w1
  /\ \A t \in Tx : tx[t].op \in Revoking \cup Memberwise => tx[t].src # w1
ScopesExplored == InOrder /\ (AboutSwitches \/ AboutMembers)

Connections == Permutations(Tx)
Ids == Permutations(RowId) \cup Permutations(CodeId) \cup Permutations(Tx)
=============================================================================
