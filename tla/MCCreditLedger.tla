--------------------------- MODULE MCCreditLedger ---------------------------
(* Finite instances of CreditLedger for TLC.                               *)
EXTENDS CreditLedger, TLC

CONSTANTS r1, r2, t1, t2, p1, p2, o1, o2

\* Two services, two users: usage grows, moves between services and users,
\* is corrected downwards, and disappears.
Portfolios ==
  { <<1, 1>> :> 4 @@ <<1, 2>> :> 2,
    <<1, 1>> :> 1 @@ <<2, 1>> :> 5,
    <<2, 1>> :> 2 @@ <<1, 2>> :> 7,
    <<>> }
OneTeam  == [t \in Team |-> Portfolios]
TwoTeams == t1 :> {<<1, 1>> :> 4} @@ t2 :> {<<1, 2>> :> 2}

Prices     == p1 :> 2 @@ p2 :> 1
Charges    == o1 :> p1 @@ o2 :> p1
Principals == o1 :> 2 @@ o2 :> 1

About(snapshots, objects, copies) ==
  [snapshots |-> snapshots, objects |-> objects, copies |-> copies]
Scenarios == {About(3, {}, 1), About(2, {o1}, 1), About(0, {o1, o2}, 2), About(1, {o1, o2}, 1)}
Usage     == {About(3, {}, 1)}

Replicas == Permutations(Replica)
=============================================================================
