---------------------------- MODULE CreditLedger ----------------------------
(***************************************************************************)
(* The money of ONE credit account in one billing month: payments add      *)
(* credits, settlements of the metering Ledger's portfolios consume them   *)
(* and give them back, refunds and disputes of a payment take them away    *)
(* and return them.  Amounts are whole credits; usage arrives rated, in    *)
(* units of which a credit buys Unit.                                      *)
(*                                                                         *)
(* Every balance is computed by a handler and recomputed by a trigger of   *)
(* the schema, which rolls the transaction back when the two disagree.     *)
(***************************************************************************)
EXTENDS Integers, Sequences, FiniteSets, Functions

CONSTANTS
  Replica, None,
  Team,          \* the teams whose usage the account pays: one for a TEAM
                 \* account, all of the organisation's for an ORGANISATION's
  Service, User, \* sets of numbers, ordered as the code orders identifiers
  Usages,        \* [Team -> sets of portfolios]: rated usage per bucket
  Unit,
  MaxSnapshots,  \* bound: portfolios the metering Ledger captures
  Scopes,        \* bounds: the number of portfolios, the refunds and disputes
                 \* and the events of each that a behaviour is about
  Payment, Price,  \* payments of the account, and the credits each buys
  Object, Charge, Principal  \* refunds and disputes: the payment each is
                 \* about and its principal in credits

Bucket == Service \X User
Snapshot == 1..MaxSnapshots

\* copy: a refund that fails is announced by two events, refund.updated and
\* refund.failed.
Event == [obj : Object, rev : BOOLEAN, copy : 1..2]
Row   == Object \X BOOLEAN
NoRow == -1

ASSUME CreditLedgerAssumption ==
  /\ None \notin Replica
  /\ Service \subseteq Nat /\ IsFiniteSet(Service) /\ User \subseteq Nat /\ IsFiniteSet(User)
  /\ Unit \in Nat \ {0} /\ MaxSnapshots \in Nat
  /\ \A t \in Team : \A u \in Usages[t] : DOMAIN u \subseteq Bucket /\ \A b \in DOMAIN u : u[b] \in Nat
  /\ IsFiniteSet(Payment) /\ Price \in [Payment -> Nat \ {0}]
  /\ Scopes \subseteq [snapshots : 0..MaxSnapshots, objects : SUBSET Object, copies : 1..2]
  /\ IsFiniteSet(Object) /\ Charge \in [Object -> Payment] /\ Principal \in [Object -> Nat \ {0}]

VARIABLES
  ledger,    \* the portfolios captured, oldest first: [team, usage]
  known,     \* billing_credit_portfolio_snapshots
  settled,   \* billing_credit_usage_settlements: cumulative [rated, consumed]
  chain,     \* their adjustments: the snapshots each service was settled by
  alloc,     \* latest billing_credit_usage_allocations: [rated, consumed]
  balance,   \* billing_credit_accounts.balance_microcredits
  paid,      \* payments recorded: TOP_UP and AUTOMATIC_TOP_UP entries
  adj,       \* billing_credit_payment_adjustments: credits moved, or NoRow
  moved,     \* refunds and disputes at Stripe: 0 none, 1 taken, 2 returned
  answered,  \* billing_stripe_webhook_events
  task, payLock, accountLock,
  scope      \* bounds the behaviour.  Never changes.

vars == <<ledger, known, settled, chain, alloc, balance, paid, adj, moved, answered, task, payLock, accountLock, scope>>
usageVars  == <<known, settled, chain, alloc>>
stripeVars == <<paid, adj, moved, answered>>
lockVars   == <<payLock, accountLock, scope>>

Idle == [op |-> "idle", snap |-> 0, ev |-> None, delta |-> 0, seen |-> 0]

Lesser(a, b) == IF a < b THEN a ELSE b
Unclamped(n) == n
Positive(n)  == IF n > 0 THEN n ELSE 0
Total(f) == SumFunction(f)

----------------------------------------------------------------------------
(* Rating a portfolio.                                                     *)

RatedUsage(i, b) == IF b \in DOMAIN ledger[i].usage THEN ledger[i].usage[b] ELSE 0
Capacity(i, b)   == RatedUsage(i, b) \div Unit

\* What a bucket keeps of the credits it consumed before.
Kept(i, b) == Lesser(alloc[b].consumed, Capacity(i, b))

\* Credits released by the buckets whose usage was corrected downwards are
\* available to the others.
Available(i) == Positive(balance + Total([b \in Bucket |-> alloc[b].consumed - Kept(i, b)]))

\* New credits are shared in proportion to what each bucket can still take;
\* what rounding leaves over goes to the largest remainders, one each.
Room(i) == [b \in Bucket |-> Capacity(i, b) - Kept(i, b)]
Earlier(b, c) == b[1] < c[1] \/ (b[1] = c[1] /\ b[2] < c[2])

Shares(room, available) ==
  LET capacity == Total(room)
      credits  == Lesser(available, capacity)
      floor    == [b \in Bucket |-> IF capacity = 0 THEN 0 ELSE (room[b] * credits) \div capacity]
      rest     == [b \in Bucket |-> IF capacity = 0 THEN 0 ELSE (room[b] * credits) % capacity]
      Before(b, c) == rest[b] > rest[c] \/ (rest[b] = rest[c] /\ Earlier(b, c))
      Rank(b)  == Cardinality({c \in Bucket : floor[c] < room[c] /\ Before(c, b)})
      over     == credits - Total(floor)
  IN [b \in Bucket |-> floor[b] + IF floor[b] < room[b] /\ Rank(b) < over THEN 1 ELSE 0]

RateCreditPortfolio(i) ==
  LET share == Shares(Room(i), Available(i))
  IN [b \in Bucket |-> [rated |-> RatedUsage(i, b), consumed |-> Kept(i, b) + share[b]]]

OfService(rated, s) ==
  [rated    |-> Total([u \in User |-> rated[<<s, u>>].rated]),
   consumed |-> Total([u \in User |-> rated[<<s, u>>].consumed])]

----------------------------------------------------------------------------
(* Settling it.                                                            *)

Named(i) == {b[1] : b \in DOMAIN ledger[i].usage}
\* Every service settled this month, also those the portfolio does not name.
Involved(i) == {s \in Service : chain[s] # {}} \cup Named(i)
Replays(i)  == {s \in Service : i \in chain[s]}
Superseded(i) == i \notin known /\ \E k \in known : i <= k

Delta(i, rated, s) == IF s \in Involved(i) THEN OfService(rated, s).consumed - settled[s].consumed ELSE 0

ByIdentifier(d, t, s) == t < s
\* Services that give credits back are written first.
WrittenBefore(d, t, s) == IF (d[t] < 0) # (d[s] < 0) THEN d[t] < 0 ELSE t < s

WrittenUpTo(d, s) == {t \in Service : t = s \/ WrittenBefore(d, t, s)}

\* billing_credit_entry_apply: usage never consumes more than there is.
EntriesAdmitted(d) ==
  \A s \in Service : d[s] > 0 => balance - Total([t \in WrittenUpTo(d, s) |-> d[t]]) >= 0

\* billing_credit_settlement_adjustment_apply: no older snapshot.
ChainAdmits(i) == \A s \in Involved(i) : \A k \in chain[s] : k < i

Deltas(i, rated) == [s \in Service |-> Delta(i, rated, s)]
SettlementAdmitted(i) == ChainAdmits(i) /\ EntriesAdmitted(Deltas(i, RateCreditPortfolio(i)))

\* billing_credit_usage_allocations: every bucket of a service that is
\* settled, also the ones the portfolio names no more.
Allocations(i, rated) == [b \in Bucket |-> IF b[1] \in Involved(i) THEN rated[b] ELSE alloc[b]]

SettlePortfolio(i) ==
  LET rated == RateCreditPortfolio(i)
  IN /\ alloc' = Allocations(i, rated)
     /\ settled' = [s \in Service |-> IF s \in Involved(i) THEN OfService(rated, s) ELSE settled[s]]
     /\ chain' = [s \in Service |-> IF s \in Involved(i) THEN chain[s] \cup {i} ELSE chain[s]]
     /\ balance' = balance - Total(Deltas(i, rated))

Done(r) == task' = [task EXCEPT ![r] = Idle]

\* The metering Ledger captures a team's usage; later portfolios may also
\* correct it downwards.
Capture(t, u) ==
  /\ Len(ledger) < scope.snapshots
  /\ ledger' = Append(ledger, [team |-> t, usage |-> u])
  /\ UNCHANGED <<usageVars, balance, stripeVars, task, lockVars>>

\* The portfolio is fetched before the transaction that settles it begins.
FetchPortfolio(r, i) ==
  /\ task[r] = Idle
  /\ \A k \in i + 1..Len(ledger) : ledger[k].team # ledger[i].team
  /\ task' = [task EXCEPT ![r] = [Idle EXCEPT !.op = "settle", !.snap = i]]
  /\ UNCHANGED <<ledger, usageVars, balance, stripeVars, lockVars>>

\* Answered without effect: an older portfolio, one that was settled (also
\* only in part, which is an error), or one that names nothing.
SettleNothing(r) ==
  LET i == task[r].snap
  IN /\ task[r].op = "settle" /\ accountLock = None
     /\ \/ Superseded(i) /\ UNCHANGED known
        \/ ~Superseded(i) /\ (Replays(i) # {} \/ Involved(i) = {}) /\ known' = known \cup {i}
     /\ Done(r)
     /\ UNCHANGED <<ledger, settled, chain, alloc, balance, stripeVars, lockVars>>

\* One serializable transaction under the lock of the account's row.
Settle(r) ==
  LET i == task[r].snap
  IN /\ task[r].op = "settle" /\ accountLock = None
     /\ ~Superseded(i) /\ Replays(i) = {} /\ Involved(i) # {}
     /\ SettlementAdmitted(i)
     /\ SettlePortfolio(i)
     /\ known' = known \cup {i}
     /\ Done(r)
     /\ UNCHANGED <<ledger, stripeVars, lockVars>>

----------------------------------------------------------------------------
(* Payments, and the refunds and disputes that take them back.             *)

TopUp(p) ==
  /\ p \notin paid /\ accountLock = None
  /\ paid' = paid \cup {p}
  /\ balance' = balance + Price[p]
  /\ UNCHANGED <<ledger, usageVars, adj, moved, answered, task, lockVars>>

\* Stripe refunds or withdraws the principal, and may return it.
StripeMoves(o) ==
  /\ moved[o] < 2 /\ o \in scope.objects
  /\ moved' = [moved EXCEPT ![o] = @ + 1]
  /\ UNCHANGED <<ledger, usageVars, balance, paid, adj, answered, task, lockVars>>

Stage(e) == IF e.rev THEN 2 ELSE 1
Sent == {e \in Event : e.copy <= scope.copies /\ moved[e.obj] >= Stage(e)}

Active(rows, o)   == IF <<o, FALSE>> \in rows THEN Principal[o] ELSE 0
Restored(rows, o) == IF <<o, TRUE>> \in rows THEN Principal[o] ELSE 0
ObjectsOf(p) == {o \in Object : Charge[o] = p}
RowsOf(p)    == {x \in Row : Charge[x[1]] = p /\ adj[x] # NoRow}
RowOf(e)     == <<e.obj, e.rev>>
Applied(p) == Total([x \in RowsOf(p) |-> IF x[2] THEN -adj[x] ELSE adj[x]])

\* expectedAppliedDelta: what the rows and the event together leave applied,
\* less what is applied.
DesiredApplied(p, rows) ==
  Lesser(Price[p], Total([o \in ObjectsOf(p) |-> Positive(Active(rows, o) - Restored(rows, o))]))
AppliedDelta(e) ==
  LET p == Charge[e.obj] IN DesiredApplied(p, RowsOf(p) \cup {RowOf(e)}) - Applied(p)

\* billing_credit_payment_adjustment_coherence: the change of what is active.
TakenOf(p) == {x \in RowsOf(p) : ~x[2]}
ActiveBefore(p) == Total([x \in TakenOf(p) |-> Positive(Principal[x[1]] - Restored(RowsOf(p), x[1]))])
ActiveAfter(e) ==
  LET p == Charge[e.obj]
      o == e.obj
  IN IF e.rev
     THEN ActiveBefore(p) - Lesser(Positive(Active(RowsOf(p), o) - Restored(RowsOf(p), o)), Principal[o])
     ELSE ActiveBefore(p) + Positive(Principal[o] - Restored(RowsOf(p), o))
AdjustmentAdmitted(e, delta) ==
  LET p == Charge[e.obj]
      before == Lesser(Price[p], ActiveBefore(p))
  IN Applied(p) = before /\ delta = Lesser(Price[p], ActiveAfter(e)) - before

SignedRight(e, delta) == IF e.rev THEN delta <= 0 ELSE delta >= 0

\* The event says what its object no longer says: recorded, not applied.
IgnoreEvent(e) ==
  /\ e \in Sent \ answered /\ moved[e.obj] # Stage(e)
  /\ answered' = answered \cup {e}
  /\ UNCHANGED <<ledger, usageVars, balance, paid, adj, moved, task, lockVars>>

\* Refused, and delivered again, while the payment is not recorded.
PrepareAdjustment(r, e) ==
  /\ task[r] = Idle
  /\ e \in Sent \ answered /\ moved[e.obj] = Stage(e) /\ Charge[e.obj] \in paid
  /\ task' = [task EXCEPT ![r] = [Idle EXCEPT !.op = "prepared", !.ev = e]]
  /\ UNCHANGED <<ledger, usageVars, balance, stripeVars, lockVars>>

ExistingForObject(e) == \E rev \in BOOLEAN : adj[<<e.obj, rev>>] # NoRow
Existing(e) == adj[RowOf(e)] # NoRow

\* The event was answered by another delivery, or the object's other event
\* made the same adjustment.
AlreadyAdjusted(r) ==
  LET e == task[r].ev
  IN /\ task[r].op = "prepared" /\ payLock[Charge[e.obj]] = None
     /\ e \in answered \/ Existing(e)
     /\ answered' = answered \cup {e}
     /\ Done(r)
     /\ UNCHANGED <<ledger, usageVars, balance, paid, adj, moved, lockVars>>

\* Under the lock of the payment: what the event moves.
BeginAdjustment(r) ==
  LET e == task[r].ev
  IN /\ task[r].op = "prepared" /\ payLock[Charge[e.obj]] = None
     /\ e \notin answered /\ ~Existing(e)
     /\ SignedRight(e, AppliedDelta(e))
     /\ payLock' = [payLock EXCEPT ![Charge[e.obj]] = r]
     /\ task' = [task EXCEPT ![r].op = "adjusting", ![r].delta = AppliedDelta(e)]
     /\ UNCHANGED <<ledger, usageVars, balance, stripeVars, accountLock, scope>>

\* The account's row is locked, and its balance read, if credits move.
LockBalance(r) ==
  /\ task[r].op = "adjusting" /\ task[r].delta # 0 /\ accountLock = None
  /\ accountLock' = r
  /\ task' = [task EXCEPT ![r].op = "locked", ![r].seen = balance]
  /\ UNCHANGED <<ledger, usageVars, balance, stripeVars, payLock, scope>>

ReadyToCommit(r) ==
  task[r].op = "locked" \/ (task[r].op = "adjusting" /\ task[r].delta = 0)

\* billing_credit_entry_apply compares the new balance with its own.
CommitAdmitted(r) ==
  /\ AdjustmentAdmitted(task[r].ev, task[r].delta)
  /\ task[r].op = "locked" => task[r].seen = balance

Unlock(r) ==
  /\ payLock' = [p \in Payment |-> IF payLock[p] = r THEN None ELSE payLock[p]]
  /\ accountLock' = IF accountLock = r THEN None ELSE accountLock

CommitAdjustment(r) ==
  LET e == task[r].ev
  IN /\ ReadyToCommit(r) /\ CommitAdmitted(r)
     /\ adj' = [adj EXCEPT ![RowOf(e)] = IF e.rev THEN -task[r].delta ELSE task[r].delta]
     /\ balance' = balance - task[r].delta
     /\ answered' = answered \cup {e}
     /\ Unlock(r) /\ Done(r)
     /\ UNCHANGED <<ledger, usageVars, paid, moved, scope>>

\* A crash, a lost connection, a refusal: the transaction is rolled back.
Abort(r) ==
  /\ task[r] # Idle
  /\ Unlock(r) /\ Done(r)
  /\ UNCHANGED <<ledger, usageVars, balance, stripeVars, scope>>

----------------------------------------------------------------------------
Init ==
  /\ ledger = <<>> /\ known = {} /\ paid = {} /\ answered = {}
  /\ settled = [s \in Service |-> [rated |-> 0, consumed |-> 0]]
  /\ chain = [s \in Service |-> {}]
  /\ alloc = [b \in Bucket |-> [rated |-> 0, consumed |-> 0]]
  /\ balance = 0
  /\ adj = [x \in Row |-> NoRow] /\ moved = [o \in Object |-> 0]
  /\ task = [r \in Replica |-> Idle]
  /\ payLock = [p \in Payment |-> None] /\ accountLock = None
  /\ scope \in Scopes

Next ==
  \/ \E t \in Team : \E u \in Usages[t] : Capture(t, u)
  \/ \E r \in Replica, i \in 1..Len(ledger) : FetchPortfolio(r, i)
  \/ \E r \in Replica : SettleNothing(r)
  \/ \E r \in Replica : Settle(r)
  \/ \E p \in Payment : TopUp(p)
  \/ \E o \in Object : StripeMoves(o)
  \/ \E e \in Event : IgnoreEvent(e)
  \/ \E r \in Replica, e \in Event : PrepareAdjustment(r, e)
  \/ \E r \in Replica : AlreadyAdjusted(r)
  \/ \E r \in Replica : BeginAdjustment(r)
  \/ \E r \in Replica : LockBalance(r)
  \/ \E r \in Replica : CommitAdjustment(r)
  \/ \E r \in Replica : Abort(r)

Spec == Init /\ [][Next]_vars

----------------------------------------------------------------------------
(* Properties.                                                             *)

\* Every variable holds what its column may hold, whatever Next did.
TypeOK ==
  /\ ledger \in Seq([team : Team, usage : UNION {Usages[t] : t \in Team}]) /\ Len(ledger) <= MaxSnapshots
  /\ \A i \in 1..Len(ledger) : ledger[i].team \in Team /\ ledger[i].usage \in Usages[ledger[i].team]
  /\ known \subseteq 1..Len(ledger)
  /\ settled \in [Service -> [rated : Nat, consumed : Nat]]
  /\ chain \in [Service -> SUBSET known]
  /\ alloc \in [Bucket -> [rated : Nat, consumed : Nat]]
  /\ balance \in Int /\ paid \subseteq Payment
  /\ adj \in [Row -> Nat \cup {NoRow}] /\ moved \in [Object -> 0..2]
  /\ answered \subseteq Event
  /\ task \in [Replica -> [op : {"idle", "settle", "prepared", "adjusting", "locked"},
       snap : 0..Len(ledger), ev : Event \cup {None}, delta : Int, seen : Int]]
  /\ payLock \in [Payment -> Replica \cup {None}] /\ accountLock \in Replica \cup {None}
  /\ scope \in Scopes

\* The balance is what payments bought, less what refunds and disputes took
\* and what usage consumed: no interleaving of settlements and webhooks, no
\* retry and no redelivery loses or makes credits.
BalanceExplained ==
  balance = Total([p \in paid |-> Price[p] - Applied(p)]) - Total([s \in Service |-> settled[s].consumed])

\* What a service was charged is what its users were charged, and no user's
\* credits pay for more than that user's usage, through corrections in both
\* directions and users who come and go.
CreditsAreAttributed ==
  /\ \A s \in Service : settled[s] = OfService(alloc, s)
  /\ \A b \in Bucket : alloc[b].consumed * Unit <= alloc[b].rated

\* What a handler computed is what the trigger computes when it is written:
\* a new portfolio is never refused because services were charged before
\* others gave credits back, and an adjustment is never refused because
\* another request moved the balance or the payment meanwhile.
TriggersAgree ==
  /\ \A i \in 1..Len(ledger) :
       ~Superseded(i) /\ i \notin known => SettlementAdmitted(i)
  /\ \A r \in Replica : ReadyToCommit(r) => CommitAdmitted(r)

\* When every event was answered, a payment has lost exactly what Stripe
\* holds back of it: events that overtook each other, were ignored because
\* their object had moved on, or came twice leave nothing behind.
HeldBack(p) == {o \in ObjectsOf(p) : moved[o] = 1}
RefundsReachTheBalance ==
  Sent \subseteq answered =>
    \A p \in paid : Applied(p) = Lesser(Price[p], Total([o \in HeldBack(p) |-> Principal[o]]))

\* Every credit is accounted for: on the account, among its users, and
\* against what Stripe holds back.
CreditsAreAccounted == BalanceExplained /\ CreditsAreAttributed /\ RefundsReachTheBalance

\* A service's settlement rates what the latest portfolio settled of each
\* team the account pays for says, the portfolios that arrived late and the
\* services and users a portfolio names no more included.  A TEAM account pays
\* for one team; an organisation's pays for several, and there it does not
\* hold (OrgUsage.cfg).
LatestOf(t) == {i \in known : ledger[i].team = t /\ \A k \in known : ledger[k].team = t => k <= i}
SettledUsageIsCurrent ==
  \A s \in Service : settled[s].rated =
    Total([i \in UNION {LatestOf(t) : t \in Team} |-> Total([u \in User |-> RatedUsage(i, <<s, u>>)])])

\* A settlement leaves credits on the account only when it has paid all the
\* usage whole credits can pay, also with what the same portfolio released.
CreditsAreUsedFirst ==
  chain' # chain /\ balance' > 0 =>
    \A b \in Bucket : alloc'[b].consumed = alloc'[b].rated \div Unit

\* Settlement keeps up with the usage, and pays all of it that it can.
SettlementsAreCurrent == [][CreditsAreUsedFirst /\ SettledUsageIsCurrent']_vars
=============================================================================
