----------------------------- MODULE AutoTopUp -----------------------------
(***************************************************************************)
(* Automatic top-ups of ONE credit account: scheduler replicas that charge *)
(* a stored card, Stripe, the webhooks that report what became of a        *)
(* charge, and the customer's consent (set up, updated, disabled and       *)
(* recovered).  Every lock of this code is per account, and every charge   *)
(* costs 1.                                                                *)
(*                                                                         *)
(* A handler reads, calls Stripe and writes in separate steps; what it     *)
(* wrote is then judged by the triggers of the schema, which roll its      *)
(* transaction back.                                                       *)
(***************************************************************************)
EXTENDS Integers, FiniteSets

CONSTANTS
  Replica,        \* processes of the API; each does one thing at a time
  None,
  MaxAttempts, MaxIntents, MaxCheckouts,  \* bounds: rows, objects at Stripe
  MaxGen,         \* bound: changes of consent
  MaxMonth,       \* bound: billing months
  MaxTime,        \* bound: event.created, in seconds
  MonthlyCap,     \* charges a month under each consent revision
  Scopes          \* bounds: the operations, payment statuses and numbers of
                  \* attempts, setup checkouts and months a behaviour is about,
                  \* and the schema it runs on (see scope below)

Attempt  == 1..MaxAttempts
Intent   == 1..MaxIntents
Checkout == 1..MaxCheckouts
Revision == 1..MaxGen

Unresolved == {"PENDING", "PROCESSING", "REQUIRES_ACTION", "NEEDS_REVIEW"}
Terminal   == {"SUCCEEDED", "FAILED", "CANCELED"}
OpenCheckout  == {"CREATING", "OPEN"}
RecoveryState == {"PAUSED", "REQUIRES_ACTION", "NEEDS_REVIEW"}
Status    == {"succeeded", "processing", "requires_action", "requires_payment_method", "canceled"}
Operation == {"setup", "update", "disable", "recover", "refund"}

ASSUME AutoTopUpAssumption ==
  /\ MaxAttempts \in Nat /\ MaxIntents \in Nat /\ MaxCheckouts \in Nat
  /\ MaxGen \in Nat \ {0} /\ MaxMonth \in Nat /\ MaxTime \in Nat
  /\ MonthlyCap \in [Revision -> Nat]
  /\ None \notin Replica
  /\ Scopes \subseteq [ops : SUBSET Operation, statuses : SUBSET Status, frozen : BOOLEAN,
        attempts : 0..MaxAttempts, checkouts : 0..MaxCheckouts, months : 1..MaxMonth]

VARIABLES
  acct,      \* the credit account; low: its balance is below the threshold
  att,       \* automatic top-up attempts; entries: ledger entries of one
  chk,       \* setup checkouts; session: the Checkout Session at Stripe
  pi,        \* PaymentIntents at Stripe, and the attempt in their metadata
  sent,      \* events Stripe emits, and delivers until one is answered
  recorded,  \* billing_stripe_webhook_events
  task,      \* what each replica is doing
  lock,      \* the replica in a dispatch transaction, or None
  late,      \* Stripe requests of replicas whose transaction is gone
  month,
  scope      \* bounds the behaviour: what it is about.  Never changes.
             \* frozen: the identity guard on attempts does not list the column
             \* state_webhook_event_id among those an update may change.  TRUE
             \* is the schema of the repository, FALSE the schema its handlers
             \* are written for.

vars == <<acct, att, chk, pi, sent, recorded, task, lock, late, month, scope>>

NoEvent   == [type |-> "none", obj |-> 0, st |-> "none", at |-> 0]
NoAttempt == [st |-> "none", rev |-> 0, month |-> 0, pi |-> 0, ev |-> NoEvent, entries |-> 0]
NoCheckout == [st |-> "none", gen |-> 0, rev |-> 0, attached |-> FALSE, session |-> "none"]
NoIntent  == [st |-> "none", a |-> 0, at |-> 0]
Idle == [op |-> "idle", a |-> 0, p |-> 0, c |-> 0, e |-> NoEvent, ev |-> NoEvent,
         seen |-> "none", to |-> "none", gen |-> 0, rev |-> 0]

----------------------------------------------------------------------------
(* What the schema refuses.                                                *)

EvidenceFixed(old, new) == scope.frozen => new.ev = old.ev
TerminalFixed(old, new) ==
  old.st \in Terminal => new.st = old.st /\ new.ev = old.ev /\ new.pi = old.pi
EvidenceLater(old, new) == old.ev # NoEvent => old.ev.at < new.ev.at
EvidenceInOrder(old, new) == old.ev # NoEvent => old.ev.at <= new.ev.at
EvidenceProves(row) ==
  row.st # "SUCCEEDED" /\ row.ev # NoEvent =>
    CASE row.ev.type = "payment_failed"  -> row.st \in {"NEEDS_REVIEW", "FAILED"}
      [] row.ev.type = "processing"      -> row.st = "PROCESSING"
      [] row.ev.type = "requires_action" -> row.st \in {"REQUIRES_ACTION", "NEEDS_REVIEW"}
      [] row.ev.type = "canceled"        -> row.st \in {"CANCELED", "NEEDS_REVIEW"}
RowComplete(row) ==
  /\ row.st \in {"PROCESSING", "REQUIRES_ACTION", "FAILED", "CANCELED"} =>
       row.pi # 0 /\ row.ev # NoEvent
  /\ row.st = "PENDING" => row.ev = NoEvent

AttemptAllowed(old, new) ==
  /\ EvidenceFixed(old, new) /\ TerminalFixed(old, new) /\ EvidenceInOrder(old, new)
  /\ EvidenceProves(new) /\ RowComplete(new)

(* Two events of one second say the charge is processing and that it needs *)
(* the customer: the trigger writes NEEDS_REVIEW instead.                  *)
Ambiguous(old, new) ==
  /\ old.ev # NoEvent /\ old.ev # new.ev /\ old.ev.at = new.ev.at
  /\ {old.ev.type, new.ev.type} = {"processing", "requires_action"}
Judged(old, new) == IF Ambiguous(old, new) THEN [new EXCEPT !.st = "NEEDS_REVIEW"] ELSE new

UnresolvedAttempts == {a \in Attempt : att[a].st \in Unresolved}
OpenCheckouts      == {c \in Checkout : chk[c].st \in OpenCheckout}

ConsentAlwaysChanges == TRUE
ConsentMayChange == UnresolvedAttempts = {}
PredecessorHolds(c) == chk[c].gen = acct.gen /\ chk[c].rev = acct.rev

(* Account and attempt rows are locked from the start of a dispatch to its *)
(* end, the call of Stripe included.                                       *)
RowsFree == lock = None

----------------------------------------------------------------------------
(* Stripe.                                                                 *)

EventType(st) ==
  CASE st = "succeeded" -> "succeeded"
    [] st = "processing" -> "processing"
    [] st = "requires_action" -> "requires_action"
    [] st = "canceled" -> "canceled"
    [] st = "requires_payment_method" -> "payment_failed"

Event(type, p, st, at) == [type |-> type, obj |-> p, st |-> st, at |-> at]

(* A declined authentication may leave the intent open for the customer.   *)
Outcomes(st) ==
  CASE st = "none" -> {"succeeded", "processing", "requires_action", "requires_payment_method"}
    [] st = "processing" -> {"succeeded", "requires_payment_method"}
    [] st = "requires_action" -> {"succeeded", "processing", "requires_payment_method", "canceled"}
    [] st = "requires_payment_method" -> {"canceled"}
    [] OTHER -> {}

Enters(p, st) ==
  \E at \in {pi[p].at, pi[p].at + 1} :
    /\ at <= MaxTime
    /\ pi' = [pi EXCEPT ![p].st = st, ![p].at = at]
    /\ sent' = sent \cup {Event(EventType(st), p, st, at)}

PaymentMoves(p) ==
  /\ pi[p].a # 0
  /\ \E st \in Outcomes(pi[p].st) \cap scope.statuses : Enters(p, st)
  /\ UNCHANGED <<acct, att, chk, recorded, task, lock, late, month, scope>>

AuthenticationFails(p) ==
  /\ pi[p].st = "requires_action" /\ pi[p].at < MaxTime
  /\ "requires_payment_method" \in scope.statuses
  /\ pi' = [pi EXCEPT ![p].at = @ + 1]
  /\ sent' = sent \cup {Event("payment_failed", p, "requires_action", pi[p].at + 1)}
  /\ UNCHANGED <<acct, att, chk, recorded, task, lock, late, month, scope>>

(* paymentIntents.create: the same idempotency key, the same intent.       *)
IntentsOf(a) == {p \in Intent : pi[p].a = a}
NewKey(a) == {}
SameKey(a) == IntentsOf(a)

Create(a, p) ==
  IF SameKey(a) # {}
    THEN p \in SameKey(a) /\ UNCHANGED <<pi, sent>>
    ELSE /\ pi[p].a = 0 /\ \A q \in 1..(p - 1) : pi[q].a # 0
         /\ \E st \in Outcomes("none") \cap scope.statuses :
              /\ pi' = [pi EXCEPT ![p] = [st |-> st, a |-> a, at |-> 0]]
              /\ sent' = sent \cup {Event(EventType(st), p, st, 0)}

----------------------------------------------------------------------------
(* The scheduler.                                                          *)

UsageSettles ==
  /\ ~acct.low /\ RowsFree
  /\ acct' = [acct EXCEPT !.low = TRUE]
  /\ UNCHANGED <<att, chk, pi, sent, recorded, task, lock, late, month, scope>>

MonthEnds ==
  /\ month < scope.months
  /\ month' = month + 1
  /\ UNCHANGED <<acct, att, chk, pi, sent, recorded, task, lock, late, scope>>

ChargedIgnored == 0
ChargedThisMonth ==
  Cardinality({a \in Attempt : att[a].st = "SUCCEEDED" /\ att[a].month = month})

(* claimCreditAutoTopUpAttempt: one transaction under the account's locks. *)
Claim(r) ==
  /\ task[r].op = "idle" /\ RowsFree
  /\ \E a \in Attempt :
       /\ \/ /\ att[a].st = "PENDING" /\ att[a].pi = 0
             /\ att' = att
          \/ /\ UnresolvedAttempts = {}
             /\ a <= scope.attempts /\ att[a].st = "none" /\ \A b \in 1..(a - 1) : att[b].st # "none"
             /\ acct.state = "ACTIVE" /\ acct.low
             /\ ChargedThisMonth + 1 <= MonthlyCap[acct.rev]
             /\ att' = [att EXCEPT ![a] = [NoAttempt EXCEPT
                          !.st = "PENDING", !.rev = acct.rev, !.month = month]]
       /\ task' = [task EXCEPT ![r] = [Idle EXCEPT !.op = "dispatch", !.a = a]]
  /\ UNCHANGED <<acct, chk, pi, sent, recorded, lock, late, month, scope>>

(* dispatchCreditAutoTopUpAttempt: a transaction around the call.          *)
DispatchBegin(r) ==
  /\ task[r].op = "dispatch" /\ RowsFree
  /\ LET a == task[r].a IN
     IF att[a].st = "PENDING" /\ att[a].pi = 0
       THEN /\ lock' = r
            /\ task' = [task EXCEPT ![r].op = "call"]
       ELSE /\ lock' = lock
            /\ task' = [task EXCEPT ![r] = Idle]
  /\ UNCHANGED <<acct, att, chk, pi, sent, recorded, late, month, scope>>

DispatchCall(r) ==
  /\ task[r].op = "call"
  /\ \E p \in Intent :
       /\ Create(task[r].a, p)
       /\ task' = [task EXCEPT ![r].op = "store", ![r].p = p]
  /\ UNCHANGED <<acct, att, chk, recorded, lock, late, month, scope>>

DispatchStore(r) ==
  /\ task[r].op = "store"
  /\ LET a == task[r].a
         new == [att[a] EXCEPT !.pi = task[r].p]
     IN /\ AttemptAllowed(att[a], new)
        /\ att' = [att EXCEPT ![a] = new]
  /\ task' = [task EXCEPT ![r] = Idle]
  /\ lock' = None
  /\ UNCHANGED <<acct, chk, pi, sent, recorded, late, month, scope>>

(* An error, a timeout of the transaction or the end of the process, at    *)
(* any point.  The request to Stripe may be on its way, or be retried by   *)
(* the client library, when the locks are gone.                            *)
Abort(r) ==
  /\ task[r].op # "idle"
  /\ task' = [task EXCEPT ![r] = Idle]
  /\ lock' = IF lock = r THEN None ELSE lock
  /\ late' \in {late, late \cup (IF task[r].op = "call" THEN {task[r].a} ELSE {})}
  /\ UNCHANGED <<acct, att, chk, pi, sent, recorded, month, scope>>

LateCall(a) ==
  /\ a \in late
  /\ \E p \in Intent : Create(a, p)
  /\ late' = late \ {a}
  /\ UNCHANGED <<acct, att, chk, recorded, task, lock, month, scope>>

----------------------------------------------------------------------------
(* Webhooks: prepareCreditFundingWebhook reads Stripe, then a transaction  *)
(* records the event, reads the row it is about and writes it.             *)

PaymentEvent(e) == e.type # "setup" /\ e.type # "expired"
StatusHolds(e)  == pi[e.obj].st = e.st

Prepare(r) ==
  /\ task[r].op = "idle"
  /\ \E e \in sent \ recorded :
       /\ IF PaymentEvent(e)
            THEN att[pi[e.obj].a].pi \in {0, e.obj}
            ELSE chk[e.obj].attached
       /\ IF PaymentEvent(e) => StatusHolds(e)
            THEN /\ task' = [task EXCEPT ![r] = [Idle EXCEPT !.op = "prepared", !.e = e]]
                 /\ recorded' = recorded
            ELSE \* overtaken by what Stripe says now: recorded, without effect
                 /\ recorded' = recorded \cup {e}
                 /\ task' = task
  /\ UNCHANGED <<acct, att, chk, pi, sent, lock, late, month, scope>>

(* The unique event row makes a second delivery wait for the first.        *)
Receive(r) ==
  /\ task[r].op = "prepared"
  /\ \A s \in Replica : task[s].op = "received" => task[s].e # task[r].e
  /\ LET e == task[r].e IN
     task' = [task EXCEPT ![r] =
       IF e \in recorded THEN Idle
       ELSE [@ EXCEPT !.op = "received",
                      !.seen = IF PaymentEvent(e) THEN att[pi[e.obj].a].st ELSE chk[e.obj].st]]
  /\ UNCHANGED <<acct, att, chk, pi, sent, recorded, lock, late, month, scope>>

Answer(r) ==
  /\ recorded' = recorded \cup {task[r].e}
  /\ task' = [task EXCEPT ![r] = Idle]
  /\ UNCHANGED <<pi, sent, lock, late, month, scope>>

(* What an update of an attempt does to the account: the trigger on the    *)
(* attempt and then the handler itself.                                    *)
AttemptState(old, row, state) == row.st
AfterTrigger(old, row, state) ==
  IF row.st = old.st THEN state
  ELSE CASE row.st = "REQUIRES_ACTION" -> "REQUIRES_ACTION"
         [] row.st \in {"NEEDS_REVIEW", "FAILED", "CANCELED"} -> "NEEDS_REVIEW"
         [] OTHER -> state
AfterHandler(e, state) ==
  IF state = "DISABLED" THEN state
  ELSE CASE e.type = "processing" -> "PAUSED"
         [] e.type = "requires_action" -> "REQUIRES_ACTION"
         [] OTHER -> "NEEDS_REVIEW"

Write(a, new, e) ==
  /\ RowsFree
  /\ AttemptAllowed(att[a], new)
  /\ LET row == Judged(att[a], new) IN
     /\ att' = [att EXCEPT ![a] = row]
     /\ acct' = [acct EXCEPT !.state = AfterHandler(e, AfterTrigger(att[a], row, @))]
  /\ chk' = chk

NothingToDo == UNCHANGED <<acct, att, chk>>

AlwaysFailed(e) == "FAILED"
FailureStatus(e) == IF e.st = "requires_payment_method" THEN "FAILED" ELSE "NEEDS_REVIEW"
StateStatus(e) ==
  CASE e.type = "processing" -> "PROCESSING"
    [] e.type = "requires_action" -> "REQUIRES_ACTION"
    [] e.type = "canceled" -> "CANCELED"

(* A row already resolved otherwise makes the handler throw: no step here. *)
PaymentSucceeded(r) ==
  LET e == task[r].e
      a == pi[e.obj].a
      new == [att[a] EXCEPT !.st = "SUCCEEDED", !.pi = e.obj, !.entries = @ + 1]
  IN /\ task[r].op = "received" /\ e.type = "succeeded"
     /\ \/ /\ task[r].seen = "SUCCEEDED"
           /\ NothingToDo
        \/ /\ task[r].seen \in Unresolved
           /\ RowsFree /\ AttemptAllowed(att[a], new)
           /\ att' = [att EXCEPT ![a] = new]
           /\ \E low \in BOOLEAN : acct' = [acct EXCEPT !.low = low]
           /\ chk' = chk
     /\ Answer(r)

PaymentFailed(r) ==
  LET e == task[r].e
      a == pi[e.obj].a
  IN /\ task[r].op = "received" /\ e.type = "payment_failed"
     /\ \/ /\ task[r].seen \in Terminal
           /\ NothingToDo
        \/ /\ task[r].seen \in Unresolved
           /\ Write(a, [att[a] EXCEPT !.st = FailureStatus(e), !.pi = e.obj, !.ev = e], e)
     /\ Answer(r)

PaymentStateChanged(r) ==
  LET e == task[r].e
      a == pi[e.obj].a
  IN /\ task[r].op = "received" /\ e.type \in {"processing", "requires_action", "canceled"}
     /\ \/ /\ task[r].seen \in {"SUCCEEDED", "CANCELED"}
           /\ NothingToDo
        \/ /\ task[r].seen \in Unresolved
           /\ Write(a, [att[a] EXCEPT !.st = StateStatus(e), !.pi = e.obj, !.ev = e], e)
     /\ Answer(r)

(* A new revision: generation and revision advance together.               *)
Consented(state) ==
  [acct EXCEPT !.state = state, !.gen = @ + 1,
               !.rev = IF state = "DISABLED" THEN 0 ELSE acct.gen + 1]

SetupSucceeded(r) ==
  LET c == task[r].e.obj
  IN /\ task[r].op = "received" /\ task[r].e.type = "setup"
     /\ \/ /\ task[r].seen = "COMPLETE"
           /\ NothingToDo
        \/ /\ task[r].seen # "COMPLETE" /\ RowsFree /\ ~PredecessorHolds(c)
           /\ chk' = [chk EXCEPT ![c].st = IF @ \in OpenCheckout THEN "ABANDONED" ELSE @]
           /\ UNCHANGED <<acct, att>>
        \/ /\ task[r].seen # "COMPLETE" /\ RowsFree /\ PredecessorHolds(c)
           /\ chk[c].st \in OpenCheckout /\ ConsentMayChange /\ acct.gen < MaxGen
           /\ chk' = [chk EXCEPT ![c].st = "COMPLETE"]
           /\ acct' = Consented("ACTIVE")
           /\ att' = att
     /\ Answer(r)

CheckoutExpired(r) ==
  LET c == task[r].e.obj
  IN /\ task[r].op = "received" /\ task[r].e.type = "expired"
     /\ \/ /\ task[r].seen \notin OpenCheckout
           /\ NothingToDo
        \/ /\ task[r].seen \in OpenCheckout /\ chk[c].st \in OpenCheckout
           /\ chk' = [chk EXCEPT ![c].st = "EXPIRED"]
           /\ UNCHANGED <<acct, att>>
     /\ Answer(r)

(* A refund or a dispute of an earlier charge.                             *)
Refunded ==
  /\ "refund" \in scope.ops /\ RowsFree
  /\ \E a \in Attempt : att[a].st = "SUCCEEDED"
  /\ acct.state # "DISABLED"
  /\ acct' = [acct EXCEPT !.state = "NEEDS_REVIEW"]
  /\ UNCHANGED <<att, chk, pi, sent, recorded, task, lock, late, month, scope>>

----------------------------------------------------------------------------
(* Consent.  A snapshot of the account is read first; its generation and   *)
(* revision are compared again under the lock.                             *)

Snapshot(op) == [Idle EXCEPT !.op = op, !.gen = acct.gen, !.rev = acct.rev]
SnapshotHolds(r) == task[r].gen = acct.gen /\ task[r].rev = acct.rev

(* createBillingCreditAutoTopUpSetup, for a first consent or a recovery.   *)
SetupRead(r) ==
  /\ \/ task[r].op = "idle" /\ "setup" \in scope.ops /\ acct.state = "DISABLED"
     \/ task[r].op = "recovered" /\ acct.state \in RecoveryState
  /\ task' = [task EXCEPT ![r] = Snapshot("setup")]
  /\ UNCHANGED <<acct, att, chk, pi, sent, recorded, lock, late, month, scope>>

(* reconcileCreditCheckout: what a later request finds of an open one.     *)
Reconcile(r) ==
  /\ task[r].op = "setup" /\ RowsFree
  /\ \E c \in OpenCheckouts :
       IF chk[c].session = "none"
         THEN \* the lease of a request that never reached Stripe has run out
              /\ chk[c].st = "CREATING"
              /\ chk' = [chk EXCEPT ![c].st = "ABANDONED"]
         ELSE /\ chk[c].session # "expired" => PredecessorHolds(c)
              /\ chk' = [chk EXCEPT ![c].attached = TRUE,
                           ![c].st = IF chk[c].session = "expired" THEN "EXPIRED" ELSE "OPEN"]
  /\ UNCHANGED <<acct, att, pi, sent, recorded, task, lock, late, month, scope>>

SetupCreate(r) ==
  /\ task[r].op = "setup" /\ RowsFree
  /\ OpenCheckouts = {}
  /\ SnapshotHolds(r)
  /\ \E c \in Checkout :
       /\ c <= scope.checkouts /\ chk[c].st = "none" /\ \A d \in 1..(c - 1) : chk[d].st # "none"
       /\ chk' = [chk EXCEPT ![c] = [NoCheckout EXCEPT
                    !.st = "CREATING", !.gen = task[r].gen, !.rev = task[r].rev]]
       /\ task' = [task EXCEPT ![r] = [Idle EXCEPT !.op = "session", !.c = c]]
  /\ UNCHANGED <<acct, att, pi, sent, recorded, lock, late, month, scope>>

SessionCreate(r) ==
  /\ task[r].op = "session"
  /\ chk' = [chk EXCEPT ![task[r].c].session = "open"]
  /\ task' = [task EXCEPT ![r].op = "attach"]
  /\ UNCHANGED <<acct, att, pi, sent, recorded, lock, late, month, scope>>

SessionAttach(r) ==
  LET c == task[r].c IN
  /\ task[r].op = "attach" /\ RowsFree
  /\ chk[c].st = "CREATING" /\ PredecessorHolds(c)
  /\ chk' = [chk EXCEPT ![c].st = "OPEN", ![c].attached = TRUE]
  /\ task' = [task EXCEPT ![r] = Idle]
  /\ UNCHANGED <<acct, att, pi, sent, recorded, lock, late, month, scope>>

(* The customer stores a card, or lets the session expire.                 *)
SessionEnds(c) ==
  /\ chk[c].session = "open"
  /\ \E end \in {"complete", "expired"} :
       /\ chk' = [chk EXCEPT ![c].session = end]
       /\ sent' = sent \cup
            {Event(IF end = "complete" THEN "setup" ELSE "expired", c, end, 0)}
  /\ UNCHANGED <<acct, att, pi, recorded, task, lock, late, month, scope>>

Abandoned ==
  [c \in Checkout |->
     IF chk[c].st \in OpenCheckout THEN [chk[c] EXCEPT !.st = "ABANDONED"] ELSE chk[c]]

(* updateBillingCreditAutoTopUp, around a look at the card at Stripe.      *)
UpdateRead(r) ==
  /\ task[r].op = "idle" /\ "update" \in scope.ops
  /\ acct.state \in {"ACTIVE", "PAUSED"}
  /\ task' = [task EXCEPT ![r] = Snapshot("update")]
  /\ UNCHANGED <<acct, att, chk, pi, sent, recorded, lock, late, month, scope>>

UpdateCommit(r) ==
  /\ task[r].op = "update" /\ RowsFree
  /\ SnapshotHolds(r) /\ acct.state \in {"ACTIVE", "PAUSED"}
  /\ ConsentMayChange /\ acct.gen < MaxGen
  /\ acct' = Consented("ACTIVE")
  /\ chk' = Abandoned
  /\ task' = [task EXCEPT ![r] = Idle]
  /\ UNCHANGED <<att, pi, sent, recorded, lock, late, month, scope>>

(* disableBillingCreditAutoTopUp reads everything again under the lock.    *)
Disable ==
  /\ "disable" \in scope.ops /\ RowsFree
  /\ acct.state # "DISABLED" /\ ConsentMayChange /\ acct.gen < MaxGen
  /\ acct' = Consented("DISABLED")
  /\ chk' = Abandoned
  /\ UNCHANGED <<att, pi, sent, recorded, task, lock, late, month, scope>>

----------------------------------------------------------------------------
(* recoverBillingCreditAutoTopUp: nothing is locked before the last write. *)

RecoverRead(r) ==
  /\ task[r].op = "idle" /\ "recover" \in scope.ops
  /\ acct.state \in RecoveryState
  /\ \/ /\ UnresolvedAttempts = {}
        /\ task' = [task EXCEPT ![r] = [Idle EXCEPT !.op = "recovered"]]
     \/ \E a \in UnresolvedAttempts :
          /\ att[a].pi # 0
          /\ task' = [task EXCEPT ![r] = [Idle EXCEPT
                        !.op = "retrieve", !.a = a, !.seen = att[a].st, !.ev = att[a].ev]]
  /\ UNCHANGED <<acct, att, chk, pi, sent, recorded, lock, late, month, scope>>

(* An intent that waits for the customer and has a safe address for that   *)
(* is not touched: Abort.                                                  *)
RecoverRetrieve(r) ==
  LET t == task[r]
      intent == pi[att[t.a].pi].st
      next(op, to) == task' = [task EXCEPT ![r].op = op, ![r].to = to]
  IN /\ t.op = "retrieve"
     /\ \/ intent = "canceled" /\ next("terminalize", "CANCELED")
        \/ /\ intent = "requires_payment_method"
           /\ t.seen = "NEEDS_REVIEW" /\ t.ev.type = "payment_failed"
           /\ next("cancel", "FAILED")
        \/ /\ intent = "requires_action" /\ t.seen = "REQUIRES_ACTION"
           /\ next("cancel", "CANCELED")
     /\ UNCHANGED <<acct, att, chk, pi, sent, recorded, lock, late, month, scope>>

CancelAtStripe(p) ==
  IF pi[p].st = "canceled" THEN UNCHANGED <<pi, sent>>
  ELSE /\ "canceled" \in Outcomes(pi[p].st)
       /\ Enters(p, "canceled")

RecoverCancel(r) ==
  /\ task[r].op = "cancel"
  /\ CancelAtStripe(att[task[r].a].pi)
  /\ task' = [task EXCEPT ![r].op = "terminalize"]
  /\ UNCHANGED <<acct, att, chk, recorded, lock, late, month, scope>>

RecoverTerminalize(r) ==
  LET t == task[r]
      new == [att[t.a] EXCEPT !.st = t.to]
  IN /\ t.op = "terminalize" /\ RowsFree
     /\ att[t.a].st = t.seen /\ att[t.a].ev = t.ev
     /\ AttemptAllowed(att[t.a], new)
     /\ att' = [att EXCEPT ![t.a] = new]
     /\ acct' = [acct EXCEPT !.state = AfterTrigger(att[t.a], new, @)]
     /\ task' = [task EXCEPT ![r] = [Idle EXCEPT !.op = "recovered"]]
     /\ UNCHANGED <<chk, pi, sent, recorded, lock, late, month, scope>>

----------------------------------------------------------------------------
Init ==
  /\ scope \in Scopes
  /\ acct = IF "setup" \in scope.ops
              THEN [state |-> "DISABLED", gen |-> 0, rev |-> 0, low |-> TRUE]
              ELSE [state |-> "ACTIVE", gen |-> 1, rev |-> 1, low |-> TRUE]
  /\ att = [a \in Attempt |-> NoAttempt]
  /\ chk = [c \in Checkout |-> NoCheckout]
  /\ pi = [p \in Intent |-> NoIntent]
  /\ sent = {} /\ recorded = {} /\ late = {}
  /\ task = [r \in Replica |-> Idle]
  /\ lock = None
  /\ month = 1

Schedule(r) == Claim(r) \/ DispatchBegin(r) \/ DispatchCall(r) \/ DispatchStore(r)
Apply(r)    == PaymentSucceeded(r) \/ PaymentFailed(r) \/ PaymentStateChanged(r)
               \/ SetupSucceeded(r) \/ CheckoutExpired(r)
Webhook(r)  == Prepare(r) \/ Receive(r) \/ Apply(r)
Consent(r)  == SetupRead(r) \/ Reconcile(r) \/ SetupCreate(r) \/ SessionCreate(r)
               \/ SessionAttach(r) \/ UpdateRead(r) \/ UpdateCommit(r)
Recover(r)  == RecoverRead(r) \/ RecoverRetrieve(r) \/ RecoverCancel(r) \/ RecoverTerminalize(r)
Step(r)     == Schedule(r) \/ Webhook(r) \/ Consent(r) \/ Recover(r) \/ Abort(r)

Next ==
  \/ \E r \in Replica : Step(r)
  \/ \E p \in Intent : PaymentMoves(p) \/ AuthenticationFails(p)
  \/ \E a \in Attempt : LateCall(a)
  \/ \E c \in Checkout : SessionEnds(c)
  \/ UsageSettles \/ MonthEnds \/ Refunded \/ Disable

Spec == Init /\ [][Next]_vars

(* A request ends, one way or the other.  Stripe delivers an event again   *)
(* until it is answered; a handler that can commit again and again, and a  *)
(* dispatch that is made again and again, are not aborted every time.      *)
Decisive == {"succeeded", "payment_failed", "canceled"}
Settles(e) == e.type \in Decisive /\ att[pi[e.obj].a].st \in Unresolved
Fairness ==
  /\ \A r \in Replica : WF_vars(task[r].op # "idle" /\ Step(r))
  /\ SF_vars(\E r \in Replica : Prepare(r) /\ Settles(task'[r].e))
  /\ SF_vars(\E r \in Replica : Receive(r) /\ Settles(task[r].e))
  /\ SF_vars(\E r \in Replica : Apply(r) /\ Settles(task[r].e))
  /\ SF_vars(\E r \in Replica : DispatchCall(r))
  /\ SF_vars(\E r \in Replica : DispatchStore(r))

FairSpec == Spec /\ Fairness

----------------------------------------------------------------------------
(* Properties.                                                             *)

EventRecord == [type : Decisive \cup {"processing", "requires_action", "setup", "expired", "none"},
                obj : Nat, st : Status \cup {"complete", "expired", "none"}, at : 0..MaxTime]
CheckoutStatus == OpenCheckout \cup {"none", "COMPLETE", "EXPIRED", "ABANDONED"}
TaskOp == {"idle", "dispatch", "call", "store", "prepared", "received", "setup", "session", "attach",
           "update", "recovered", "retrieve", "cancel", "terminalize"}

(* Every variable stays within its range.                                  *)
TypeOK ==
  /\ acct \in [state : RecoveryState \cup {"ACTIVE", "DISABLED"}, gen : 0..MaxGen,
              rev : 0..MaxGen, low : BOOLEAN]
  /\ att \in [Attempt -> [st : Unresolved \cup Terminal \cup {"none"}, rev : 0..MaxGen,
                         month : 0..MaxMonth, pi : 0..MaxIntents, ev : EventRecord,
                         entries : Nat]]
  /\ chk \in [Checkout -> [st : CheckoutStatus, gen : 0..MaxGen, rev : 0..MaxGen,
                          attached : BOOLEAN, session : {"none", "open", "complete", "expired"}]]
  /\ pi \in [Intent -> [st : Status \cup {"none"}, a : 0..MaxAttempts, at : 0..MaxTime]]
  /\ sent \subseteq EventRecord /\ recorded \subseteq sent /\ late \subseteq Attempt
  /\ task \in [Replica -> [op : TaskOp, a : 0..MaxAttempts, p : 0..MaxIntents,
                          c : 0..MaxCheckouts, e : EventRecord, ev : EventRecord,
                          seen : Unresolved \cup Terminal \cup CheckoutStatus,
                          to : {"FAILED", "CANCELED", "none"}, gen : 0..MaxGen, rev : 0..MaxGen]]
  /\ lock \in Replica \cup {None} /\ month \in 1..scope.months /\ scope \in Scopes

(* However often an attempt is claimed again, by however many replicas,    *)
(* and whichever of their requests arrives late, Stripe charges it once.   *)
ChargedOnce == \A a \in Attempt : Cardinality(IntentsOf(a)) <= 1

(* The ledger holds one entry for an attempt that Stripe collected and was *)
(* recorded as SUCCEEDED, and none for any other: no handler that read the *)
(* attempt earlier takes the success back.                                 *)
CreditsMatchCharges ==
  \A a \in Attempt :
    /\ att[a].entries = IF att[a].st = "SUCCEEDED" THEN 1 ELSE 0
    /\ att[a].st = "SUCCEEDED" => pi[att[a].pi].st = "succeeded"

(* An attempt is given up only when Stripe can no longer collect it: money *)
(* that arrives later would find no attempt to be credited to.             *)
NothingCollectedAfterwards ==
  \A a \in Attempt : att[a].st \in {"FAILED", "CANCELED"} =>
    pi[att[a].pi].st \in {"requires_payment_method", "canceled"}

(* The charges collected in a month never exceed the cap the customer had  *)
(* agreed to when the last of them was claimed.                            *)
CapRespected ==
  \A a \in Attempt : att[a].st = "SUCCEEDED" =>
    Cardinality({b \in 1..a : att[b].st = "SUCCEEDED" /\ att[b].month = att[a].month})
      <= MonthlyCap[att[a].rev]

(* One charge at a time, and as long as its outcome is open the consent it *)
(* was made under is the account's.                                        *)
ConsentPinned ==
  /\ Cardinality(UnresolvedAttempts) <= 1
  /\ \A a \in UnresolvedAttempts : att[a].rev = acct.rev

(* A charge in trouble takes the account out of ACTIVE, and a consent      *)
(* whose charge was given up is never charged again.                       *)
TroubleStopsCharging ==
  /\ \A a \in UnresolvedAttempts : att[a].st # "PENDING" => acct.state \in RecoveryState
  /\ \A a, b \in Attempt :
       att[a].st \in {"FAILED", "CANCELED"} /\ a < b /\ att[b].st # "none"
         => att[a].rev < att[b].rev

(* A setup checkout that may still be completed was started from the       *)
(* consent the account has now: a customer who disabled or changed the     *)
(* consent is not overruled by a checkout of before.                       *)
OpenSetupsAreCurrent == \A c \in OpenCheckouts : PredecessorHolds(c)

(* A setup checkout that was completed, expired or abandoned stays so.     *)
SetupsEndOnce ==
  [][\A c \in Checkout :
       chk[c].st \in {"COMPLETE", "EXPIRED", "ABANDONED"} => chk'[c].st = chk[c].st]_vars

(* However a dispatch, its retries and the webhooks of both interleave,    *)
(* money and ledger agree: one charge, one entry for it, and no attempt    *)
(* given up that could still be collected.                                 *)
OneChargeOneCredit == ChargedOnce /\ CreditsMatchCharges /\ NothingCollectedAfterwards

(* The consent governs the charges: one open charge, made under the        *)
(* consent the account has, none after one that failed, and none beyond    *)
(* the cap; and a setup checkout follows the consent it was started from   *)
(* to its end.                                                             *)
ConsentGoverns ==
  /\ [](ConsentPinned /\ TroubleStopsCharging /\ CapRespected /\ OpenSetupsAreCurrent)
  /\ SetupsEndOnce

(* What Stripe collected is credited in the end.                           *)
ChargesAreCredited ==
  \A p \in Intent :
    pi[p].st = "succeeded" ~> \E a \in Attempt : a = pi[p].a /\ att[a].entries = 1

(* The tests of the webhook and billing-tariffs.md: a declined charge ends *)
(* its attempt.                                                            *)
DeclinesEndAttempts ==
  \A p \in Intent :
    pi[p].st = "requires_payment_method" ~>
      \E a \in Attempt : a = pi[p].a /\ att[a].st \in Terminal
=============================================================================
