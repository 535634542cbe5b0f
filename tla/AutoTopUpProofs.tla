-------------------------- MODULE AutoTopUpProofs --------------------------
(***************************************************************************)
(* Proofs about AutoTopUp, for any number of replicas, attempts, intents,  *)
(* setup checkouts, months and changes of consent.  No proof needs the     *)
(* lock of a dispatch: that a charge is collected once rests on the        *)
(* idempotency key, and that it is credited once on the unique event row   *)
(* and on the triggers (Books).  Consent governs because a charge is       *)
(* claimed, and a consent changed, only while no charge is open (Consents).*)
(***************************************************************************)
EXTENDS AutoTopUp, FiniteSetTheorems, TLAPS

AccountRow  == [state : RecoveryState \cup {"ACTIVE", "DISABLED"}, gen : 0..MaxGen,
                rev : 0..MaxGen, low : BOOLEAN]
AttemptRow  == [st : Unresolved \cup Terminal \cup {"none"}, rev : 0..MaxGen,
                month : 0..MaxMonth, pi : 0..MaxIntents, ev : EventRecord, entries : Nat]
CheckoutRow == [st : CheckoutStatus, gen : 0..MaxGen, rev : 0..MaxGen, attached : BOOLEAN,
                session : {"none", "open", "complete", "expired"}]
IntentRow   == [st : Status \cup {"none"}, a : 0..MaxAttempts, at : 0..MaxTime]
Seen        == Unresolved \cup Terminal \cup CheckoutStatus
TaskRow     == [op : TaskOp, a : 0..MaxAttempts, p : 0..MaxIntents, c : 0..MaxCheckouts,
                e : EventRecord, ev : EventRecord, seen : Seen,
                to : {"FAILED", "CANCELED", "none"}, gen : 0..MaxGen, rev : 0..MaxGen]

GivenUp == {"FAILED", "CANCELED"}
Changes == {"payment_failed", "processing", "requires_action", "canceled"}

(* What Stripe reports is final where the intent is: once collected or     *)
(* canceled it stays so, and a declined intent can only be canceled.       *)
Agrees(st, now) ==
  /\ st = "succeeded" => now = "succeeded"
  /\ st = "canceled" => now = "canceled"
  /\ st = "requires_payment_method" => now \in {"requires_payment_method", "canceled"}

Reported(e) ==
  IF PaymentEvent(e)
    THEN /\ e.type \in Changes \cup {"succeeded"}
         /\ e.type = "succeeded" <=> e.st = "succeeded"
         /\ e.type = "canceled" <=> e.st = "canceled"
         /\ e.obj \in Intent /\ pi[e.obj].a # 0 /\ Agrees(e.st, pi[e.obj].st)
    ELSE e.obj \in Checkout

(* Stripe charges for an attempt under one intent and reports success once. *)
StripeSound ==
  /\ \A p \in Intent : pi[p].a # 0 => att[pi[p].a].st # "none"
  /\ \A p \in Intent : pi[p].a = 0 => pi[p].st = "none"
  /\ \A p, q \in Intent : pi[p].a # 0 /\ pi[p].a = pi[q].a => p = q
  /\ \A e \in sent : Reported(e)
  /\ \A e, f \in sent : e.type = "succeeded" /\ f.type = "succeeded" /\ e.obj = f.obj => e = f
  /\ \A a \in late : att[a].st # "none"

(* An attempt names the intent it was charged under; it succeeded when the *)
(* event of it was recorded, and is given up when Stripe has given up.     *)
AttemptSound(a) ==
  /\ att[a].st = "none" => att[a] = NoAttempt
  /\ att[a].st # "none" => att[a].rev \in Revision
  /\ att[a].pi # 0 => pi[att[a].pi].a = a
  /\ att[a].ev = NoEvent \/ att[a].ev.type \in Changes
  /\ att[a].entries = IF att[a].st = "SUCCEEDED" THEN 1 ELSE 0
  /\ att[a].st \in Terminal => att[a].pi # 0
  /\ att[a].st = "SUCCEEDED" =>
       /\ pi[att[a].pi].st = "succeeded"
       /\ \E e \in recorded : e.type = "succeeded" /\ e.obj = att[a].pi
  /\ att[a].st \in GivenUp => pi[att[a].pi].st \in {"requires_payment_method", "canceled"}

(* What a replica works on exists; an event of success that it received is *)
(* not recorded yet; a recovery gives up what Stripe has canceled.         *)
TaskSound(x) ==
  /\ x.op \in {"dispatch", "call", "store"} => x.a \in Attempt /\ att[x.a].st # "none"
  /\ x.op = "store" => x.p \in Intent /\ pi[x.p].a = x.a
  /\ x.op \in {"session", "attach"} => x.c \in Checkout
  /\ x.op \in {"prepared", "received"} => x.e \in sent
  /\ x.op = "received" /\ x.e.type = "succeeded" => x.e \notin recorded
  /\ x.op \in {"retrieve", "cancel", "terminalize"} =>
       x.a \in Attempt /\ att[x.a].pi # 0 /\ x.seen \in Unresolved
  /\ x.op \in {"cancel", "terminalize"} => x.to \in GivenUp
  /\ x.op = "terminalize" => pi[att[x.a].pi].st = "canceled"

OneReceives ==
  \A r, s \in Replica :
    task[r].op = "received" /\ task[s].op = "received" /\ task[r].e = task[s].e => r = s

Books ==
  /\ StripeSound
  /\ \A a \in Attempt : AttemptSound(a)
  /\ \A r \in Replica : TaskSound(task[r])
  /\ OneReceives

AccountSound ==
  /\ acct.rev \in {0, acct.gen}
  /\ acct.state = "ACTIVE" => acct.rev # 0
  /\ acct.state = "DISABLED" => acct.rev = 0

(* Attempts are made one after the other, each under the consent of its    *)
(* time; one that was given up outlives the consent it was made under.     *)
AttemptsInTurn ==
  /\ \A a, b \in Attempt : a < b /\ att[b].st # "none" => att[a].st \in Terminal
  /\ \A a \in UnresolvedAttempts : att[a].rev = acct.rev
  /\ \A a \in Attempt : att[a].st # "none" => att[a].rev <= acct.gen
  /\ \A a \in Attempt : att[a].st \in GivenUp /\ acct.state = "ACTIVE" => att[a].rev < acct.rev

Before(a) == {b \in 1..(a - 1) : att[b].st = "SUCCEEDED" /\ att[b].month = att[a].month}
CapLeaves(a) == Cardinality(Before(a)) + 1 <= MonthlyCap[att[a].rev]

SetupsSound ==
  /\ OpenSetupsAreCurrent
  /\ \A c, d \in OpenCheckouts : c = d

Consents ==
  /\ AccountSound /\ AttemptsInTurn /\ TroubleStopsCharging
  /\ \A a \in Attempt : att[a].st # "none" => CapLeaves(a)
  /\ SetupsSound

IInv == TypeOK /\ Books /\ Consents

----------------------------------------------------------------------------
(* Records and their updates.                                              *)

LEMMA Zeros == /\ 0 \in 0..MaxAttempts /\ 0 \in 0..MaxIntents /\ 0 \in 0..MaxCheckouts
               /\ 0 \in 0..MaxGen /\ 0 \in 0..MaxMonth /\ 0 \in 0..MaxTime
BY AutoTopUpAssumption

LEMMA BlankTyped ==
  NoEvent \in EventRecord /\ NoAttempt \in AttemptRow /\ NoCheckout \in CheckoutRow
  /\ NoIntent \in IntentRow /\ Idle \in TaskRow
<1>1. NoEvent \in EventRecord
  BY Zeros DEF NoEvent, EventRecord
<1>2. QED
  BY Zeros, <1>1 DEF NoAttempt, AttemptRow, NoCheckout, CheckoutRow, NoIntent, IntentRow, Idle,
                     TaskRow, Seen, CheckoutStatus, TaskOp

LEMMA Typed ==
  ASSUME TypeOK
  PROVE  /\ acct \in AccountRow /\ att \in [Attempt -> AttemptRow]
         /\ chk \in [Checkout -> CheckoutRow] /\ pi \in [Intent -> IntentRow]
         /\ sent \subseteq EventRecord /\ recorded \subseteq sent /\ late \subseteq Attempt
         /\ task \in [Replica -> TaskRow]
         /\ lock \in Replica \cup {None} /\ month \in 1..scope.months /\ scope \in Scopes
BY DEF TypeOK, AccountRow, AttemptRow, CheckoutRow, IntentRow, TaskRow, Seen

LEMMA TypedNext ==
  ASSUME acct' \in AccountRow, att' \in [Attempt -> AttemptRow],
         chk' \in [Checkout -> CheckoutRow], pi' \in [Intent -> IntentRow],
         sent' \subseteq EventRecord, recorded' \subseteq sent', late' \subseteq Attempt,
         task' \in [Replica -> TaskRow],
         lock' \in Replica \cup {None}, month' \in 1..scope.months, scope' = scope, scope \in Scopes
  PROVE  TypeOK'
BY DEF TypeOK, AccountRow, AttemptRow, CheckoutRow, IntentRow, TaskRow, Seen

(* Updates of a task, of an attempt, of a checkout, of an intent.          *)
LEMMA TaskUpdates ==
  ASSUME NEW x \in TaskRow
  PROVE  /\ \A op \in TaskOp : [x EXCEPT !.op = op] \in TaskRow
         /\ \A op \in TaskOp, a \in Attempt : [x EXCEPT !.op = op, !.a = a] \in TaskRow
         /\ \A op \in TaskOp, p \in Intent : [x EXCEPT !.op = op, !.p = p] \in TaskRow
         /\ \A op \in TaskOp, c \in Checkout : [x EXCEPT !.op = op, !.c = c] \in TaskRow
         /\ \A op \in TaskOp, e \in EventRecord : [x EXCEPT !.op = op, !.e = e] \in TaskRow
         /\ \A op \in TaskOp, to \in GivenUp : [x EXCEPT !.op = op, !.to = to] \in TaskRow
         /\ \A op \in TaskOp, seen \in Seen : [x EXCEPT !.op = op, !.seen = seen] \in TaskRow
         /\ \A op \in TaskOp, g, v \in 0..MaxGen :
              [x EXCEPT !.op = op, !.gen = g, !.rev = v] \in TaskRow
         /\ \A op \in TaskOp, seen \in Seen, a \in Attempt, e \in EventRecord :
              [x EXCEPT !.op = op, !.a = a, !.seen = seen, !.ev = e] \in TaskRow
<1>1. /\ Attempt \subseteq 0..MaxAttempts /\ Intent \subseteq 0..MaxIntents
      /\ Checkout \subseteq 0..MaxCheckouts
  BY AutoTopUpAssumption DEF Attempt, Intent, Checkout
<1>2. /\ \A op \in TaskOp : [x EXCEPT !.op = op] \in TaskRow
      /\ \A op \in TaskOp, a \in Attempt : [x EXCEPT !.op = op, !.a = a] \in TaskRow
      /\ \A op \in TaskOp, p \in Intent : [x EXCEPT !.op = op, !.p = p] \in TaskRow
      /\ \A op \in TaskOp, c \in Checkout : [x EXCEPT !.op = op, !.c = c] \in TaskRow
  BY <1>1 DEF TaskRow
<1>3. /\ \A op \in TaskOp, e \in EventRecord : [x EXCEPT !.op = op, !.e = e] \in TaskRow
      /\ \A op \in TaskOp, to \in GivenUp : [x EXCEPT !.op = op, !.to = to] \in TaskRow
      /\ \A op \in TaskOp, seen \in Seen : [x EXCEPT !.op = op, !.seen = seen] \in TaskRow
  BY DEF TaskRow, GivenUp
<1>4. \A op \in TaskOp, g, v \in 0..MaxGen :
        [x EXCEPT !.op = op, !.gen = g, !.rev = v] \in TaskRow
  BY DEF TaskRow
<1>5. \A op \in TaskOp, seen \in Seen, a \in Attempt, e \in EventRecord :
        [x EXCEPT !.op = op, !.a = a, !.seen = seen, !.ev = e] \in TaskRow
  BY <1>1 DEF TaskRow
<1>6. QED
  BY <1>2, <1>3, <1>4, <1>5

LEMMA RowUpdates ==
  /\ \A row \in AttemptRow, st \in Unresolved \cup Terminal, p \in 0..MaxIntents,
        e \in EventRecord :
       /\ [row EXCEPT !.st = st, !.pi = p, !.ev = e] \in AttemptRow
       /\ [row EXCEPT !.st = st, !.pi = p, !.entries = @ + 1] \in AttemptRow
       /\ [row EXCEPT !.st = st] \in AttemptRow
       /\ [row EXCEPT !.pi = p] \in AttemptRow
  /\ \A row \in CheckoutRow, st \in {"OPEN", "COMPLETE", "EXPIRED", "ABANDONED"} :
       /\ [row EXCEPT !.st = st] \in CheckoutRow
       /\ [row EXCEPT !.attached = TRUE, !.st = st] \in CheckoutRow
       /\ [row EXCEPT !.st = st, !.attached = TRUE] \in CheckoutRow
  /\ \A row \in CheckoutRow, end \in {"open", "complete", "expired"} :
       [row EXCEPT !.session = end] \in CheckoutRow
  /\ \A row \in AccountRow, state \in RecoveryState \cup {"ACTIVE", "DISABLED"}, low \in BOOLEAN :
       [row EXCEPT !.state = state] \in AccountRow /\ [row EXCEPT !.low = low] \in AccountRow
<1>1. \A row \in AttemptRow, st \in Unresolved \cup Terminal, p \in 0..MaxIntents,
        e \in EventRecord :
        /\ [row EXCEPT !.st = st, !.pi = p, !.ev = e] \in AttemptRow
        /\ [row EXCEPT !.st = st, !.pi = p, !.entries = @ + 1] \in AttemptRow
        /\ [row EXCEPT !.st = st] \in AttemptRow
        /\ [row EXCEPT !.pi = p] \in AttemptRow
  <2> SUFFICES ASSUME NEW row \in AttemptRow, NEW st \in Unresolved \cup Terminal,
                      NEW p \in 0..MaxIntents, NEW e \in EventRecord
               PROVE  /\ [row EXCEPT !.st = st, !.pi = p, !.ev = e] \in AttemptRow
                      /\ [row EXCEPT !.st = st, !.pi = p, !.entries = @ + 1] \in AttemptRow
                      /\ [row EXCEPT !.st = st] \in AttemptRow
                      /\ [row EXCEPT !.pi = p] \in AttemptRow
    OBVIOUS
  <2>1. [row EXCEPT !.st = st, !.pi = p, !.ev = e] \in AttemptRow
    BY DEF AttemptRow
  <2>2. [row EXCEPT !.st = st, !.pi = p, !.entries = @ + 1] \in AttemptRow
    <3>1. row.entries + 1 \in Nat
      BY DEF AttemptRow
    <3>2. \A n \in Nat : [row EXCEPT !.st = st, !.pi = p, !.entries = n] \in AttemptRow
      BY DEF AttemptRow
    <3>3. QED
      BY <3>1, <3>2
  <2>3. [row EXCEPT !.st = st] \in AttemptRow
    BY DEF AttemptRow
  <2>4. [row EXCEPT !.pi = p] \in AttemptRow
    BY DEF AttemptRow
  <2>5. QED
    BY <2>1, <2>2, <2>3, <2>4
<1>2. \A row \in CheckoutRow, st \in {"OPEN", "COMPLETE", "EXPIRED", "ABANDONED"} :
        /\ [row EXCEPT !.st = st] \in CheckoutRow
        /\ [row EXCEPT !.attached = TRUE, !.st = st] \in CheckoutRow
        /\ [row EXCEPT !.st = st, !.attached = TRUE] \in CheckoutRow
  BY DEF CheckoutRow, CheckoutStatus, OpenCheckout
<1>3. \A row \in CheckoutRow, end \in {"open", "complete", "expired"} :
        [row EXCEPT !.session = end] \in CheckoutRow
  BY DEF CheckoutRow
<1>4. \A row \in AccountRow, state \in RecoveryState \cup {"ACTIVE", "DISABLED"}, low \in BOOLEAN :
        [row EXCEPT !.state = state] \in AccountRow /\ [row EXCEPT !.low = low] \in AccountRow
  BY DEF AccountRow
<1>5. QED
  BY <1>1, <1>2, <1>3, <1>4

----------------------------------------------------------------------------
(* What is at Stripe only grows: an intent keeps its attempt, and its      *)
(* status where it is final.                                               *)

StripeGrows ==
  /\ sent \subseteq sent'
  /\ \A p \in Intent : pi[p].a # 0 =>
       pi'[p].a = pi[p].a /\ \A st \in Status : Agrees(st, pi[p].st) => Agrees(st, pi'[p].st)

AttemptsGrow ==
  \A a \in Attempt : /\ att[a].st # "none" => att'[a].st # "none"
                     /\ att[a].pi # 0 => att'[a].pi = att[a].pi

(* A step of Stripe, and of nobody's rows.                                 *)
StripeMoves ==
  /\ pi' \in [Intent -> IntentRow] /\ sent' \subseteq EventRecord
  /\ StripeSound' /\ StripeGrows

LEMMA EventTypes ==
  \A st \in Status :
    /\ EventType(st) \in Changes \cup {"succeeded"}
    /\ EventType(st) = "succeeded" <=> st = "succeeded"
    /\ EventType(st) = "canceled" <=> st = "canceled"
    /\ EventType(st) # "setup" /\ EventType(st) # "expired"
BY DEF EventType, Status, Changes

LEMMA EventTyped ==
  ASSUME NEW type \in Changes \cup {"succeeded", "setup", "expired"}, NEW o \in Nat,
         NEW st \in Status \cup {"complete", "expired"}, NEW at \in 0..MaxTime
  PROVE  Event(type, o, st, at) \in EventRecord
BY DEF Event, EventRecord, Changes, Decisive

LEMMA IntentIds ==
  /\ Intent \subseteq Nat \ {0} /\ Intent \subseteq 0..MaxIntents
  /\ Attempt \subseteq Nat \ {0} /\ Attempt \subseteq 0..MaxAttempts
  /\ Checkout \subseteq Nat \ {0} /\ Checkout \subseteq 0..MaxCheckouts
  /\ \A p \in 0..MaxIntents : p # 0 => p \in Intent
  /\ \A a \in 0..MaxAttempts : a # 0 => a \in Attempt
BY AutoTopUpAssumption DEF Intent, Attempt, Checkout

LEMMA OutcomesOf ==
  /\ \A st : Outcomes(st) \subseteq Status
  /\ Outcomes("succeeded") = {} /\ Outcomes("canceled") = {}
  /\ Outcomes("requires_payment_method") = {"canceled"}
BY DEF Outcomes, Status

(* An intent that enters a status tells the truth for good, and success    *)
(* is told once since nothing follows it.                                  *)
LEMMA EntersMoves ==
  ASSUME TypeOK, Books, NEW p \in Intent, pi[p].a # 0, NEW st \in Outcomes(pi[p].st),
         Enters(p, st), att' = att, late' \subseteq late
  PROVE  StripeMoves /\ pi'[p].st = st
<1>1. PICK at \in {pi[p].at, pi[p].at + 1} :
        /\ at <= MaxTime
        /\ pi' = [pi EXCEPT ![p].st = st, ![p].at = at]
        /\ sent' = sent \cup {Event(EventType(st), p, st, at)}
  BY DEF Enters
<1> DEFINE new == Event(EventType(st), p, st, at)
<1>2. pi \in [Intent -> IntentRow] /\ sent \subseteq EventRecord
  BY Typed
<1>3. pi[p] \in IntentRow /\ st \in Status /\ at \in 0..MaxTime
  BY <1>1, <1>2, OutcomesOf DEF IntentRow
<1>4. pi'[p] = [pi[p] EXCEPT !.st = st, !.at = at] /\ \A q \in Intent \ {p} : pi'[q] = pi[q]
  BY <1>1, <1>2
<1>5. pi' \in [Intent -> IntentRow] /\ \A q \in Intent : pi'[q].a = pi[q].a
  BY <1>1, <1>2, <1>3, <1>4 DEF IntentRow
<1>6. pi'[p].st = st
  BY <1>3, <1>4 DEF IntentRow
<1>7. new \in EventRecord
  BY <1>3, EventTypes, EventTyped, IntentIds
<1>8. \A s \in Status : Agrees(s, pi[p].st) => Agrees(s, st)
  BY OutcomesOf DEF Agrees
<1>9. StripeGrows
  BY <1>1, <1>4, <1>5, <1>6, <1>8 DEF StripeGrows
<1>10. StripeSound
  BY DEF Books
<1>11. pi[p].st # "succeeded"
  BY OutcomesOf
<1>12. StripeSound'
  <2>1. \A q \in Intent : IF pi'[q].a = 0 THEN pi'[q].st = "none" ELSE att'[pi'[q].a].st # "none"
    BY <1>4, <1>5, <1>10 DEF StripeSound
  <2>2. \A q, s \in Intent : pi'[q].a # 0 /\ pi'[q].a = pi'[s].a => q = s
    BY <1>5, <1>10 DEF StripeSound
  <2>3. Reported(new)'
    BY <1>3, <1>5, <1>6, EventTypes DEF Reported, PaymentEvent, Event, Agrees
  <2>4. ASSUME NEW e \in sent PROVE Reported(e)'
    <3>1. Reported(e)
      BY <1>10 DEF StripeSound
    <3>2. e.st \in Status \/ e.st \notin {"succeeded", "canceled", "requires_payment_method"}
      BY <1>2 DEF EventRecord, Status
    <3>3. QED
      BY <1>5, <1>9, <3>1, <3>2 DEF Reported, StripeGrows, Agrees
  <2>5. \A e \in sent' : Reported(e)'
    BY <1>1, <2>3, <2>4
  <2>6. ASSUME NEW e \in sent, e.type = "succeeded", st = "succeeded" PROVE e.obj # p
    <3>1. Reported(e)
      BY <1>10 DEF StripeSound
    <3>2. QED
      BY <1>11, <2>6, <3>1 DEF Reported, PaymentEvent, Agrees
  <2>7. new.obj = p /\ (new.type = "succeeded" => st = "succeeded")
    BY <1>3, EventTypes DEF Event
  <2>8. \A e, f \in sent' :
          e.type = "succeeded" /\ f.type = "succeeded" /\ e.obj = f.obj => e = f
    BY <1>1, <1>10, <2>6, <2>7 DEF StripeSound
  <2>9. \A a \in late' : att'[a].st # "none"
    BY <1>10 DEF StripeSound
  <2>10. QED
    BY <2>1, <2>2, <2>5, <2>8, <2>9 DEF StripeSound
<1>13. QED
  BY <1>1, <1>2, <1>5, <1>6, <1>7, <1>9, <1>12 DEF StripeMoves

LEMMA FailureMoves ==
  ASSUME TypeOK, Books, NEW p \in Intent, pi[p].a # 0, AuthenticationFails(p)
  PROVE  StripeMoves
<1>0. PICK at : at = pi[p].at + 1
  OBVIOUS
<1> DEFINE new == Event("payment_failed", p, "requires_action", at)
<1>1. pi \in [Intent -> IntentRow] /\ sent \subseteq EventRecord /\ MaxTime \in Nat
  BY Typed, AutoTopUpAssumption
<1>2. pi[p] \in IntentRow /\ pi[p].at < MaxTime /\ pi' = [pi EXCEPT ![p].at = at]
      /\ sent' = sent \cup {new} /\ UNCHANGED <<att, late>>
  BY <1>0, <1>1 DEF AuthenticationFails
<1>3. at \in 0..MaxTime
  BY <1>0, <1>1, <1>2 DEF IntentRow
<1>4. pi' \in [Intent -> IntentRow] /\ \A q \in Intent : pi'[q].a = pi[q].a /\ pi'[q].st = pi[q].st
  <2>1. pi'[p] = [pi[p] EXCEPT !.at = at] /\ \A q \in Intent \ {p} : pi'[q] = pi[q]
    BY <1>1, <1>2
  <2>2. pi'[p] \in IntentRow /\ pi'[p].a = pi[p].a /\ pi'[p].st = pi[p].st
    BY <1>2, <1>3, <2>1 DEF IntentRow
  <2>3. QED
    BY <1>1, <1>2, <2>1, <2>2
<1>5. new \in EventRecord
  BY <1>3, EventTyped, IntentIds DEF Changes, Status
<1>6. StripeGrows
  BY <1>2, <1>4 DEF StripeGrows
<1>7. StripeSound
  BY DEF Books
<1>8. StripeSound'
  <2>1. Reported(new)'
    BY <1>4 DEF Reported, PaymentEvent, Event, Agrees, Changes
  <2>2. \A e \in sent : Reported(e)'
    BY <1>4, <1>7 DEF StripeSound, Reported
  <2>3. new.type # "succeeded"
    BY DEF Event
  <2>4. /\ \A q \in Intent : pi'[q].a # 0 => att'[pi'[q].a].st # "none"
        /\ \A q \in Intent : pi'[q].a = 0 => pi'[q].st = "none"
        /\ \A q, s \in Intent : pi'[q].a # 0 /\ pi'[q].a = pi'[s].a => q = s
        /\ \A a \in late' : att'[a].st # "none"
    BY <1>2, <1>4, <1>7 DEF StripeSound
  <2>5. \A e \in sent' : Reported(e)'
    BY <1>2, <2>1, <2>2
  <2>6. \A e, f \in sent' :
          e.type = "succeeded" /\ f.type = "succeeded" /\ e.obj = f.obj => e = f
    BY <1>2, <1>7, <2>3 DEF StripeSound
  <2>7. QED
    BY <2>4, <2>5, <2>6 DEF StripeSound
<1>9. QED
  BY <1>1, <1>2, <1>4, <1>5, <1>6, <1>8 DEF StripeMoves

(* The idempotency key: an intent of the attempt is found, or it is the    *)
(* first one.                                                              *)
LEMMA CreateMoves ==
  ASSUME TypeOK, Books, NEW a \in Attempt, att[a].st # "none", NEW p \in Intent, Create(a, p),
         att' = att, late' \subseteq late
  PROVE  StripeMoves /\ pi'[p].a = a
<1>1. pi \in [Intent -> IntentRow] /\ sent \subseteq EventRecord
  BY Typed
<1>2. StripeSound
  BY DEF Books
<1>3. CASE SameKey(a) # {}
  <2>1. pi[p].a = a /\ pi' = pi /\ sent' = sent
    BY <1>3 DEF Create, SameKey, IntentsOf
  <2>2. StripeGrows
    BY <2>1 DEF StripeGrows
  <2>3. StripeSound'
    BY <1>2, <2>1 DEF StripeSound, Reported
  <2>4. QED
    BY <1>1, <2>1, <2>2, <2>3 DEF StripeMoves
<1>4. CASE SameKey(a) = {}
  <2>1. PICK st \in Outcomes("none") :
          /\ pi[p].a = 0
          /\ pi' = [pi EXCEPT ![p] = [st |-> st, a |-> a, at |-> 0]]
          /\ sent' = sent \cup {Event(EventType(st), p, st, 0)}
    BY <1>4 DEF Create
  <2> DEFINE new == Event(EventType(st), p, st, 0)
  <2>2. st \in Status /\ \A q \in Intent : pi[q].a # a
    BY <1>4, OutcomesOf DEF SameKey, IntentsOf
  <2>3. /\ pi'[p] = [st |-> st, a |-> a, at |-> 0] /\ \A q \in Intent \ {p} : pi'[q] = pi[q]
        /\ pi' \in [Intent -> IntentRow]
    <3>1. [st |-> st, a |-> a, at |-> 0] \in IntentRow
      BY <2>2, IntentIds, Zeros DEF IntentRow
    <3>2. QED
      BY <1>1, <2>1, <3>1
  <2>4. new \in EventRecord /\ new.obj = p /\ Reported(new)'
    <3>1. new \in EventRecord
      BY <2>2, EventTypes, EventTyped, IntentIds, Zeros
    <3>2. pi'[p].a # 0 /\ pi'[p].st = st
      BY <2>3, IntentIds
    <3>3. QED
      BY <2>2, <3>1, <3>2, EventTypes DEF Reported, PaymentEvent, Event, Agrees
  <2>5. \A e \in sent : Reported(e)' /\ (e.type = "succeeded" => e.obj # p)
    <3> SUFFICES ASSUME NEW e \in sent PROVE Reported(e)' /\ (e.type = "succeeded" => e.obj # p)
      OBVIOUS
    <3>1. Reported(e)
      BY <1>2 DEF StripeSound
    <3>2. CASE PaymentEvent(e)
      <4>1. e.obj \in Intent \ {p}
        BY <2>1, <3>1, <3>2 DEF Reported
      <4>2. QED
        BY <2>3, <3>1, <3>2, <4>1 DEF Reported
    <3>3. CASE ~PaymentEvent(e)
      BY <3>1, <3>3 DEF Reported, PaymentEvent
    <3>4. QED
      BY <3>2, <3>3
  <2>6. StripeGrows
    BY <2>1, <2>3 DEF StripeGrows
  <2>7. StripeSound'
    <3>1. /\ \A q \in Intent : pi'[q].a # 0 => att'[pi'[q].a].st # "none"
          /\ \A q \in Intent : pi'[q].a = 0 => pi'[q].st = "none"
      BY <1>2, <2>3, IntentIds DEF StripeSound
    <3>2. \A q, s \in Intent : pi'[q].a # 0 /\ pi'[q].a = pi'[s].a => q = s
      BY <1>2, <2>2, <2>3 DEF StripeSound
    <3>3. \A e \in sent' : Reported(e)'
      BY <2>1, <2>4, <2>5
    <3>4. \A e, f \in sent' :
            e.type = "succeeded" /\ f.type = "succeeded" /\ e.obj = f.obj => e = f
      BY <1>2, <2>1, <2>4, <2>5 DEF StripeSound
    <3>5. QED
      BY <1>2, <3>1, <3>2, <3>3, <3>4 DEF StripeSound
  <2>8. QED
    BY <1>1, <2>1, <2>3, <2>4, <2>6, <2>7 DEF StripeMoves
<1>5. QED
  BY <1>3, <1>4

----------------------------------------------------------------------------
(* One replica goes on, or an event is recorded: by the replica that has   *)
(* received it, or by one that found it overtaken.                         *)

Moves(r, new) ==
  /\ task' = [task EXCEPT ![r] = new] /\ new \in TaskRow /\ TaskSound(task[r])'
  /\ new.op = "received" => \A s \in Replica : task[s].op = "received" => task[s].e # new.e
  /\ recorded' = recorded

Records(r, e) ==
  /\ recorded' = recorded \cup {e}
  /\ \/ task' = [task EXCEPT ![r] = Idle] /\ task[r].op = "received" /\ e = task[r].e
     \/ task' = task /\ e.type # "succeeded"

TasksMove ==
  \/ UNCHANGED <<task, recorded>>
  \/ \E r \in Replica, new \in TaskRow : Moves(r, new)
  \/ \E r \in Replica, e \in sent : Records(r, e)

LEMMA IdleSound == TaskSound(Idle) /\ TaskSound(Idle)' /\ Idle.op = "idle"
BY DEF TaskSound, Idle

LEMMA TaskKept ==
  ASSUME TypeOK, Books, StripeGrows, AttemptsGrow, NEW x \in TaskRow, TaskSound(x),
         x.op = "received" /\ x.e.type = "succeeded" => x.e \notin recorded'
  PROVE  TaskSound(x)'
<1>1. x.a \in Attempt /\ att[x.a].pi # 0 =>
        /\ att'[x.a].pi = att[x.a].pi
        /\ pi[att[x.a].pi].st = "canceled" => pi'[att[x.a].pi].st = "canceled"
  <2> SUFFICES ASSUME x.a \in Attempt, att[x.a].pi # 0
               PROVE  /\ att'[x.a].pi = att[x.a].pi
                      /\ pi[att[x.a].pi].st = "canceled" => pi'[att[x.a].pi].st = "canceled"
    OBVIOUS
  <2>1. att[x.a].pi \in Intent /\ pi[att[x.a].pi].a # 0
    <3>1. att[x.a] \in AttemptRow
      BY Typed
    <3>2. AttemptSound(x.a)
      BY DEF Books
    <3>3. QED
      BY <3>1, <3>2, IntentIds DEF AttemptRow, AttemptSound
  <2>2. Agrees("canceled", pi[att[x.a].pi].st) => Agrees("canceled", pi'[att[x.a].pi].st)
    BY <2>1 DEF StripeGrows, Status
  <2>3. QED
    BY <2>2 DEF AttemptsGrow, Agrees
<1>2. x.op = "store" => x.p \in Intent /\ pi'[x.p].a = x.a
  BY IntentIds DEF TaskSound, StripeGrows
<1>3. QED
  BY <1>1, <1>2 DEF TaskSound, AttemptsGrow, StripeGrows

LEMMA UnmovedKept ==
  ASSUME TypeOK, Books, StripeGrows, AttemptsGrow, NEW r \in Replica, task'[r] = task[r],
         task[r].op = "received" /\ task[r].e.type = "succeeded" => task[r].e \notin recorded'
  PROVE  TaskSound(task[r])'
<1>1. PICK x \in TaskRow : x = task[r]
  BY Typed
<1>2. TaskSound(x)
  BY <1>1 DEF Books
<1>3. TaskSound(x)'
  BY <1>1, <1>2, TaskKept
<1>4. QED
  BY <1>1, <1>3 DEF TaskSound

LEMMA TasksKept ==
  ASSUME TypeOK, Books, StripeGrows, AttemptsGrow, TasksMove
  PROVE  /\ task' \in [Replica -> TaskRow] /\ recorded \subseteq recorded'
         /\ recorded' \subseteq sent'
         /\ \A r \in Replica : TaskSound(task[r])'
         /\ OneReceives'
<1>1. task \in [Replica -> TaskRow] /\ recorded \subseteq sent /\ sent \subseteq sent'
  BY Typed DEF StripeGrows
<1>2. /\ \A r \in Replica : task[r].op = "received" /\ task[r].e.type = "succeeded"
                              => task[r].e \notin recorded
      /\ OneReceives
  BY DEF Books, TaskSound
<1>3. CASE UNCHANGED <<task, recorded>>
  <2>1. \A r \in Replica : TaskSound(task[r])'
    BY <1>2, <1>3, UnmovedKept
  <2>2. QED
    BY <1>1, <1>2, <1>3, <2>1 DEF OneReceives
<1>4. ASSUME NEW r \in Replica, NEW new \in TaskRow, Moves(r, new)
      PROVE  /\ task' \in [Replica -> TaskRow] /\ recorded' = recorded
             /\ \A s \in Replica : TaskSound(task[s])'
             /\ OneReceives'
  <2>1. task'[r] = new /\ \A s \in Replica \ {r} : task'[s] = task[s]
    BY <1>1, <1>4 DEF Moves
  <2>2. task' \in [Replica -> TaskRow] /\ recorded' = recorded
    BY <1>1, <1>4 DEF Moves
  <2>3. \A s \in Replica \ {r} : TaskSound(task[s])'
    BY <1>2, <2>1, <2>2, UnmovedKept
  <2>4. OneReceives'
    BY <1>2, <1>4, <2>1 DEF Moves, OneReceives
  <2>5. TaskSound(task[r])'
    BY <1>4 DEF Moves
  <2>6. QED
    BY <2>2, <2>3, <2>4, <2>5
<1>5. ASSUME NEW r \in Replica, NEW e \in sent, Records(r, e)
      PROVE  /\ task' \in [Replica -> TaskRow] /\ recorded \subseteq recorded'
             /\ recorded' \subseteq sent
             /\ \A s \in Replica : TaskSound(task[s])'
             /\ OneReceives'
  <2>1. /\ \A s \in Replica : task'[s] = Idle \/ task'[s] = task[s]
        /\ task' \in [Replica -> TaskRow]
    BY <1>1, <1>5, BlankTyped DEF Records
  <2>2. recorded' = recorded \cup {e}
    BY <1>5 DEF Records
  <2>3. ASSUME NEW s \in Replica, task'[s] = task[s], task[s] # Idle PROVE TaskSound(task[s])'
    <3>1. task[s].op = "received" /\ task[s].e.type = "succeeded" => task[s].e # e
      BY <1>1, <1>2, <1>5, <2>3 DEF Records, OneReceives
    <3>2. QED
      BY <1>2, <2>2, <2>3, <3>1, UnmovedKept
  <2>4. OneReceives'
    BY <1>2, <2>1, IdleSound DEF OneReceives
  <2>5. ASSUME NEW s \in Replica, task'[s] = Idle PROVE TaskSound(task[s])'
    BY <2>5 DEF TaskSound, Idle
  <2>6. QED
    BY <1>1, <2>1, <2>2, <2>3, <2>4, <2>5
<1>6. QED
  BY <1>1, <1>3, <1>4, <1>5 DEF TasksMove

----------------------------------------------------------------------------
(* What a step does to the rows of the account.                            *)

SameConsent(state) ==
  acct' \in AccountRow /\ acct'.gen = acct.gen /\ acct'.rev = acct.rev /\ acct'.state \in state

Steady == UNCHANGED <<att, chk>> /\ SameConsent({acct.state})

Troubles == UNCHANGED <<att, chk>> /\ acct.state # "DISABLED" /\ SameConsent(RecoveryState)

(* A charge is claimed under the consent of the account: the next attempt. *)
Charges(a) ==
  /\ att[a].st = "none" /\ \A b \in 1..(a - 1) : att[b].st # "none"
  /\ UnresolvedAttempts = {} /\ acct.state = "ACTIVE"
  /\ ChargedThisMonth + 1 <= MonthlyCap[acct.rev]
  /\ att' = [att EXCEPT ![a] = [NoAttempt EXCEPT
               !.st = "PENDING", !.rev = acct.rev, !.month = month]]
  /\ UNCHANGED <<acct, chk>>

(* An open charge goes on; one in trouble troubles the account.            *)
Writes(a, row) ==
  /\ att[a].st \in Unresolved /\ row.st \in Unresolved \cup Terminal
  /\ row.rev = att[a].rev /\ row.month = att[a].month
  /\ att[a].pi # 0 => row.pi = att[a].pi
  /\ att' = [att EXCEPT ![a] = row] /\ AttemptSound(a)'
  /\ SameConsent({acct.state} \cup RecoveryState)
  /\ \/ row.st \in {"PENDING", "SUCCEEDED"}
     \/ row.st = att[a].st /\ acct' = acct
     \/ acct.state # "DISABLED" => acct'.state \in RecoveryState
  /\ UNCHANGED chk

(* The consent changes, and no setup checkout of before stays open.        *)
Renews(state) ==
  /\ UnresolvedAttempts = {} /\ acct.gen < MaxGen
  /\ acct' = Consented(state) /\ UNCHANGED att
  /\ \/ chk' = Abandoned
     \/ \E c \in OpenCheckouts : chk' = [chk EXCEPT ![c].st = "COMPLETE"]

StartsSetup(c, row) ==
  /\ OpenCheckouts = {} /\ chk[c].st = "none"
  /\ row.gen = acct.gen /\ row.rev = acct.rev /\ row.st = "CREATING"
  /\ chk' = [chk EXCEPT ![c] = row] /\ UNCHANGED <<acct, att>>

GoesOn(c, row) ==
  /\ row.gen = chk[c].gen /\ row.rev = chk[c].rev
  /\ row.st = chk[c].st \/ chk[c].st \in OpenCheckout
  /\ chk' = [chk EXCEPT ![c] = row] /\ UNCHANGED <<acct, att>>

LedgerMoves ==
  \/ Steady \/ Troubles
  \/ \E a \in Attempt : Charges(a)
  \/ \E a \in Attempt, row \in AttemptRow : Writes(a, row)
  \/ \E state \in {"ACTIVE", "DISABLED"} : Renews(state)
  \/ \E c \in Checkout, row \in CheckoutRow : StartsSetup(c, row) \/ GoesOn(c, row)

World ==
  /\ lock' \in Replica \cup {None} /\ month' \in 1..scope.months /\ scope' = scope
  /\ late' \subseteq Attempt

Advances == World /\ LedgerMoves /\ StripeMoves /\ TasksMove

----------------------------------------------------------------------------
(* Each of these keeps the types and the books.                            *)

LEMMA ConsentedTyped ==
  ASSUME acct \in AccountRow, acct.gen < MaxGen, NEW state \in {"ACTIVE", "DISABLED"}
  PROVE  /\ Consented(state) \in AccountRow
         /\ Consented(state).gen = acct.gen + 1 /\ Consented(state).state = state
         /\ Consented(state).rev = IF state = "DISABLED" THEN 0 ELSE acct.gen + 1
<1>1. acct.gen + 1 \in 0..MaxGen /\ 0 \in 0..MaxGen
  BY AutoTopUpAssumption DEF AccountRow
<1>2. PICK g \in 0..MaxGen : g = acct.gen + 1
  BY <1>1
<1>3. PICK v \in 0..MaxGen : v = IF state = "DISABLED" THEN 0 ELSE acct.gen + 1
  BY <1>1
<1>4. Consented(state) = [acct EXCEPT !.state = state, !.gen = g, !.rev = v]
  BY <1>2, <1>3 DEF Consented
<1>5. QED
  BY <1>2, <1>3, <1>4 DEF AccountRow

LEMMA AbandonedTyped ==
  ASSUME chk \in [Checkout -> CheckoutRow]
  PROVE  /\ Abandoned \in [Checkout -> CheckoutRow]
         /\ \A c \in Checkout : Abandoned[c].st \notin OpenCheckout
                             /\ (chk[c].st \notin OpenCheckout => Abandoned[c].st = chk[c].st)
<1>1. \A c \in Checkout :
        Abandoned[c] = IF chk[c].st \in OpenCheckout THEN [chk[c] EXCEPT !.st = "ABANDONED"]
                                                     ELSE chk[c]
  BY DEF Abandoned
<1>2. ASSUME NEW c \in Checkout
      PROVE  /\ Abandoned[c] \in CheckoutRow /\ Abandoned[c].st \notin OpenCheckout
             /\ chk[c].st \notin OpenCheckout => Abandoned[c].st = chk[c].st
  <2>1. CASE chk[c].st \in OpenCheckout
    <3>1. Abandoned[c] = [chk[c] EXCEPT !.st = "ABANDONED"] /\ chk[c] \in CheckoutRow
      BY <1>1, <2>1
    <3>2. Abandoned[c] \in CheckoutRow
      BY <3>1, RowUpdates
    <3>3. Abandoned[c].st = "ABANDONED"
      BY <3>1 DEF CheckoutRow
    <3>4. QED
      BY <2>1, <3>2, <3>3 DEF OpenCheckout
  <2>2. CASE chk[c].st \notin OpenCheckout
    BY <1>1, <2>2
  <2>3. QED
    BY <2>1, <2>2
<1>3. Abandoned = [c \in Checkout |-> Abandoned[c]]
  BY DEF Abandoned
<1>4. QED
  BY <1>2, <1>3

LEMMA NewAttemptTyped ==
  ASSUME TypeOK
  PROVE  [NoAttempt EXCEPT !.st = "PENDING", !.rev = acct.rev, !.month = month] \in AttemptRow
<1>1. month \in 0..MaxMonth
  BY Typed, AutoTopUpAssumption
<1>2. acct.rev \in 0..MaxGen
  BY Typed DEF AccountRow
<1>3. QED
  BY <1>1, <1>2, BlankTyped DEF AttemptRow, Unresolved

LEMMA LedgerTyped ==
  ASSUME TypeOK, LedgerMoves
  PROVE  acct' \in AccountRow /\ att' \in [Attempt -> AttemptRow]
         /\ chk' \in [Checkout -> CheckoutRow]
<1>1. /\ acct \in AccountRow /\ att \in [Attempt -> AttemptRow]
      /\ chk \in [Checkout -> CheckoutRow]
  BY Typed
<1>2. CASE Steady \/ Troubles
  BY <1>1, <1>2 DEF Steady, Troubles, SameConsent
<1>3. CASE \E a \in Attempt : Charges(a)
  BY <1>1, <1>3, NewAttemptTyped DEF Charges
<1>4. CASE \E a \in Attempt, row \in AttemptRow : Writes(a, row)
  BY <1>1, <1>4 DEF Writes, SameConsent
<1>5. ASSUME NEW state \in {"ACTIVE", "DISABLED"}, Renews(state)
      PROVE  acct' \in AccountRow /\ att' = att /\ chk' \in [Checkout -> CheckoutRow]
  <2>1. acct' \in AccountRow
    BY <1>1, <1>5, ConsentedTyped DEF Renews
  <2>2. ASSUME NEW c \in OpenCheckouts, chk' = [chk EXCEPT ![c].st = "COMPLETE"]
        PROVE  chk' \in [Checkout -> CheckoutRow]
    BY <1>1, <2>2, RowUpdates DEF OpenCheckouts
  <2>3. QED
    BY <1>1, <1>5, <2>1, <2>2, AbandonedTyped DEF Renews
<1>6. CASE \E c \in Checkout, row \in CheckoutRow : StartsSetup(c, row) \/ GoesOn(c, row)
  BY <1>1, <1>6 DEF StartsSetup, GoesOn
<1>7. QED
  BY <1>1, <1>2, <1>3, <1>4, <1>5, <1>6 DEF LedgerMoves

LEMMA LedgerGrows ==
  ASSUME TypeOK, Books, LedgerMoves
  PROVE  AttemptsGrow
<1>1. att \in [Attempt -> AttemptRow]
  BY Typed
<1>2. CASE UNCHANGED att
  BY <1>2 DEF AttemptsGrow
<1>3. ASSUME NEW a \in Attempt, Charges(a) PROVE AttemptsGrow
  BY <1>1, <1>3 DEF Charges, AttemptsGrow, Books, AttemptSound, NoAttempt
<1>4. ASSUME NEW a \in Attempt, NEW row \in AttemptRow, Writes(a, row) PROVE AttemptsGrow
  BY <1>1, <1>4 DEF Writes, AttemptsGrow, Unresolved, Terminal
<1>5. QED
  BY <1>2, <1>3, <1>4 DEF LedgerMoves, Steady, Troubles, Renews, StartsSetup, GoesOn

LEMMA AttemptKept ==
  ASSUME TypeOK, Books, StripeGrows, recorded \subseteq recorded',
         NEW a \in Attempt, att'[a] = att[a]
  PROVE  AttemptSound(a)'
<1>1. AttemptSound(a) /\ att[a] \in AttemptRow
  BY Typed DEF Books
<1>2. att[a].pi # 0 => att[a].pi \in Intent /\ pi[att[a].pi].a # 0
  BY <1>1, IntentIds DEF AttemptRow, AttemptSound
<1>3. att[a].pi # 0 =>
        /\ pi'[att[a].pi].a = pi[att[a].pi].a
        /\ \A st \in Status : Agrees(st, pi[att[a].pi].st) => Agrees(st, pi'[att[a].pi].st)
  BY <1>2 DEF StripeGrows
<1>4. /\ att[a].st = "SUCCEEDED" => pi'[att[a].pi].st = "succeeded"
      /\ att[a].st \in GivenUp => pi'[att[a].pi].st \in {"requires_payment_method", "canceled"}
  <2>1. att[a].st \in Terminal => att[a].pi # 0
    BY <1>1 DEF AttemptSound
  <2>2. att[a].st = "SUCCEEDED" => pi'[att[a].pi].st = "succeeded"
    <3>1. CASE att[a].st = "SUCCEEDED"
      <4>1. Agrees("succeeded", pi[att[a].pi].st)
        BY <1>1, <3>1 DEF AttemptSound, Agrees
      <4>2. QED
        BY <1>3, <2>1, <3>1, <4>1 DEF Agrees, Terminal, Status
    <3>2. QED
      BY <3>1
  <2>3. att[a].st \in GivenUp => pi'[att[a].pi].st \in {"requires_payment_method", "canceled"}
    <3>1. CASE att[a].st \in GivenUp
      <4>1. Agrees("requires_payment_method", pi[att[a].pi].st)
        BY <1>1, <3>1 DEF AttemptSound, Agrees
      <4>2. QED
        BY <1>3, <2>1, <3>1, <4>1 DEF Agrees, Terminal, Status, GivenUp
    <3>2. QED
      BY <3>1
  <2>4. QED
    BY <2>2, <2>3
<1>5. QED
  BY <1>1, <1>3, <1>4 DEF AttemptSound

LEMMA AdvanceKeepsBooks ==
  ASSUME TypeOK, Books, Consents, Advances
  PROVE  TypeOK' /\ Books'
<1>1. AttemptsGrow
  BY LedgerGrows DEF Advances
<1>2. StripeGrows /\ StripeSound' /\ pi' \in [Intent -> IntentRow] /\ sent' \subseteq EventRecord
  BY DEF Advances, StripeMoves
<1>3. /\ task' \in [Replica -> TaskRow] /\ recorded \subseteq recorded' /\ recorded' \subseteq sent'
      /\ \A r \in Replica : TaskSound(task[r])'
      /\ OneReceives'
  BY <1>1, <1>2, TasksKept DEF Advances
<1>4. acct' \in AccountRow /\ att' \in [Attempt -> AttemptRow] /\ chk' \in [Checkout -> CheckoutRow]
  BY LedgerTyped DEF Advances
<1>5. TypeOK'
  BY <1>2, <1>3, <1>4, Typed, TypedNext DEF Advances, World
<1>6. att \in [Attempt -> AttemptRow] /\ \A a \in Attempt : AttemptSound(a)
  BY Typed DEF Books
<1>7. \A a \in Attempt : AttemptSound(a)'
  <2>1. CASE UNCHANGED att
    BY <1>2, <1>3, <2>1, AttemptKept
  <2>2. ASSUME NEW a \in Attempt, Charges(a) PROVE \A b \in Attempt : AttemptSound(b)'
    <3>1. /\ att'[a] = [NoAttempt EXCEPT !.st = "PENDING", !.rev = acct.rev, !.month = month]
          /\ \A b \in Attempt \ {a} : att'[b] = att[b]
      BY <1>6, <2>2 DEF Charges
    <3>2. acct.rev \in Revision
      BY Typed, <2>2, AutoTopUpAssumption DEF Charges, Consents, AccountSound, AccountRow, Revision
    <3>3. AttemptSound(a)'
      BY <3>1, <3>2 DEF AttemptSound, NoAttempt, Terminal, GivenUp
    <3>4. QED
      BY <1>2, <1>3, <3>1, <3>3, AttemptKept
  <2>3. ASSUME NEW a \in Attempt, NEW row \in AttemptRow, Writes(a, row)
        PROVE  \A b \in Attempt : AttemptSound(b)'
    <3>1. AttemptSound(a)' /\ \A b \in Attempt \ {a} : att'[b] = att[b]
      BY <1>6, <2>3 DEF Writes
    <3>2. QED
      BY <1>2, <1>3, <3>1, AttemptKept
  <2>4. QED
    BY <2>1, <2>2, <2>3
       DEF Advances, LedgerMoves, Steady, Troubles, Renews, StartsSetup, GoesOn
<1>8. QED
  BY <1>2, <1>3, <1>5, <1>7 DEF Books

----------------------------------------------------------------------------
(* Each of these keeps what the consent promises.                          *)

LEMMA OpenChargesHaveConsent ==
  ASSUME TypeOK, Books, Consents, NEW a \in Attempt, att[a].st \in Unresolved
  PROVE  acct.state # "DISABLED" /\ acct.rev = acct.gen /\ att[a].rev = acct.gen
<1>1. att[a].rev = acct.rev /\ att[a].rev \in Revision
  BY DEF Consents, AttemptsInTurn, UnresolvedAttempts, Books, AttemptSound, Unresolved
<1>2. acct.rev # 0
  BY <1>1 DEF Revision
<1>3. QED
  BY <1>1, <1>2 DEF Consents, AccountSound

LEMMA SameRowsKeepConsents ==
  ASSUME TypeOK, Books, Consents, Steady \/ Troubles
  PROVE  Consents'
<1>1. /\ att' = att /\ chk' = chk /\ acct'.gen = acct.gen /\ acct'.rev = acct.rev
      /\ acct'.state = acct.state \/ (acct'.state \in RecoveryState /\ acct.state # "DISABLED")
  <2>1. CASE Steady
    BY <2>1 DEF Steady, SameConsent
  <2>2. CASE Troubles
    BY <2>2 DEF Troubles, SameConsent
  <2>3. QED
    BY <2>1, <2>2
<1>2. AccountSound'
  BY <1>1 DEF Consents, AccountSound, RecoveryState
<1>3. AttemptsInTurn' /\ TroubleStopsCharging'
  BY <1>1 DEF Consents, AttemptsInTurn, UnresolvedAttempts, TroubleStopsCharging, RecoveryState
<1>4. \A a \in Attempt : att'[a].st # "none" => CapLeaves(a)'
  BY <1>1 DEF Consents, CapLeaves, Before
<1>5. SetupsSound'
  BY <1>1 DEF Consents, SetupsSound, OpenSetupsAreCurrent, OpenCheckouts, PredecessorHolds
<1>6. QED
  BY <1>2, <1>3, <1>4, <1>5 DEF Consents

LEMMA ChargeKeepsConsents ==
  ASSUME TypeOK, Books, Consents, NEW n \in Attempt, Charges(n)
  PROVE  Consents'
<1>1. att \in [Attempt -> AttemptRow] /\ acct \in AccountRow
  BY Typed
<1>2. /\ att'[n] = [NoAttempt EXCEPT !.st = "PENDING", !.rev = acct.rev, !.month = month]
      /\ \A b \in Attempt \ {n} : att'[b] = att[b]
      /\ acct' = acct /\ chk' = chk
  BY <1>1 DEF Charges
<1>3. att'[n].st = "PENDING" /\ att'[n].rev = acct.rev /\ att'[n].month = month
  BY <1>2 DEF NoAttempt
<1>4. att[n].st = "none" /\ acct.state = "ACTIVE" /\ acct.rev # 0 /\ acct.rev = acct.gen
  BY DEF Charges, Consents, AccountSound
<1>5. \A a \in Attempt : a < n => att[a].st \in Terminal
  <2> SUFFICES ASSUME NEW a \in Attempt, a < n PROVE att[a].st \in Terminal
    OBVIOUS
  <2>1. a \in 1..(n - 1)
    BY IntentIds
  <2>2. att[a].st # "none" /\ att[a].st \notin Unresolved
    BY <2>1 DEF Charges, UnresolvedAttempts
  <2>3. QED
    BY <1>1, <2>2 DEF AttemptRow
<1>6. \A a \in Attempt : n < a => att[a].st = "none"
  BY <1>4 DEF Consents, AttemptsInTurn, Terminal
<1>7. n \in Nat /\ Attempt \subseteq Nat
  BY IntentIds
<1>8. AttemptsInTurn'
  <2>1. ASSUME NEW a \in Attempt, NEW b \in Attempt, a < b, att'[b].st # "none"
        PROVE  att'[a].st \in Terminal
    <3>1. CASE b = n
      BY <1>2, <1>5, <1>7, <2>1, <3>1
    <3>2. CASE b # n
      <4>1. att[b].st # "none" /\ att[a].st \in Terminal
        BY <1>2, <2>1, <3>2 DEF Consents, AttemptsInTurn
      <4>2. a # n
        BY <1>4, <4>1 DEF Terminal
      <4>3. QED
        BY <1>2, <4>1, <4>2
    <3>3. QED
      BY <3>1, <3>2
  <2>2. \A a \in UnresolvedAttempts' : att'[a].rev = acct'.rev
    BY <1>2, <1>3 DEF Charges, UnresolvedAttempts
  <2>3. \A a \in Attempt : att'[a].st # "none" => att'[a].rev <= acct'.gen
    <3>1. acct.gen <= acct.gen
      BY <1>1 DEF AccountRow
    <3>2. QED
      BY <1>2, <1>3, <1>4, <3>1 DEF Consents, AttemptsInTurn
  <2>4. \A a \in Attempt : att'[a].st \in GivenUp /\ acct'.state = "ACTIVE" => att'[a].rev < acct'.rev
    BY <1>2, <1>3 DEF Consents, AttemptsInTurn, GivenUp
  <2>5. QED
    BY <2>1, <2>2, <2>3, <2>4 DEF AttemptsInTurn
<1>9. TroubleStopsCharging'
  <2>1. \A a \in UnresolvedAttempts' : att'[a].st # "PENDING" => acct'.state \in RecoveryState
    BY <1>2, <1>3 DEF Charges, UnresolvedAttempts
  <2>2. ASSUME NEW a \in Attempt, NEW b \in Attempt,
               att'[a].st \in {"FAILED", "CANCELED"}, a < b, att'[b].st # "none"
        PROVE  att'[a].rev < att'[b].rev
    <3>1. a # n /\ att'[a] = att[a]
      BY <1>2, <1>3, <2>2
    <3>2. CASE b = n
      BY <1>3, <1>4, <2>2, <3>1, <3>2 DEF Consents, AttemptsInTurn, GivenUp
    <3>3. CASE b # n
      BY <1>2, <2>2, <3>1, <3>3 DEF Consents, TroubleStopsCharging
    <3>4. QED
      BY <3>2, <3>3
  <2>3. QED
    BY <2>1, <2>2 DEF TroubleStopsCharging
<1>10. ASSUME NEW a \in Attempt, att'[a].st # "none" PROVE CapLeaves(a)'
  <2>1. \A b \in Attempt : att'[b].st = "SUCCEEDED" <=> att[b].st = "SUCCEEDED"
    BY <1>2, <1>3, <1>4
  <2>2. \A b \in Attempt : att[b].st = "SUCCEEDED" => att'[b] = att[b]
    BY <1>2, <1>4
  <2>3. 1..(a - 1) \subseteq Attempt
    BY AutoTopUpAssumption DEF Attempt
  <2>4. CASE a = n
    <3> DEFINE S == {b \in Attempt : att[b].st = "SUCCEEDED" /\ att[b].month = month}
    <3>1. Before(a)' = {b \in 1..(a - 1) : att[b].st = "SUCCEEDED" /\ att[b].month = month}
      BY <1>3, <2>1, <2>2, <2>3, <2>4 DEF Before
    <3>2. \A b \in Attempt : att[b].st = "SUCCEEDED" => b \in 1..(a - 1)
      <4> SUFFICES ASSUME NEW b \in Attempt, att[b].st = "SUCCEEDED" PROVE b \in 1..(a - 1)
        OBVIOUS
      <4>1. b # n /\ ~(n < b)
        BY <1>4, <1>6
      <4>2. b \in Nat /\ b # 0
        BY IntentIds
      <4>3. QED
        BY <1>7, <2>4, <4>1, <4>2
    <3>3. Before(a)' = S
      BY <2>3, <3>1, <3>2
    <3>4. QED
      BY <1>3, <2>4, <3>3 DEF CapLeaves, Charges, ChargedThisMonth
  <2>5. CASE a # n
    <3>1. att'[a] = att[a]
      BY <1>2, <2>5
    <3>2. Before(a)' = Before(a)
      BY <2>1, <2>2, <2>3, <3>1 DEF Before
    <3>3. QED
      BY <1>10, <3>1, <3>2 DEF CapLeaves, Consents
  <2>6. QED
    BY <2>4, <2>5
<1>11. AccountSound' /\ SetupsSound'
  BY <1>2 DEF Consents, AccountSound, SetupsSound, OpenSetupsAreCurrent, OpenCheckouts,
              PredecessorHolds
<1>12. QED
  BY <1>8, <1>9, <1>10, <1>11 DEF Consents

LEMMA WriteKeepsConsents ==
  ASSUME TypeOK, Books, Consents, NEW w \in Attempt, NEW row \in AttemptRow, Writes(w, row)
  PROVE  Consents'
<1>1. att \in [Attempt -> AttemptRow] /\ Attempt \subseteq Nat
  BY Typed, IntentIds
<1>2. att'[w] = row /\ \A a \in Attempt \ {w} : att'[a] = att[a]
  BY <1>1 DEF Writes
<1>3. /\ att[w].st \in Unresolved /\ row.st \in Unresolved \cup Terminal
      /\ row.rev = att[w].rev /\ row.month = att[w].month /\ chk' = chk
      /\ acct'.gen = acct.gen /\ acct'.rev = acct.rev
      /\ acct'.state \in {acct.state} \cup RecoveryState
  BY DEF Writes, SameConsent
<1>4. acct.state # "DISABLED" /\ acct.rev = acct.gen /\ att[w].rev = acct.rev
  BY <1>3, OpenChargesHaveConsent
<1>5. att[w].st # "none" /\ att[w].st \notin Terminal
  BY <1>3 DEF Unresolved, Terminal
<1>6. AttemptsInTurn /\ TroubleStopsCharging
  BY DEF Consents
<1>7. \A a \in Attempt : w < a => att[a].st = "none"
  BY <1>5, <1>6 DEF AttemptsInTurn
<1>8. \A a \in Attempt : a < w => att[a].st \in Terminal
  BY <1>5, <1>6 DEF AttemptsInTurn
<1>9. \A a \in Attempt \ {w} : att[a].st \notin Unresolved
  BY <1>1, <1>7, <1>8 DEF Unresolved, Terminal
<1>10. \/ row.st \in {"PENDING", "SUCCEEDED"}
       \/ row.st = att[w].st /\ acct' = acct
       \/ acct'.state \in RecoveryState
  BY <1>4 DEF Writes
<1>11. AccountSound'
  BY <1>3, <1>4 DEF Consents, AccountSound, RecoveryState
<1>12. AttemptsInTurn'
  <2>1. ASSUME NEW a \in Attempt, NEW b \in Attempt, a < b, att'[b].st # "none"
        PROVE  att'[a].st \in Terminal
    <3>1. CASE b = w
      <4>1. a # w
        BY <1>1, <2>1, <3>1
      <4>2. QED
        BY <1>2, <1>8, <2>1, <3>1, <4>1
    <3>2. CASE b # w
      <4>1. att[b].st # "none"
        BY <1>2, <2>1, <3>2
      <4>2. a # w
        BY <1>7, <2>1, <4>1
      <4>3. QED
        BY <1>2, <1>6, <2>1, <4>1, <4>2 DEF AttemptsInTurn
    <3>3. QED
      BY <3>1, <3>2
  <2>2. \A a \in UnresolvedAttempts' : att'[a].rev = acct'.rev
    BY <1>2, <1>3, <1>4, <1>9 DEF UnresolvedAttempts
  <2>3. ASSUME NEW a \in Attempt, att'[a].st # "none" PROVE att'[a].rev <= acct'.gen
    BY <1>2, <1>3, <1>5, <1>6, <2>3 DEF AttemptsInTurn
  <2>4. ASSUME NEW a \in Attempt, att'[a].st \in GivenUp, acct'.state = "ACTIVE"
        PROVE  att'[a].rev < acct'.rev
    <3>1. acct.state = "ACTIVE" /\ acct'.state \notin RecoveryState
      BY <1>3, <2>4 DEF RecoveryState
    <3>2. a # w
      BY <1>2, <1>3, <1>10, <2>4, <3>1 DEF GivenUp, Unresolved
    <3>3. QED
      BY <1>2, <1>3, <1>6, <2>4, <3>1, <3>2 DEF AttemptsInTurn
  <2>5. QED
    BY <2>1, <2>2, <2>3, <2>4 DEF AttemptsInTurn
<1>13. TroubleStopsCharging'
  <2>1. ASSUME NEW a \in Attempt, att'[a].st \in Unresolved, att'[a].st # "PENDING"
        PROVE  acct'.state \in RecoveryState
    <3>1. a = w /\ row.st \in Unresolved /\ row.st # "PENDING"
      BY <1>2, <1>9, <2>1
    <3>2. row.st # "SUCCEEDED"
      BY <3>1 DEF Unresolved
    <3>3. att[w].st # "PENDING" => acct.state \in RecoveryState
      BY <1>3, <1>6 DEF TroubleStopsCharging, UnresolvedAttempts
    <3>4. QED
      BY <1>10, <3>1, <3>2, <3>3
  <2>2. ASSUME NEW a \in Attempt, NEW b \in Attempt,
               att'[a].st \in {"FAILED", "CANCELED"}, a < b, att'[b].st # "none"
        PROVE  att'[a].rev < att'[b].rev
    <3>1. att[b].st # "none" /\ att'[b].rev = att[b].rev
      BY <1>2, <1>3, <1>5, <2>2
    <3>2. a # w
      BY <1>7, <2>2, <3>1
    <3>3. QED
      BY <1>2, <1>6, <2>2, <3>1, <3>2 DEF TroubleStopsCharging
  <2>3. QED
    BY <2>1, <2>2 DEF TroubleStopsCharging, UnresolvedAttempts
<1>14. ASSUME NEW a \in Attempt, att'[a].st # "none" PROVE CapLeaves(a)'
  <2>1. att[a].st # "none" /\ att'[a].rev = att[a].rev /\ att'[a].month = att[a].month
    BY <1>2, <1>3, <1>5, <1>14
  <2>2. 1..(a - 1) \subseteq Attempt /\ w \notin 1..(a - 1)
    <3>1. 1..(a - 1) \subseteq Attempt
      BY AutoTopUpAssumption DEF Attempt
    <3>2. w \in 1..(a - 1) => w < a
      BY <1>1
    <3>3. QED
      BY <1>7, <2>1, <3>1, <3>2
  <2>3. Before(a)' = Before(a)
    BY <1>2, <2>1, <2>2 DEF Before
  <2>4. CapLeaves(a)
    BY <2>1 DEF Consents
  <2>5. QED
    BY <2>1, <2>3, <2>4 DEF CapLeaves
<1>15. SetupsSound'
  BY <1>3 DEF Consents, SetupsSound, OpenSetupsAreCurrent, OpenCheckouts, PredecessorHolds
<1>16. QED
  BY <1>11, <1>12, <1>13, <1>14, <1>15 DEF Consents

LEMMA RenewalKeepsConsents ==
  ASSUME TypeOK, Books, Consents, NEW state \in {"ACTIVE", "DISABLED"}, Renews(state)
  PROVE  Consents' /\ OpenCheckouts' = {}
<1>1. /\ acct'.gen = acct.gen + 1 /\ acct'.state = state
      /\ acct'.rev = IF state = "DISABLED" THEN 0 ELSE acct.gen + 1
      /\ acct.gen \in Nat /\ att' = att /\ UnresolvedAttempts = {}
  <2>1. acct \in AccountRow /\ acct.gen < MaxGen /\ acct' = Consented(state)
    BY Typed DEF Renews
  <2>2. QED
    BY <2>1, ConsentedTyped DEF Renews, AccountRow
<1>2. att \in [Attempt -> AttemptRow] /\ chk \in [Checkout -> CheckoutRow]
  BY Typed
<1>3. AccountSound'
  BY <1>1 DEF AccountSound
<1>4. AttemptsInTurn'
  <2>1. \A a \in Attempt : att[a].rev \in Nat
    BY <1>2 DEF AttemptRow
  <2>2. \A a \in Attempt : att[a].st # "none" => att[a].rev < acct.gen + 1
    BY <1>1, <2>1 DEF Consents, AttemptsInTurn
  <2>3. UnresolvedAttempts' = {}
    BY <1>1 DEF UnresolvedAttempts
  <2>4. \A a \in Attempt : att'[a].st # "none" => att'[a].rev <= acct'.gen
    BY <1>1, <2>1, <2>2
  <2>5. \A a \in Attempt : att'[a].st \in GivenUp /\ acct'.state = "ACTIVE" => att'[a].rev < acct'.rev
    BY <1>1, <2>2 DEF GivenUp
  <2>6. \A a, b \in Attempt : a < b /\ att'[b].st # "none" => att'[a].st \in Terminal
    BY <1>1 DEF Consents, AttemptsInTurn
  <2>7. QED
    BY <2>3, <2>4, <2>5, <2>6 DEF AttemptsInTurn
<1>5. TroubleStopsCharging' /\ \A a \in Attempt : att'[a].st # "none" => CapLeaves(a)'
  BY <1>1 DEF Consents, TroubleStopsCharging, UnresolvedAttempts, CapLeaves, Before
<1>6. \A c \in Checkout : chk'[c].st \notin OpenCheckout
  <2>1. CASE chk' = Abandoned
    BY <1>2, <2>1, AbandonedTyped
  <2>2. ASSUME NEW c \in OpenCheckouts, chk' = [chk EXCEPT ![c].st = "COMPLETE"]
        PROVE  \A d \in Checkout : chk'[d].st \notin OpenCheckout
    <3>1. c \in Checkout /\ chk'[c] = [chk[c] EXCEPT !.st = "COMPLETE"]
      BY <1>2, <2>2 DEF OpenCheckouts
    <3>2. chk'[c].st = "COMPLETE"
      BY <1>2, <3>1 DEF CheckoutRow
    <3>3. \A d \in Checkout \ {c} : chk'[d] = chk[d] /\ d \notin OpenCheckouts
      BY <1>2, <2>2, <3>1 DEF Consents, SetupsSound
    <3>4. QED
      BY <3>2, <3>3 DEF OpenCheckouts, OpenCheckout
  <2>3. QED
    BY <2>1, <2>2 DEF Renews
<1>7. OpenCheckouts' = {} /\ SetupsSound'
  BY <1>6 DEF SetupsSound, OpenSetupsAreCurrent, OpenCheckouts
<1>8. QED
  BY <1>3, <1>4, <1>5, <1>7 DEF Consents

LEMMA SetupsKeepConsents ==
  ASSUME TypeOK, Books, Consents, NEW c \in Checkout, NEW row \in CheckoutRow,
         StartsSetup(c, row) \/ GoesOn(c, row)
  PROVE  Consents'
<1>1. chk \in [Checkout -> CheckoutRow]
  BY Typed
<1>2. UNCHANGED <<acct, att>> /\ chk' = [chk EXCEPT ![c] = row]
  BY DEF StartsSetup, GoesOn
<1>3. chk'[c] = row /\ \A d \in Checkout \ {c} : chk'[d] = chk[d]
  BY <1>1, <1>2
<1>4. AccountSound' /\ AttemptsInTurn' /\ TroubleStopsCharging'
      /\ \A a \in Attempt : att'[a].st # "none" => CapLeaves(a)'
  BY <1>2 DEF Consents, AccountSound, AttemptsInTurn, TroubleStopsCharging, UnresolvedAttempts,
              CapLeaves, Before
<1>5. SetupsSound
  BY DEF Consents
<1>6. CASE StartsSetup(c, row)
  <2>1. \A d \in Checkout : d \in OpenCheckouts' => d = c
    BY <1>3, <1>6 DEF StartsSetup, OpenCheckouts
  <2>2. row.gen = acct.gen /\ row.rev = acct.rev
    BY <1>6 DEF StartsSetup
  <2>3. SetupsSound'
    BY <1>2, <1>3, <2>1, <2>2
       DEF SetupsSound, OpenSetupsAreCurrent, OpenCheckouts, PredecessorHolds
  <2>4. QED
    BY <1>4, <2>3 DEF Consents
<1>7. CASE GoesOn(c, row)
  <2>1. \A d \in Checkout : d \in OpenCheckouts' => d \in OpenCheckouts
    BY <1>3, <1>7 DEF GoesOn, OpenCheckouts
  <2>2. \A d \in Checkout : chk'[d].gen = chk[d].gen /\ chk'[d].rev = chk[d].rev
    BY <1>3, <1>7 DEF GoesOn
  <2>3. OpenCheckouts' \subseteq Checkout
    BY DEF OpenCheckouts
  <2>4. SetupsSound'
    BY <1>2, <1>5, <2>1, <2>2, <2>3 DEF SetupsSound, OpenSetupsAreCurrent, PredecessorHolds
  <2>5. QED
    BY <1>4, <2>4 DEF Consents
<1>8. QED
  BY <1>6, <1>7

LEMMA AdvanceKeepsInvariant ==
  ASSUME IInv, Advances
  PROVE  IInv'
<1>1. TypeOK' /\ Books'
  BY AdvanceKeepsBooks DEF IInv
<1>2. Consents'
  BY SameRowsKeepConsents, ChargeKeepsConsents, WriteKeepsConsents, RenewalKeepsConsents,
     SetupsKeepConsents DEF IInv, Advances, LedgerMoves
<1>3. QED
  BY <1>1, <1>2 DEF IInv

----------------------------------------------------------------------------
(* Every action is such a step.  First those that only move a task on.     *)

LEMMA WorldStays ==
  ASSUME TypeOK, UNCHANGED <<lock, late, month, scope>>
  PROVE  World
BY Typed DEF World

LEMMA StripeStays ==
  ASSUME IInv, LedgerMoves, UNCHANGED <<pi, sent>>, \A a \in late' : att[a].st # "none",
         late' \subseteq Attempt
  PROVE  StripeMoves
<1>1. AttemptsGrow
  BY LedgerGrows DEF IInv
<1>2. StripeSound
  BY DEF IInv, Books
<1>3. pi \in [Intent -> IntentRow] /\ sent \subseteq EventRecord
  BY Typed DEF IInv
<1>4. \A p \in Intent : pi[p].a # 0 => pi[p].a \in Attempt
  BY <1>3, IntentIds DEF IntentRow
<1>5. StripeSound'
  BY <1>1, <1>2, <1>4 DEF StripeSound, AttemptsGrow, Reported
<1>6. QED
  BY <1>3, <1>5 DEF StripeMoves, StripeGrows

LEMMA RowsStay ==
  ASSUME TypeOK, UNCHANGED <<acct, att, chk>>
  PROVE  LedgerMoves
BY Typed DEF LedgerMoves, Steady, SameConsent

LEMMA TaskGoesOn ==
  ASSUME TypeOK, NEW r \in Replica, NEW new \in TaskRow, task' = [task EXCEPT ![r] = new],
         UNCHANGED <<att, pi, sent, recorded>>, TaskSound(new),
         new.op = "received" => \A s \in Replica : task[s].op = "received" => task[s].e # new.e
  PROVE  TasksMove
<1>1. task'[r] = new
  BY Typed
<1>2. TaskSound(task[r])'
  BY <1>1 DEF TaskSound
<1>3. QED
  BY <1>2 DEF Moves, TasksMove

LEMMA OnlyTaskAdvances ==
  ASSUME IInv, NEW r \in Replica, NEW new \in TaskRow, task' = [task EXCEPT ![r] = new],
         UNCHANGED <<acct, att, chk, pi, sent, recorded>>, World,
         \A a \in late' : att[a].st # "none", TaskSound(new),
         new.op = "received" => \A s \in Replica : task[s].op = "received" => task[s].e # new.e
  PROVE  Advances
<1>1. LedgerMoves
  BY RowsStay DEF IInv
<1>2. StripeMoves
  BY <1>1, StripeStays DEF World
<1>3. TasksMove
  BY TaskGoesOn DEF IInv
<1>4. QED
  BY <1>1, <1>2, <1>3 DEF Advances

LEMMA LateSound == ASSUME IInv PROVE \A a \in late : att[a].st # "none"
BY DEF IInv, Books, StripeSound

LEMMA TaskOf ==
  ASSUME IInv, NEW r \in Replica
  PROVE  task[r] \in TaskRow /\ TaskSound(task[r])
BY Typed DEF IInv, Books

LEMMA DispatchBegins ==
  ASSUME IInv, NEW r \in Replica, DispatchBegin(r)
  PROVE  Advances
<1>1. /\ task[r] \in TaskRow /\ TaskSound(task[r]) /\ task \in [Replica -> TaskRow]
      /\ TypeOK /\ \A a \in late : att[a].st # "none"
  BY TaskOf, LateSound, Typed DEF IInv
<1>2. UNCHANGED <<acct, att, chk, pi, sent, recorded, late, month, scope>>
  BY DEF DispatchBegin
<1>3. lock' \in Replica \cup {None} /\ World
  BY <1>1, <1>2, Typed DEF DispatchBegin, World
<1>4. CASE task' = [task EXCEPT ![r] = Idle]
  BY <1>1, <1>2, <1>3, <1>4, BlankTyped, IdleSound, OnlyTaskAdvances
<1>5. CASE task' = [task EXCEPT ![r].op = "call"]
  <2>1. PICK new \in TaskRow : new = [task[r] EXCEPT !.op = "call"]
    BY <1>1, TaskUpdates DEF TaskOp
  <2>2. task' = [task EXCEPT ![r] = new] /\ new.op = "call" /\ new.a = task[r].a
    BY <1>1, <1>5, <2>1 DEF TaskRow
  <2>3. TaskSound(new)
    BY <1>1, <2>2 DEF TaskSound, DispatchBegin
  <2>4. QED
    BY <1>1, <1>2, <1>3, <2>2, <2>3, OnlyTaskAdvances
<1>6. QED
  BY <1>4, <1>5 DEF DispatchBegin

LEMMA SnapshotsAdvance ==
  ASSUME IInv, NEW r \in Replica, SetupRead(r) \/ UpdateRead(r)
  PROVE  Advances
<1>1. TypeOK /\ \A a \in late : att[a].st # "none"
  BY LateSound DEF IInv
<1>2. /\ UNCHANGED <<acct, att, chk, pi, sent, recorded, lock, late, month, scope>>
      /\ task' = [task EXCEPT ![r] = Snapshot("setup")]
           \/ task' = [task EXCEPT ![r] = Snapshot("update")]
  BY DEF SetupRead, UpdateRead
<1>3. World
  BY <1>1, <1>2, WorldStays
<1>4. ASSUME NEW op \in {"setup", "update"}
      PROVE  Snapshot(op) \in TaskRow /\ Snapshot(op).op = op
  <2>1. acct.gen \in 0..MaxGen /\ acct.rev \in 0..MaxGen /\ op \in TaskOp
    BY <1>1, Typed DEF AccountRow, TaskOp
  <2>2. Snapshot(op) \in TaskRow
    BY <2>1, BlankTyped, TaskUpdates DEF Snapshot
  <2>3. QED
    BY <2>2 DEF Snapshot, Idle
<1>5. ASSUME NEW op \in {"setup", "update"}, task' = [task EXCEPT ![r] = Snapshot(op)]
      PROVE  Advances
  <2>1. PICK new \in TaskRow : new = Snapshot(op)
    BY <1>4
  <2>2. new.op = op /\ task' = [task EXCEPT ![r] = new]
    BY <1>4, <1>5, <2>1
  <2>3. TaskSound(new)
    BY <2>2 DEF TaskSound
  <2>4. QED
    BY <1>1, <1>2, <1>3, <2>2, <2>3, OnlyTaskAdvances
<1>6. QED
  BY <1>2, <1>5

LEMMA AbortAdvances ==
  ASSUME IInv, NEW r \in Replica, Abort(r)
  PROVE  Advances
<1>1. task[r] \in TaskRow /\ TaskSound(task[r]) /\ TypeOK /\ \A a \in late : att[a].st # "none"
  BY TaskOf, LateSound DEF IInv
<1>2. late' \subseteq Attempt /\ \A a \in late' : att[a].st # "none"
  BY <1>1, Typed DEF Abort, TaskSound
<1>3. World
  BY <1>1, <1>2, Typed DEF Abort, World
<1>4. QED
  BY <1>2, <1>3, BlankTyped, IdleSound, OnlyTaskAdvances DEF Abort

LEMMA RecoverReads ==
  ASSUME IInv, NEW r \in Replica, RecoverRead(r)
  PROVE  Advances
<1>1. TypeOK /\ \A a \in late : att[a].st # "none"
  BY LateSound DEF IInv
<1>2. UNCHANGED <<acct, att, chk, pi, sent, recorded, lock, late, month, scope>>
  BY DEF RecoverRead
<1>3. World
  BY <1>1, <1>2, WorldStays
<1>4. CASE task' = [task EXCEPT ![r] = [Idle EXCEPT !.op = "recovered"]]
  <2>1. PICK new \in TaskRow : new = [Idle EXCEPT !.op = "recovered"]
    BY BlankTyped, TaskUpdates DEF TaskOp
  <2>2. new.op = "recovered"
    BY <2>1 DEF Idle
  <2>3. TaskSound(new)
    BY <2>2 DEF TaskSound
  <2>4. QED
    BY <1>1, <1>2, <1>3, <1>4, <2>1, <2>2, <2>3, OnlyTaskAdvances
<1>5. ASSUME NEW a \in UnresolvedAttempts, att[a].pi # 0,
             task' = [task EXCEPT ![r] = [Idle EXCEPT
                        !.op = "retrieve", !.a = a, !.seen = att[a].st, !.ev = att[a].ev]]
      PROVE  Advances
  <2>1. a \in Attempt /\ att[a].st \in Unresolved /\ att[a].ev \in EventRecord
    BY <1>1, Typed DEF UnresolvedAttempts, AttemptRow
  <2>2. att[a].st \in Seen /\ "retrieve" \in TaskOp
    BY <2>1 DEF Seen, TaskOp
  <2>3. PICK new \in TaskRow : new = [Idle EXCEPT
                        !.op = "retrieve", !.a = a, !.seen = att[a].st, !.ev = att[a].ev]
    BY <2>1, <2>2, BlankTyped, TaskUpdates
  <2>4. new.op = "retrieve" /\ new.a = a /\ new.seen = att[a].st
    BY <2>3 DEF Idle
  <2>5. TaskSound(new)
    BY <1>5, <2>1, <2>4 DEF TaskSound
  <2>6. QED
    BY <1>1, <1>2, <1>3, <1>5, <2>3, <2>4, <2>5, OnlyTaskAdvances
<1>6. QED
  BY <1>4, <1>5 DEF RecoverRead

LEMMA RecoverRetrieves ==
  ASSUME IInv, NEW r \in Replica, RecoverRetrieve(r)
  PROVE  Advances
<1>1. /\ TypeOK /\ \A a \in late : att[a].st # "none"
      /\ task[r] \in TaskRow /\ TaskSound(task[r]) /\ task \in [Replica -> TaskRow]
  BY TaskOf, LateSound, Typed DEF IInv
<1>2. /\ UNCHANGED <<acct, att, chk, pi, sent, recorded, lock, late, month, scope>>
      /\ task[r].op = "retrieve"
  BY DEF RecoverRetrieve
<1>3. World
  BY <1>1, <1>2, WorldStays
<1>4. PICK op \in {"cancel", "terminalize"}, to \in GivenUp :
        /\ task' = [task EXCEPT ![r].op = op, ![r].to = to]
        /\ op = "terminalize" => pi[att[task[r].a].pi].st = "canceled"
  BY DEF RecoverRetrieve, GivenUp
<1>5. PICK new \in TaskRow : new = [task[r] EXCEPT !.op = op, !.to = to]
  BY <1>1, TaskUpdates DEF TaskOp
<1>6. /\ task' = [task EXCEPT ![r] = new]
      /\ new.op = op /\ new.to = to /\ new.a = task[r].a /\ new.seen = task[r].seen
  BY <1>1, <1>4, <1>5 DEF TaskRow
<1>7. TaskSound(new)
  BY <1>1, <1>2, <1>4, <1>6 DEF TaskSound
<1>8. QED
  BY <1>1, <1>2, <1>3, <1>6, <1>7, OnlyTaskAdvances

(* The webhooks.  What a handler writes depends on the row it is about;    *)
(* answering moves the task and records the event.                         *)
LEMMA ReceivesAdvance ==
  ASSUME IInv, NEW r \in Replica, Receive(r)
  PROVE  Advances
<1>1. /\ task[r] \in TaskRow /\ TaskSound(task[r]) /\ TypeOK
      /\ task \in [Replica -> TaskRow] /\ \A a \in late : att[a].st # "none"
  BY TaskOf, LateSound, Typed DEF IInv
<1>2. /\ UNCHANGED <<acct, att, chk, pi, sent, recorded, lock, late, month, scope>>
      /\ task[r].op = "prepared"
      /\ \A s \in Replica : task[s].op = "received" => task[s].e # task[r].e
  BY DEF Receive
<1>3. World
  BY <1>1, <1>2, WorldStays
<1>4. CASE task[r].e \in recorded
  <2>1. task' = [task EXCEPT ![r] = Idle]
    BY <1>4 DEF Receive
  <2>2. QED
    BY <1>1, <1>2, <1>3, <2>1, BlankTyped, IdleSound, OnlyTaskAdvances
<1>5. CASE task[r].e \notin recorded
  <2> DEFINE e == task[r].e
  <2>1. PICK seen : seen = IF PaymentEvent(e) THEN att[pi[e.obj].a].st ELSE chk[e.obj].st
    OBVIOUS
  <2>2. task' = [task EXCEPT ![r] = [task[r] EXCEPT !.op = "received", !.seen = seen]]
    BY <1>1, <1>5, <2>1 DEF Receive
  <2>3. Reported(e)
    BY <1>1, <1>2 DEF IInv, Books, StripeSound, TaskSound
  <2>4. seen \in Seen
    <3>1. CASE PaymentEvent(e)
      <4>1. pi[e.obj] \in IntentRow /\ pi[e.obj].a # 0
        BY <1>1, <2>3, <3>1, Typed DEF Reported
      <4>2. pi[e.obj].a \in Attempt
        BY <4>1, IntentIds DEF IntentRow
      <4>3. att[pi[e.obj].a] \in AttemptRow
        BY <1>1, <4>2, Typed
      <4>4. QED
        BY <2>1, <3>1, <4>3 DEF AttemptRow, Seen, CheckoutStatus
    <3>2. CASE ~PaymentEvent(e)
      <4>1. chk[e.obj] \in CheckoutRow
        BY <1>1, <2>3, <3>2, Typed DEF Reported
      <4>2. QED
        BY <2>1, <3>2, <4>1 DEF CheckoutRow, Seen
    <3>3. QED
      BY <3>1, <3>2
  <2>5. PICK new \in TaskRow : new = [task[r] EXCEPT !.op = "received", !.seen = seen]
    BY <1>1, <2>4, TaskUpdates DEF TaskOp
  <2>6. task' = [task EXCEPT ![r] = new] /\ new.op = "received" /\ new.e = task[r].e
    BY <1>1, <2>2, <2>5 DEF TaskRow
  <2>7. TaskSound(new)
    BY <1>1, <1>2, <1>5, <2>6 DEF TaskSound
  <2>8. QED
    BY <1>1, <1>2, <1>3, <2>6, <2>7, OnlyTaskAdvances
<1>6. QED
  BY <1>4, <1>5

LEMMA PreparesAdvance ==
  ASSUME IInv, NEW r \in Replica, Prepare(r)
  PROVE  Advances
<1>1. /\ TypeOK /\ task \in [Replica -> TaskRow] /\ \A a \in late : att[a].st # "none"
      /\ sent \subseteq EventRecord
  BY LateSound, Typed DEF IInv
<1>2. UNCHANGED <<acct, att, chk, pi, sent, lock, late, month, scope>>
  BY DEF Prepare
<1>3. World
  BY <1>1, <1>2, WorldStays
<1>4. PICK e \in sent \ recorded :
        \/ /\ task' = [task EXCEPT ![r] = [Idle EXCEPT !.op = "prepared", !.e = e]]
           /\ recorded' = recorded
        \/ /\ recorded' = recorded \cup {e} /\ task' = task
           /\ PaymentEvent(e) /\ ~StatusHolds(e)
  BY DEF Prepare
<1>5. CASE task' = [task EXCEPT ![r] = [Idle EXCEPT !.op = "prepared", !.e = e]]
           /\ recorded' = recorded
  <2>1. PICK new \in TaskRow : new = [Idle EXCEPT !.op = "prepared", !.e = e]
    BY <1>1, BlankTyped, TaskUpdates DEF TaskOp
  <2>2. new.op = "prepared" /\ new.e = e
    BY <2>1 DEF Idle
  <2>3. TaskSound(new)
    BY <2>2 DEF TaskSound
  <2>4. QED
    BY <1>1, <1>2, <1>3, <1>5, <2>1, <2>2, <2>3, OnlyTaskAdvances
<1>6. CASE recorded' = recorded \cup {e} /\ task' = task /\ PaymentEvent(e) /\ ~StatusHolds(e)
  <2>1. Reported(e)
    BY DEF IInv, Books, StripeSound
  <2>2. e.type # "succeeded"
    BY <1>6, <2>1 DEF Reported, Agrees, StatusHolds
  <2>3. TasksMove
    BY <1>6, <2>2 DEF Records, TasksMove
  <2>4. LedgerMoves
    BY <1>1, <1>2, RowsStay
  <2>5. StripeMoves
    BY <1>1, <1>2, <2>4, StripeStays, Typed
  <2>6. QED
    BY <1>3, <2>3, <2>4, <2>5 DEF Advances
<1>7. QED
  BY <1>4, <1>5, <1>6

LEMMA AnswersAdvance ==
  ASSUME IInv, NEW r \in Replica, task[r].op = "received", Answer(r), LedgerMoves
  PROVE  Advances
<1>1. /\ TypeOK /\ TaskSound(task[r]) /\ \A a \in late : att[a].st # "none"
  BY TaskOf, LateSound DEF IInv
<1>2. UNCHANGED <<pi, sent, lock, late, month, scope>>
  BY DEF Answer
<1>3. World
  BY <1>1, <1>2, WorldStays
<1>4. StripeMoves
  BY <1>1, <1>2, StripeStays, Typed
<1>5. task[r].e \in sent /\ Records(r, task[r].e)
  BY <1>1 DEF TaskSound, Answer, Records
<1>6. QED
  BY <1>3, <1>4, <1>5 DEF Advances, TasksMove

(* The attempt an event is about exists, under the intent of the event.    *)
LEMMA ReceivedPayment ==
  ASSUME IInv, NEW r \in Replica, task[r].op = "received", PaymentEvent(task[r].e)
  PROVE  /\ task[r].e \in sent /\ task[r].e \in EventRecord /\ Reported(task[r].e)
         /\ task[r].e.obj \in Intent
         /\ pi[task[r].e.obj].a \in Attempt
         /\ att[pi[task[r].e.obj].a].st # "none"
         /\ att[pi[task[r].e.obj].a].pi \in {0, task[r].e.obj}
<1> DEFINE e == task[r].e
           a == pi[e.obj].a
<1>1. TypeOK /\ TaskSound(task[r]) /\ StripeSound /\ \A b \in Attempt : AttemptSound(b)
  BY TaskOf DEF IInv, Books
<1>2. e \in sent /\ e \in EventRecord /\ Reported(e)
  BY <1>1, Typed DEF TaskSound, StripeSound
<1>3. e.obj \in Intent /\ a # 0 /\ pi[e.obj] \in IntentRow
  BY <1>1, <1>2, Typed DEF Reported
<1>4. a \in Attempt
  BY <1>3, IntentIds DEF IntentRow
<1>5. att[a].st # "none"
  BY <1>1, <1>3 DEF StripeSound
<1>6. att[a] \in AttemptRow
  BY <1>1, <1>4, Typed
<1>7. att[a].pi # 0 => att[a].pi = e.obj
  <2>1. SUFFICES ASSUME att[a].pi # 0 PROVE att[a].pi = e.obj
    OBVIOUS
  <2>2. att[a].pi \in Intent /\ pi[att[a].pi].a = a
    BY <1>1, <1>4, <1>6, <2>1, IntentIds DEF AttemptRow, AttemptSound
  <2>3. QED
    BY <1>1, <1>3, <2>2 DEF StripeSound
<1>8. QED
  BY <1>2, <1>3, <1>4, <1>5, <1>7

LEMMA SuccessesAdvance ==
  ASSUME IInv, NEW r \in Replica, PaymentSucceeded(r)
  PROVE  Advances
<1>1. PICK e : e = task[r].e
  OBVIOUS
<1>2. PICK a : a = pi[e.obj].a
  OBVIOUS
<1>3. task[r].op = "received" /\ e.type = "succeeded" /\ PaymentEvent(e) /\ Answer(r)
  BY <1>1 DEF PaymentSucceeded, PaymentEvent
<1>4. /\ e \in sent /\ Reported(e) /\ e.obj \in Intent
      /\ a \in Attempt /\ att[a].st # "none" /\ att[a].pi \in {0, e.obj}
  BY <1>1, <1>2, <1>3, ReceivedPayment
<1>5. /\ TypeOK /\ StripeSound /\ AttemptSound(a) /\ TaskSound(task[r])
      /\ att \in [Attempt -> AttemptRow] /\ acct \in AccountRow
  BY <1>4, TaskOf, Typed DEF IInv, Books
<1>6. PICK old \in AttemptRow : old = att[a]
  BY <1>4, <1>5
<1>7. PICK new \in AttemptRow :
        new = [old EXCEPT !.st = "SUCCEEDED", !.pi = e.obj, !.entries = @ + 1]
  BY <1>4, RowUpdates, BlankTyped, IntentIds DEF Terminal
<1>8. CASE NothingToDo
  <2>1. LedgerMoves
    BY <1>5, <1>8, RowsStay DEF NothingToDo
  <2>2. QED
    BY <1>3, <2>1, AnswersAdvance
<1>9. CASE /\ AttemptAllowed(old, new) /\ att' = [att EXCEPT ![a] = new] /\ chk' = chk
           /\ \E low \in BOOLEAN : acct' = [acct EXCEPT !.low = low]
  <2>1. /\ new.st = "SUCCEEDED" /\ new.pi = e.obj /\ new.entries = old.entries + 1
        /\ new.rev = old.rev /\ new.month = old.month /\ new.ev = old.ev
    BY <1>7 DEF AttemptRow
  <2>2. old.st \in Unresolved
    <3>1. old.st \in Terminal => old.st = "SUCCEEDED"
      BY <1>9, <2>1 DEF AttemptAllowed, TerminalFixed
    <3>2. ASSUME old.st = "SUCCEEDED" PROVE FALSE
      <4>1. att[a].pi = e.obj
        BY <1>4, <1>5, <1>6, <3>2 DEF AttemptSound, Terminal
      <4>2. PICK f \in recorded : f.type = "succeeded" /\ f.obj = e.obj
        BY <1>5, <1>6, <3>2, <4>1 DEF AttemptSound
      <4>3. f \in sent
        BY <1>5, Typed
      <4>4. f = e
        BY <1>3, <1>4, <1>5, <4>2, <4>3 DEF StripeSound
      <4>5. QED
        BY <1>1, <1>3, <1>5, <4>4 DEF TaskSound
    <3>3. QED
      BY <1>4, <1>6, <3>1, <3>2 DEF AttemptRow
  <2>3. att'[a] = new /\ e \in recorded' /\ pi' = pi
    BY <1>1, <1>3, <1>4, <1>5, <1>9 DEF Answer
  <2>4. pi[e.obj].st = "succeeded"
    BY <1>3, <1>4 DEF Reported, Agrees
  <2>5. old.entries = 0 /\ old.rev \in Revision /\ (old.ev = NoEvent \/ old.ev.type \in Changes)
    BY <1>4, <1>5, <1>6, <2>2 DEF AttemptSound, Unresolved
  <2>6. AttemptSound(a)'
    BY <1>2, <1>3, <1>4, <2>1, <2>3, <2>4, <2>5, IntentIds DEF AttemptSound, GivenUp
  <2>7. SameConsent({acct.state} \cup RecoveryState)
    <3>1. PICK low \in BOOLEAN : acct' = [acct EXCEPT !.low = low]
      BY <1>9
    <3>2. QED
      BY <1>5, <3>1, RowUpdates DEF SameConsent, AccountRow
  <2>8. Writes(a, new)
    BY <1>4, <1>6, <1>9, <2>1, <2>2, <2>6, <2>7, IntentIds DEF Writes, Terminal
  <2>9. LedgerMoves
    BY <1>4, <2>8 DEF LedgerMoves
  <2>10. QED
    BY <1>3, <2>9, AnswersAdvance
<1>10. QED
  BY <1>1, <1>2, <1>6, <1>7, <1>8, <1>9 DEF PaymentSucceeded

(* An update of an attempt by an event of trouble: the trigger may write   *)
(* NEEDS_REVIEW instead, and the account is troubled unless disabled.      *)
LEMMA JudgedRow ==
  ASSUME NEW old, NEW new \in AttemptRow
  PROVE  /\ Judged(old, new) \in AttemptRow
         /\ Judged(old, new).st \in {new.st, "NEEDS_REVIEW"}
         /\ Judged(old, new).pi = new.pi /\ Judged(old, new).ev = new.ev
         /\ Judged(old, new).rev = new.rev /\ Judged(old, new).month = new.month
         /\ Judged(old, new).entries = new.entries
<1>1. CASE Ambiguous(old, new)
  <2>1. Judged(old, new) = [new EXCEPT !.st = "NEEDS_REVIEW"]
    BY <1>1 DEF Judged
  <2>2. QED
    BY <2>1 DEF AttemptRow, Unresolved
<1>2. CASE ~Ambiguous(old, new)
  BY <1>2 DEF Judged
<1>3. QED
  BY <1>1, <1>2

LEMMA TroubledState ==
  ASSUME NEW old, NEW row, NEW e, NEW state \in RecoveryState \cup {"ACTIVE", "DISABLED"}
  PROVE  /\ AfterTrigger(old, row, state) \in {state} \cup RecoveryState
         /\ AfterHandler(e, state) \in RecoveryState \/ state = "DISABLED"
         /\ state = "DISABLED" => AfterHandler(e, state) = state
         /\ row.st # old.st /\ row.st \in {"REQUIRES_ACTION", "NEEDS_REVIEW", "FAILED", "CANCELED"}
              => AfterTrigger(old, row, state) \in RecoveryState
BY DEF AfterTrigger, AfterHandler, RecoveryState

LEMMA WriteAdvances ==
  ASSUME IInv, NEW r \in Replica, task[r].op = "received", NEW e, e = task[r].e,
         PaymentEvent(e), e.type # "succeeded",
         NEW st \in {"FAILED", "NEEDS_REVIEW", "PROCESSING", "REQUIRES_ACTION", "CANCELED"},
         st = "FAILED" => e.st = "requires_payment_method",
         st = "CANCELED" => e.st = "canceled",
         NEW a, a = pi[e.obj].a,
         Write(a, [att[a] EXCEPT !.st = st, !.pi = e.obj, !.ev = e], e), Answer(r)
  PROVE  Advances
<1>1. /\ e \in sent /\ e \in EventRecord /\ Reported(e) /\ e.obj \in Intent
      /\ a \in Attempt /\ att[a].st # "none" /\ att[a].pi \in {0, e.obj}
  BY ReceivedPayment
<1>2. /\ TypeOK /\ AttemptSound(a)
      /\ att \in [Attempt -> AttemptRow] /\ acct \in AccountRow
  BY <1>1, Typed DEF IInv, Books
<1>3. PICK old \in AttemptRow : old = att[a]
  BY <1>1, <1>2
<1>4. PICK new \in AttemptRow : new = [old EXCEPT !.st = st, !.pi = e.obj, !.ev = e]
  BY <1>1, RowUpdates, IntentIds DEF Terminal, Unresolved
<1>5. /\ new.st = st /\ new.pi = e.obj /\ new.entries = old.entries
      /\ new.rev = old.rev /\ new.month = old.month /\ new.ev = e
  BY <1>4 DEF AttemptRow
<1>6. PICK row \in AttemptRow : row = Judged(old, new)
  BY JudgedRow
<1>7. row.st \in {st, "NEEDS_REVIEW"} /\ row.pi = e.obj /\ row.ev = e
      /\ row.rev = old.rev /\ row.month = old.month /\ row.entries = old.entries
  BY <1>5, <1>6, JudgedRow
<1>8. PICK mid : mid = AfterTrigger(old, row, acct.state)
  OBVIOUS
<1>9. PICK state : state = AfterHandler(e, mid)
  OBVIOUS
<1>10. /\ att' = [att EXCEPT ![a] = row] /\ AttemptAllowed(old, new)
       /\ acct' = [acct EXCEPT !.state = state]
       /\ chk' = chk /\ pi' = pi
  BY <1>3, <1>4, <1>6, <1>8, <1>9 DEF Write, Answer
<1>11. att'[a] = row
  BY <1>1, <1>2, <1>10
<1>12. acct.state \in RecoveryState \cup {"ACTIVE", "DISABLED"}
  BY <1>2 DEF AccountRow
<1>13. mid \in {acct.state} \cup RecoveryState
  BY <1>8, <1>12, TroubledState
<1>14. /\ state \in {acct.state} \cup RecoveryState
       /\ state \in RecoveryState \/ acct.state = "DISABLED"
  BY <1>9, <1>12, <1>13, TroubledState DEF RecoveryState
<1>15. acct' \in AccountRow /\ acct'.gen = acct.gen /\ acct'.rev = acct.rev /\ acct'.state = state
  <2>1. state \in RecoveryState \cup {"ACTIVE", "DISABLED"}
    BY <1>12, <1>14
  <2>2. QED
    BY <1>2, <1>10, <2>1, RowUpdates DEF AccountRow
<1>16. CASE old.st \in Unresolved
  <2>1. AttemptSound(a)'
    <3>1. row.st # "none" /\ row.st # "SUCCEEDED" /\ row.rev \in Revision
      BY <1>1, <1>2, <1>3, <1>7 DEF AttemptSound
    <3>2. row.entries = 0
      BY <1>2, <1>3, <1>7, <1>16 DEF AttemptSound, Unresolved
    <3>3. row.pi \in Intent /\ pi'[row.pi].a = a /\ row.ev.type \in Changes
      BY <1>1, <1>7, <1>10 DEF Reported
    <3>4. row.st \in GivenUp => pi'[row.pi].st \in {"requires_payment_method", "canceled"}
      BY <1>1, <1>7, <1>10 DEF Reported, Agrees, GivenUp
    <3>5. QED
      BY <1>11, <3>1, <3>2, <3>3, <3>4, IntentIds DEF AttemptSound
  <2>2. row.st \in Unresolved \cup Terminal
    BY <1>7 DEF Unresolved, Terminal
  <2>3. Writes(a, row)
    BY <1>1, <1>3, <1>7, <1>10, <1>14, <1>15, <1>16, <2>1, <2>2 DEF Writes, SameConsent
  <2>4. LedgerMoves
    BY <1>1, <2>3 DEF LedgerMoves
  <2>5. QED
    BY <2>4, AnswersAdvance
<1>17. CASE old.st \notin Unresolved
  <2>1. old.st \in Terminal
    BY <1>1, <1>3, <1>17 DEF AttemptRow
  <2>2. st = old.st /\ e = old.ev /\ e.obj = old.pi
    BY <1>5, <1>10, <2>1 DEF AttemptAllowed, TerminalFixed
  <2>3. ~Ambiguous(old, new) /\ new = old
    BY <1>4, <1>5, <2>2 DEF Ambiguous, AttemptRow
  <2>4. row = old /\ att' = att
    BY <1>2, <1>3, <1>6, <1>10, <2>3 DEF Judged
  <2>5. acct.state = "DISABLED" => state = "DISABLED"
    <3>1. mid = acct.state
      BY <1>8, <2>4 DEF AfterTrigger
    <3>2. QED
      BY <1>9, <1>12, <3>1, TroubledState
  <2>6. Steady \/ Troubles
    BY <1>10, <1>14, <1>15, <2>4, <2>5 DEF Steady, Troubles, SameConsent
  <2>7. QED
    BY <2>6, AnswersAdvance DEF LedgerMoves
<1>18. QED
  BY <1>16, <1>17

LEMMA TroublesAdvance ==
  ASSUME IInv, NEW r \in Replica, PaymentFailed(r) \/ PaymentStateChanged(r)
  PROVE  Advances
<1>0. PICK e, a : e = task[r].e /\ a = pi[e.obj].a
  OBVIOUS
<1>1. task[r].op = "received" /\ PaymentEvent(e) /\ e.type # "succeeded" /\ Answer(r)
  BY <1>0 DEF PaymentFailed, PaymentStateChanged, PaymentEvent
<1>2. CASE NothingToDo
  <2>1. LedgerMoves
    BY <1>2, RowsStay DEF NothingToDo, IInv
  <2>2. QED
    BY <1>1, <2>1, AnswersAdvance
<1>3. CASE PaymentFailed(r) /\ ~NothingToDo
  <2>1. PICK st : st = FailureStatus(e)
    OBVIOUS
  <2>2. st \in {"FAILED", "NEEDS_REVIEW"} /\ (st = "FAILED" => e.st = "requires_payment_method")
    BY <2>1 DEF FailureStatus
  <2>3. Write(a, [att[a] EXCEPT !.st = st, !.pi = e.obj, !.ev = e], e)
    BY <1>0, <1>3, <2>1 DEF PaymentFailed
  <2>4. QED
    BY <1>0, <1>1, <2>2, <2>3, WriteAdvances
<1>4. CASE PaymentStateChanged(r) /\ ~NothingToDo
  <2>1. PICK st : st = StateStatus(e)
    OBVIOUS
  <2>2. e.type \in {"processing", "requires_action", "canceled"} /\ Reported(e)
    BY <1>0, <1>1, <1>4, ReceivedPayment DEF PaymentStateChanged
  <2>3. st \in {"PROCESSING", "REQUIRES_ACTION", "CANCELED"} /\ (st = "CANCELED" => e.st = "canceled")
    BY <1>1, <2>1, <2>2 DEF StateStatus, Reported
  <2>4. Write(a, [att[a] EXCEPT !.st = st, !.pi = e.obj, !.ev = e], e)
    BY <1>0, <1>4, <2>1 DEF PaymentStateChanged
  <2>5. QED
    BY <1>0, <1>1, <2>3, <2>4, WriteAdvances
<1>5. QED
  BY <1>2, <1>3, <1>4

(* The setup checkouts.                                                    *)
LEMMA CheckoutGoesOn ==
  ASSUME TypeOK, NEW c \in Checkout, NEW row \in CheckoutRow, chk' = [chk EXCEPT ![c] = row],
         row.gen = chk[c].gen, row.rev = chk[c].rev,
         row.st = chk[c].st \/ chk[c].st \in OpenCheckout, UNCHANGED <<acct, att>>
  PROVE  LedgerMoves
BY DEF GoesOn, LedgerMoves

LEMMA CheckoutEnds ==
  ASSUME TypeOK, NEW c \in Checkout, chk[c].st \in OpenCheckout,
         NEW st \in {"OPEN", "COMPLETE", "EXPIRED", "ABANDONED"},
         \/ chk' = [chk EXCEPT ![c].st = st]
         \/ chk' = [chk EXCEPT ![c].attached = TRUE, ![c].st = st]
         \/ chk' = [chk EXCEPT ![c].st = st, ![c].attached = TRUE],
         UNCHANGED <<acct, att>>
  PROVE  LedgerMoves
<1>1. PICK old \in CheckoutRow : old = chk[c]
  BY Typed
<1>2. PICK new : /\ chk' = [chk EXCEPT ![c] = new]
                 /\ \/ new = [old EXCEPT !.st = st]
                    \/ new = [old EXCEPT !.attached = TRUE, !.st = st]
                    \/ new = [old EXCEPT !.st = st, !.attached = TRUE]
  <2>1. CASE chk' = [chk EXCEPT ![c].st = st]
    BY <1>1, <2>1
  <2>2. CASE chk' = [chk EXCEPT ![c].attached = TRUE, ![c].st = st]
    BY <1>1, <2>2, Typed
  <2>3. CASE chk' = [chk EXCEPT ![c].st = st, ![c].attached = TRUE]
    BY <1>1, <2>3, Typed
  <2>4. QED
    BY <2>1, <2>2, <2>3
<1>3. new \in CheckoutRow /\ new.gen = old.gen /\ new.rev = old.rev
  <2>1. CASE new = [old EXCEPT !.st = st]
    <3>1. [old EXCEPT !.st = st] \in CheckoutRow
      BY RowUpdates
    <3>2. QED
      BY <2>1, <3>1 DEF CheckoutRow
  <2>2. CASE new = [old EXCEPT !.attached = TRUE, !.st = st]
    <3>1. [old EXCEPT !.attached = TRUE, !.st = st] \in CheckoutRow
      BY RowUpdates
    <3>2. QED
      BY <2>2, <3>1 DEF CheckoutRow
  <2>3. CASE new = [old EXCEPT !.st = st, !.attached = TRUE]
    <3>1. [old EXCEPT !.st = st, !.attached = TRUE] \in CheckoutRow
      BY RowUpdates
    <3>2. QED
      BY <2>3, <3>1 DEF CheckoutRow
  <2>4. QED
    BY <1>2, <2>1, <2>2, <2>3
<1>4. QED
  BY <1>1, <1>2, <1>3, CheckoutGoesOn

LEMMA ReceivedSetup ==
  ASSUME IInv, NEW r \in Replica, task[r].op = "received", ~PaymentEvent(task[r].e)
  PROVE  task[r].e.obj \in Checkout
BY TaskOf DEF IInv, Books, StripeSound, TaskSound, Reported

LEMMA SetupsSucceed ==
  ASSUME IInv, NEW r \in Replica, SetupSucceeded(r)
  PROVE  Advances
<1>1. PICK c : c = task[r].e.obj
  OBVIOUS
<1>2. task[r].op = "received" /\ ~PaymentEvent(task[r].e) /\ Answer(r)
  BY DEF SetupSucceeded, PaymentEvent
<1>3. c \in Checkout /\ TypeOK /\ chk \in [Checkout -> CheckoutRow]
  BY <1>1, <1>2, ReceivedSetup, Typed DEF IInv
<1>4. CASE NothingToDo
  BY <1>2, <1>3, <1>4, AnswersAdvance, RowsStay DEF NothingToDo
<1>5. CASE /\ chk' = [chk EXCEPT ![c].st = IF @ \in OpenCheckout THEN "ABANDONED" ELSE @]
           /\ UNCHANGED <<acct, att>>
  <2>1. CASE chk[c].st \in OpenCheckout
    <3>1. chk' = [chk EXCEPT ![c].st = "ABANDONED"]
      BY <1>3, <1>5, <2>1
    <3>2. LedgerMoves
      BY <1>3, <1>5, <2>1, <3>1, CheckoutEnds
    <3>3. QED
      BY <1>2, <3>2, AnswersAdvance
  <2>2. CASE chk[c].st \notin OpenCheckout
    <3>1. PICK old \in CheckoutRow : old = chk[c]
      BY <1>3
    <3>2. [old EXCEPT !.st = old.st] = old
      BY DEF CheckoutRow
    <3>3. chk' = [chk EXCEPT ![c] = old]
      BY <1>3, <1>5, <2>2, <3>1, <3>2
    <3>4. LedgerMoves
      BY <1>3, <1>5, <3>1, <3>3, CheckoutGoesOn
    <3>5. QED
      BY <1>2, <3>4, AnswersAdvance
  <2>3. QED
    BY <2>1, <2>2
<1>6. CASE /\ chk[c].st \in OpenCheckout /\ ConsentMayChange /\ acct.gen < MaxGen
           /\ chk' = [chk EXCEPT ![c].st = "COMPLETE"]
           /\ acct' = Consented("ACTIVE") /\ att' = att
  <2>1. c \in OpenCheckouts
    BY <1>3, <1>6 DEF OpenCheckouts
  <2>2. Renews("ACTIVE")
    BY <1>6, <2>1 DEF Renews, ConsentMayChange
  <2>3. QED
    BY <1>2, <2>2, AnswersAdvance DEF LedgerMoves
<1>7. QED
  BY <1>1, <1>4, <1>5, <1>6 DEF SetupSucceeded

LEMMA CheckoutsExpire ==
  ASSUME IInv, NEW r \in Replica, CheckoutExpired(r)
  PROVE  Advances
<1>1. PICK c : c = task[r].e.obj
  OBVIOUS
<1>2. task[r].op = "received" /\ ~PaymentEvent(task[r].e) /\ Answer(r)
  BY DEF CheckoutExpired, PaymentEvent
<1>3. c \in Checkout /\ TypeOK
  BY <1>1, <1>2, ReceivedSetup DEF IInv
<1>4. CASE NothingToDo
  BY <1>2, <1>3, <1>4, AnswersAdvance, RowsStay DEF NothingToDo
<1>5. CASE chk[c].st \in OpenCheckout /\ chk' = [chk EXCEPT ![c].st = "EXPIRED"]
           /\ UNCHANGED <<acct, att>>
  <2>1. LedgerMoves
    BY <1>3, <1>5, CheckoutEnds
  <2>2. QED
    BY <1>2, <2>1, AnswersAdvance
<1>6. QED
  BY <1>1, <1>4, <1>5 DEF CheckoutExpired, NothingToDo

(* Steps that leave Stripe alone and go on with one task, or with none.    *)
LEMMA RowsAdvance ==
  ASSUME IInv, LedgerMoves, UNCHANGED <<pi, sent, late>>, World, TasksMove
  PROVE  Advances
<1>1. StripeMoves
  BY StripeStays, LateSound, Typed DEF IInv
<1>2. QED
  BY <1>1 DEF Advances

LEMMA Reconciles ==
  ASSUME IInv, NEW r \in Replica, Reconcile(r)
  PROVE  Advances
<1>1. UNCHANGED <<acct, att, pi, sent, recorded, task, lock, late, month, scope>>
  BY DEF Reconcile
<1>2. PICK c \in OpenCheckouts, st \in {"OPEN", "EXPIRED", "ABANDONED"} :
        \/ chk' = [chk EXCEPT ![c].st = st]
        \/ chk' = [chk EXCEPT ![c].attached = TRUE, ![c].st = st]
  BY DEF Reconcile
<1>3. TypeOK /\ c \in Checkout /\ chk[c].st \in OpenCheckout
  BY DEF IInv, OpenCheckouts
<1>4. LedgerMoves
  BY <1>1, <1>2, <1>3, CheckoutEnds
<1>5. World /\ TasksMove
  BY <1>1, <1>3, WorldStays DEF TasksMove
<1>6. QED
  BY <1>1, <1>4, <1>5, RowsAdvance

LEMMA TaskMoves ==
  ASSUME TypeOK, NEW r \in Replica, NEW new \in TaskRow, task' = [task EXCEPT ![r] = new],
         recorded' = recorded, TaskSound(new)', new.op # "received"
  PROVE  TasksMove
<1>1. task'[r] = new
  BY Typed
<1>2. TaskSound(task[r])'
  BY <1>1 DEF TaskSound
<1>3. QED
  BY <1>2 DEF Moves, TasksMove

(* The scheduler.                                                          *)
LEMMA ClaimsAdvance ==
  ASSUME IInv, NEW r \in Replica, Claim(r)
  PROVE  Advances
<1>1. TypeOK /\ att \in [Attempt -> AttemptRow]
  BY Typed DEF IInv
<1>2. UNCHANGED <<acct, chk, pi, sent, recorded, lock, late, month, scope>>
  BY DEF Claim
<1>3. PICK a \in Attempt :
        /\ (att[a].st = "PENDING" /\ att' = att) \/ Charges(a)
        /\ task' = [task EXCEPT ![r] = [Idle EXCEPT !.op = "dispatch", !.a = a]]
  BY <1>2 DEF Claim, Charges
<1>4. PICK new \in TaskRow : new = [Idle EXCEPT !.op = "dispatch", !.a = a]
  BY BlankTyped, TaskUpdates DEF TaskOp
<1>5. new.op = "dispatch" /\ new.a = a
  BY <1>4 DEF Idle
<1>6. att'[a].st # "none"
  <2>1. CASE att[a].st = "PENDING" /\ att' = att
    BY <2>1
  <2>2. CASE Charges(a)
    BY <1>1, <2>2, NewAttemptTyped DEF Charges, NoAttempt
  <2>3. QED
    BY <1>3, <2>1, <2>2
<1>7. TaskSound(new)'
  BY <1>5, <1>6 DEF TaskSound
<1>8. TasksMove
  BY <1>1, <1>2, <1>3, <1>4, <1>5, <1>7, TaskMoves
<1>9. LedgerMoves
  <2>1. CASE att' = att
    BY <1>1, <1>2, <2>1, RowsStay
  <2>2. QED
    BY <1>3, <2>1 DEF LedgerMoves
<1>10. QED
  BY <1>1, <1>2, <1>8, <1>9, WorldStays, RowsAdvance

LEMMA StoresAdvance ==
  ASSUME IInv, NEW r \in Replica, DispatchStore(r)
  PROVE  Advances
<1>1. PICK a, p : a = task[r].a /\ p = task[r].p
  OBVIOUS
<1>2. /\ TypeOK /\ TaskSound(task[r]) /\ att \in [Attempt -> AttemptRow] /\ acct \in AccountRow
      /\ task[r].op = "store" /\ StripeSound
  BY TaskOf, Typed DEF IInv, Books, DispatchStore
<1>3. a \in Attempt /\ att[a].st # "none" /\ p \in Intent /\ pi[p].a = a
  BY <1>1, <1>2 DEF TaskSound
<1>4. AttemptSound(a)
  BY <1>3 DEF IInv, Books
<1>5. PICK old \in AttemptRow : old = att[a]
  BY <1>2, <1>3
<1>6. PICK new \in AttemptRow : new = [old EXCEPT !.pi = p]
  BY <1>3, <1>5, RowUpdates, BlankTyped, IntentIds DEF Terminal
<1>7. /\ AttemptAllowed(old, new) /\ att' = [att EXCEPT ![a] = new]
      /\ task' = [task EXCEPT ![r] = Idle] /\ lock' = None
      /\ UNCHANGED <<acct, chk, pi, sent, recorded, late, month, scope>>
  BY <1>1, <1>5, <1>6 DEF DispatchStore
<1>8. /\ new.pi = p /\ new.st = old.st /\ new.rev = old.rev /\ new.month = old.month
      /\ new.ev = old.ev /\ new.entries = old.entries
  BY <1>6 DEF AttemptRow
<1>9. World /\ TasksMove
  <2>1. World
    BY <1>2, <1>7, Typed DEF World
  <2>2. TaskSound(Idle)'
    BY IdleSound
  <2>3. PICK x \in TaskRow : x = Idle
    BY BlankTyped
  <2>4. TaskSound(x)'
    BY <2>2, <2>3 DEF TaskSound
  <2>5. QED
    BY <1>2, <1>7, <2>1, <2>3, <2>4, IdleSound, TaskMoves
<1>10. CASE old.st \in Terminal
  <2>1. new = old
    BY <1>6, <1>7, <1>8, <1>10 DEF AttemptAllowed, TerminalFixed, AttemptRow
  <2>2. att' = att
    BY <1>2, <1>3, <1>5, <1>7, <2>1
  <2>3. LedgerMoves
    BY <1>2, <1>7, <2>2, RowsStay
  <2>4. QED
    BY <1>7, <1>9, <2>3, RowsAdvance
<1>11. CASE old.st \notin Terminal
  <2>1. old.st \in Unresolved
    BY <1>3, <1>5, <1>11 DEF AttemptRow
  <2>2. old.pi # 0 => old.pi = p
    <3>1. SUFFICES ASSUME old.pi # 0 PROVE old.pi = p
      OBVIOUS
    <3>2. old.pi \in Intent /\ pi[old.pi].a = a
      BY <1>4, <1>5, <3>1, IntentIds DEF AttemptRow, AttemptSound
    <3>3. QED
      BY <1>2, <1>3, <3>2, IntentIds DEF StripeSound
  <2>3. att'[a] = new
    BY <1>2, <1>3, <1>7
  <2>4. AttemptSound(a)'
    <3>1. new.st \notin {"none", "SUCCEEDED"} \cup GivenUp
      BY <1>8, <2>1 DEF Unresolved, GivenUp
    <3>2. /\ new.rev \in Revision /\ new.entries = 0 /\ pi'[new.pi].a = a
          /\ new.ev = NoEvent \/ new.ev.type \in Changes
      <4>1. old.rev \in Revision /\ old.entries = 0 /\ (old.ev = NoEvent \/ old.ev.type \in Changes)
        BY <1>3, <1>4, <1>5, <2>1 DEF AttemptSound, Unresolved
      <4>2. QED
        BY <1>3, <1>7, <1>8, <4>1
    <3>3. new.pi # 0
      BY <1>3, <1>8, IntentIds
    <3>4. QED
      BY <2>3, <3>1, <3>2, <3>3 DEF AttemptSound, GivenUp
  <2>5. SameConsent({acct.state} \cup RecoveryState)
    BY <1>2, <1>7 DEF SameConsent
  <2>6. Writes(a, new)
    BY <1>5, <1>7, <1>8, <2>1, <2>2, <2>4, <2>5 DEF Writes
  <2>7. LedgerMoves
    BY <1>3, <2>6 DEF LedgerMoves
  <2>8. QED
    BY <1>7, <1>9, <2>7, RowsAdvance
<1>12. QED
  BY <1>10, <1>11

(* A recovery gives up an attempt that did not move since it was read.     *)
LEMMA TerminalizesAdvance ==
  ASSUME IInv, NEW r \in Replica, RecoverTerminalize(r)
  PROVE  Advances
<1>1. PICK a, to : a = task[r].a /\ to = task[r].to
  OBVIOUS
<1>2. /\ TypeOK /\ TaskSound(task[r]) /\ att \in [Attempt -> AttemptRow] /\ acct \in AccountRow
      /\ task[r].op = "terminalize" /\ task \in [Replica -> TaskRow]
  BY TaskOf, Typed DEF IInv, RecoverTerminalize
<1>3. /\ a \in Attempt /\ att[a].pi # 0 /\ att[a].st \in Unresolved /\ to \in GivenUp
      /\ pi[att[a].pi].st = "canceled"
  BY <1>1, <1>2 DEF TaskSound, RecoverTerminalize
<1>4. AttemptSound(a)
  BY <1>3 DEF IInv, Books
<1>5. PICK old \in AttemptRow : old = att[a]
  BY <1>2, <1>3
<1>6. PICK new \in AttemptRow : new = [old EXCEPT !.st = to]
  BY <1>3, RowUpdates, BlankTyped, Zeros DEF GivenUp, Terminal
<1>7. PICK state : state = AfterTrigger(old, new, acct.state)
  OBVIOUS
<1>8. /\ att' = [att EXCEPT ![a] = new] /\ acct' = [acct EXCEPT !.state = state]
      /\ task' = [task EXCEPT ![r] = [Idle EXCEPT !.op = "recovered"]]
      /\ UNCHANGED <<chk, pi, sent, recorded, lock, late, month, scope>>
  BY <1>1, <1>5, <1>6, <1>7 DEF RecoverTerminalize
<1>9. /\ new.st = to /\ new.pi = old.pi /\ new.rev = old.rev /\ new.month = old.month
      /\ new.ev = old.ev /\ new.entries = old.entries
  BY <1>6 DEF AttemptRow
<1>10. state \in RecoveryState
  <2>1. acct.state \in RecoveryState \cup {"ACTIVE", "DISABLED"}
    BY <1>2 DEF AccountRow
  <2>2. new.st # old.st /\ new.st \in {"REQUIRES_ACTION", "NEEDS_REVIEW", "FAILED", "CANCELED"}
    BY <1>3, <1>5, <1>9 DEF GivenUp, Unresolved
  <2>3. QED
    BY <1>7, <2>1, <2>2, TroubledState
<1>11. SameConsent({acct.state} \cup RecoveryState) /\ acct'.state \in RecoveryState
  <2>1. acct' \in AccountRow
    BY <1>2, <1>8, <1>10, RowUpdates
  <2>2. QED
    BY <1>2, <1>8, <1>10, <2>1 DEF SameConsent, AccountRow
<1>12. att'[a] = new
  BY <1>2, <1>3, <1>8
<1>13. AttemptSound(a)'
  <2>1. new.st \in GivenUp /\ new.st # "none" /\ new.st # "SUCCEEDED"
    BY <1>3, <1>9 DEF GivenUp
  <2>2. /\ old.rev \in Revision /\ old.entries = 0 /\ pi[old.pi].a = a
        /\ old.ev = NoEvent \/ old.ev.type \in Changes
    BY <1>3, <1>4, <1>5 DEF AttemptSound, Unresolved
  <2>3. QED
    BY <1>3, <1>5, <1>8, <1>9, <1>12, <2>1, <2>2 DEF AttemptSound
<1>14. Writes(a, new)
  <2>1. new.st \in Unresolved \cup Terminal
    BY <1>3, <1>9 DEF GivenUp, Terminal
  <2>2. QED
    BY <1>3, <1>5, <1>8, <1>9, <1>11, <1>13, <2>1 DEF Writes
<1>15. LedgerMoves
  BY <1>3, <1>14 DEF LedgerMoves
<1>16. TasksMove
  <2>1. PICK x \in TaskRow : x = [Idle EXCEPT !.op = "recovered"]
    BY BlankTyped, TaskUpdates DEF TaskOp
  <2>2. x.op = "recovered"
    BY <2>1 DEF Idle
  <2>3. TaskSound(x)'
    BY <2>2 DEF TaskSound
  <2>4. QED
    BY <1>2, <1>8, <2>1, <2>2, <2>3, TaskMoves
<1>17. QED
  BY <1>2, <1>8, <1>15, <1>16, WorldStays, RowsAdvance

(* The consent.                                                            *)
LEMMA SetupsStart ==
  ASSUME IInv, NEW r \in Replica, SetupCreate(r)
  PROVE  Advances
<1>1. TypeOK /\ acct \in AccountRow
  BY Typed DEF IInv
<1>2. /\ UNCHANGED <<acct, att, pi, sent, recorded, lock, late, month, scope>>
      /\ OpenCheckouts = {} /\ task[r].gen = acct.gen /\ task[r].rev = acct.rev
  BY DEF SetupCreate, SnapshotHolds
<1>3. PICK c \in Checkout :
        /\ chk[c].st = "none"
        /\ chk' = [chk EXCEPT ![c] = [NoCheckout EXCEPT
                     !.st = "CREATING", !.gen = acct.gen, !.rev = acct.rev]]
        /\ task' = [task EXCEPT ![r] = [Idle EXCEPT !.op = "session", !.c = c]]
  BY <1>2 DEF SetupCreate
<1>4. PICK g \in 0..MaxGen, v \in 0..MaxGen : g = acct.gen /\ v = acct.rev
  BY <1>1 DEF AccountRow
<1>5. PICK row : row = [NoCheckout EXCEPT !.st = "CREATING", !.gen = g, !.rev = v]
  OBVIOUS
<1>6. row \in CheckoutRow /\ row.st = "CREATING" /\ row.gen = g /\ row.rev = v
  BY <1>5 DEF NoCheckout, CheckoutRow, CheckoutStatus, OpenCheckout
<1>7. StartsSetup(c, row)
  BY <1>2, <1>3, <1>4, <1>5, <1>6 DEF StartsSetup
<1>8. LedgerMoves
  BY <1>6, <1>7 DEF LedgerMoves
<1>9. TasksMove
  <2>1. PICK x \in TaskRow : x = [Idle EXCEPT !.op = "session", !.c = c]
    BY BlankTyped, TaskUpdates DEF TaskOp
  <2>2. x.op = "session" /\ x.c = c
    BY <2>1 DEF Idle
  <2>3. TaskSound(x)'
    BY <2>2 DEF TaskSound
  <2>4. QED
    BY <1>1, <1>2, <1>3, <2>1, <2>2, <2>3, TaskMoves
<1>10. QED
  BY <1>1, <1>2, <1>8, <1>9, WorldStays, RowsAdvance

LEMMA SessionSet ==
  ASSUME TypeOK, NEW c \in Checkout, NEW end \in {"open", "complete", "expired"},
         chk' = [chk EXCEPT ![c].session = end], UNCHANGED <<acct, att>>
  PROVE  LedgerMoves
<1>1. PICK old \in CheckoutRow : old = chk[c]
  BY Typed
<1>2. PICK new \in CheckoutRow : new = [old EXCEPT !.session = end]
  BY RowUpdates
<1>3. new.st = old.st /\ new.gen = old.gen /\ new.rev = old.rev
  BY <1>2 DEF CheckoutRow
<1>4. QED
  BY <1>1, <1>2, <1>3, CheckoutGoesOn

LEMMA SessionsAdvance ==
  ASSUME IInv, NEW r \in Replica, SessionCreate(r) \/ SessionAttach(r)
  PROVE  Advances
<1>1. PICK c : c = task[r].c
  OBVIOUS
<1>2. /\ TypeOK /\ TaskSound(task[r]) /\ task \in [Replica -> TaskRow]
      /\ UNCHANGED <<acct, att, pi, sent, recorded, lock, late, month, scope>>
      /\ task[r].op \in {"session", "attach"}
  BY TaskOf, Typed DEF IInv, SessionCreate, SessionAttach
<1>3. c \in Checkout
  BY <1>1, <1>2 DEF TaskSound
<1>4. CASE SessionCreate(r)
  <2>1. LedgerMoves
    BY <1>1, <1>2, <1>3, <1>4, SessionSet DEF SessionCreate
  <2>2. PICK x \in TaskRow : x = [task[r] EXCEPT !.op = "attach"]
    BY <1>2, TaskUpdates DEF TaskOp
  <2>3. task' = [task EXCEPT ![r] = x] /\ x.op = "attach" /\ x.c = c
    BY <1>1, <1>2, <1>4, <2>2 DEF SessionCreate, TaskRow
  <2>4. TaskSound(x)'
    BY <1>3, <2>3 DEF TaskSound
  <2>5. TasksMove
    BY <1>2, <2>3, <2>4, TaskMoves
  <2>6. QED
    BY <1>2, <2>1, <2>5, WorldStays, RowsAdvance
<1>5. CASE SessionAttach(r)
  <2>1. LedgerMoves
    BY <1>1, <1>2, <1>3, <1>5, CheckoutEnds DEF SessionAttach, OpenCheckout
  <2>2. PICK x \in TaskRow : x = Idle
    BY BlankTyped
  <2>3. TaskSound(x)'
    BY <2>2, IdleSound DEF TaskSound
  <2>4. TasksMove
    BY <1>2, <1>5, <2>2, <2>3, IdleSound, TaskMoves DEF SessionAttach
  <2>5. QED
    BY <1>2, <2>1, <2>4, WorldStays, RowsAdvance
<1>6. QED
  BY <1>4, <1>5

LEMMA ConsentAdvances ==
  ASSUME IInv, (\E r \in Replica : UpdateCommit(r)) \/ Disable
  PROVE  Advances
<1>1. /\ TypeOK /\ UNCHANGED <<pi, sent, recorded, lock, late, month, scope>>
      /\ UnresolvedAttempts = {} /\ acct.gen < MaxGen /\ chk' = Abandoned /\ att' = att
      /\ acct' = Consented("ACTIVE") \/ acct' = Consented("DISABLED")
  BY DEF IInv, UpdateCommit, Disable, ConsentMayChange
<1>2. LedgerMoves
  BY <1>1 DEF LedgerMoves, Renews
<1>3. TasksMove
  <2>1. ASSUME NEW r \in Replica, UpdateCommit(r) PROVE TasksMove
    <3>1. PICK x \in TaskRow : x = Idle
      BY BlankTyped
    <3>2. TaskSound(x)'
      BY <3>1, IdleSound DEF TaskSound
    <3>3. QED
      BY <1>1, <2>1, <3>1, <3>2, IdleSound, TaskMoves DEF UpdateCommit
  <2>2. CASE Disable
    BY <2>2 DEF Disable, TasksMove
  <2>3. QED
    BY <2>1, <2>2
<1>4. QED
  BY <1>1, <1>2, <1>3, WorldStays, RowsAdvance

LEMMA SessionEndsAdvances ==
  ASSUME IInv, NEW c \in Checkout, SessionEnds(c)
  PROVE  Advances
<1>1. /\ TypeOK /\ StripeSound /\ sent \subseteq EventRecord /\ pi \in [Intent -> IntentRow]
      /\ UNCHANGED <<acct, att, pi, recorded, task, lock, late, month, scope>>
  BY Typed DEF IInv, Books, SessionEnds
<1>2. PICK end \in {"complete", "expired"} :
        /\ chk' = [chk EXCEPT ![c].session = end]
        /\ sent' = sent \cup {Event(IF end = "complete" THEN "setup" ELSE "expired", c, end, 0)}
  BY DEF SessionEnds
<1>3. PICK type \in {"setup", "expired"} : type = IF end = "complete" THEN "setup" ELSE "expired"
  OBVIOUS
<1>4. PICK new \in EventRecord : new = Event(type, c, end, 0)
  BY EventTyped, IntentIds, Zeros
<1>5. new.type = type /\ new.obj = c /\ sent' = sent \cup {new}
  BY <1>2, <1>3, <1>4 DEF Event
<1>6. LedgerMoves
  BY <1>1, <1>2, SessionSet
<1>7. StripeGrows
  BY <1>1, <1>5 DEF StripeGrows
<1>8. StripeSound'
  <2>1. ASSUME NEW e \in sent PROVE Reported(e)'
    BY <1>1 DEF StripeSound, Reported
  <2>2. Reported(new)'
    BY <1>5 DEF Reported, PaymentEvent
  <2>3. \A e \in sent' : Reported(e)'
    BY <1>5, <2>1, <2>2
  <2>4. \A e, f \in sent' :
          e.type = "succeeded" /\ f.type = "succeeded" /\ e.obj = f.obj => e = f
    BY <1>1, <1>3, <1>5 DEF StripeSound
  <2>5. QED
    BY <1>1, <2>3, <2>4 DEF StripeSound
<1>9. StripeMoves
  BY <1>1, <1>5, <1>7, <1>8 DEF StripeMoves
<1>10. QED
  BY <1>1, <1>6, <1>9, WorldStays DEF Advances, TasksMove

(* Usage, months and refunds.                                              *)
LEMMA AccountAdvances ==
  ASSUME IInv, UsageSettles \/ MonthEnds \/ Refunded
  PROVE  Advances
<1>1. /\ TypeOK /\ acct \in AccountRow
      /\ UNCHANGED <<att, chk, pi, sent, recorded, task, lock, late, scope>>
  BY Typed DEF IInv, UsageSettles, MonthEnds, Refunded
<1>2. World
  <2>1. month' = month \/ (month' = month + 1 /\ month < scope.months)
    <3>1. UsageSettles => month' = month
      BY DEF UsageSettles
    <3>2. MonthEnds => month' = month + 1 /\ month < scope.months
      BY DEF MonthEnds
    <3>3. Refunded => month' = month
      BY DEF Refunded
    <3>4. QED
      BY <3>1, <3>2, <3>3
  <2>2. scope.months \in Nat /\ month \in 1..scope.months
    BY <1>1, Typed, AutoTopUpAssumption
  <2>3. month' \in 1..scope.months
    BY <2>1, <2>2
  <2>4. QED
    BY <1>1, <2>3, Typed DEF World
<1>3. LedgerMoves
  <2>1. CASE UsageSettles
    <3>1. acct' = [acct EXCEPT !.low = TRUE]
      BY <2>1 DEF UsageSettles
    <3>2. acct' \in AccountRow
      BY <1>1, <3>1 DEF AccountRow
    <3>3. QED
      BY <1>1, <3>1, <3>2 DEF LedgerMoves, Steady, SameConsent, AccountRow
  <2>2. CASE MonthEnds
    BY <1>1, <2>2, RowsStay DEF MonthEnds
  <2>3. CASE Refunded
    <3>1. acct' = [acct EXCEPT !.state = "NEEDS_REVIEW"] /\ acct.state # "DISABLED"
      BY <2>3 DEF Refunded
    <3>2. acct' \in AccountRow
      BY <1>1, <3>1 DEF AccountRow, RecoveryState
    <3>3. QED
      BY <1>1, <3>1, <3>2 DEF LedgerMoves, Troubles, SameConsent, AccountRow, RecoveryState
  <2>4. QED
    BY <2>1, <2>2, <2>3
<1>4. QED
  BY <1>1, <1>2, <1>3, RowsAdvance DEF TasksMove

(* Stripe, asked by a replica or on its own.                               *)
LEMMA CallsAdvance ==
  ASSUME IInv, NEW r \in Replica, DispatchCall(r)
  PROVE  Advances
<1>1. PICK a : a = task[r].a
  OBVIOUS
<1>2. /\ TypeOK /\ Books /\ TaskSound(task[r]) /\ task \in [Replica -> TaskRow]
      /\ UNCHANGED <<acct, att, chk, recorded, lock, late, month, scope>>
      /\ task[r].op = "call"
  BY TaskOf, Typed DEF IInv, DispatchCall
<1>3. a \in Attempt /\ att[a].st # "none"
  BY <1>1, <1>2 DEF TaskSound
<1>4. PICK p \in Intent :
        Create(a, p) /\ task' = [task EXCEPT ![r].op = "store", ![r].p = p]
  BY <1>1 DEF DispatchCall
<1>5. StripeMoves /\ pi'[p].a = a
  BY <1>2, <1>3, <1>4, CreateMoves
<1>6. LedgerMoves
  BY <1>2, RowsStay
<1>7. TasksMove
  <2>1. PICK x \in TaskRow : x = [task[r] EXCEPT !.op = "store", !.p = p]
    BY <1>2, TaskUpdates DEF TaskOp
  <2>2. task' = [task EXCEPT ![r] = x] /\ x.op = "store" /\ x.p = p /\ x.a = a
    BY <1>1, <1>2, <1>4, <2>1 DEF TaskRow
  <2>3. TaskSound(x)'
    BY <1>2, <1>3, <1>5, <2>2 DEF TaskSound
  <2>4. QED
    BY <1>2, <2>2, <2>3, TaskMoves
<1>8. QED
  BY <1>2, <1>5, <1>6, <1>7, WorldStays DEF Advances

LEMMA StripeAdvances ==
  ASSUME IInv, \/ \E a \in Attempt : LateCall(a)
               \/ \E p \in Intent : PaymentMoves(p) \/ AuthenticationFails(p)
  PROVE  Advances
<1>1. /\ TypeOK /\ Books /\ UNCHANGED <<acct, att, chk, recorded, task, lock, month, scope>>
      /\ late' \subseteq late
  BY DEF IInv, LateCall, PaymentMoves, AuthenticationFails
<1>2. World
  BY <1>1, Typed DEF World
<1>3. ASSUME NEW a \in Attempt, LateCall(a) PROVE StripeMoves
  <2>1. att[a].st # "none"
    BY <1>3, LateSound DEF LateCall
  <2>2. PICK p \in Intent : Create(a, p)
    BY <1>3 DEF LateCall
  <2>3. QED
    BY <1>1, <2>1, <2>2, CreateMoves
<1>4. ASSUME NEW p \in Intent, PaymentMoves(p) PROVE StripeMoves
  BY <1>1, <1>4, EntersMoves DEF PaymentMoves
<1>5. ASSUME NEW p \in Intent, AuthenticationFails(p) PROVE StripeMoves
  <2>1. pi[p].a # 0
    BY <1>1, <1>5 DEF AuthenticationFails, Books, StripeSound
  <2>2. QED
    BY <1>1, <1>5, <2>1, FailureMoves
<1>6. StripeMoves
  BY <1>3, <1>4, <1>5
<1>7. QED
  BY <1>1, <1>2, <1>6, RowsStay DEF Advances, TasksMove

LEMMA CancelsAdvance ==
  ASSUME IInv, NEW r \in Replica, RecoverCancel(r)
  PROVE  Advances
<1>1. PICK a, p : a = task[r].a /\ p = att[a].pi
  OBVIOUS
<1>2. /\ TypeOK /\ Books /\ TaskSound(task[r]) /\ task \in [Replica -> TaskRow]
      /\ UNCHANGED <<acct, att, chk, recorded, lock, late, month, scope>>
      /\ task[r].op = "cancel" /\ CancelAtStripe(p)
  BY <1>1, TaskOf, Typed DEF IInv, RecoverCancel
<1>3. /\ a \in Attempt /\ p # 0 /\ AttemptSound(a) /\ att[a] \in AttemptRow
      /\ task[r].seen \in Unresolved /\ task[r].to \in GivenUp
  BY <1>1, <1>2, Typed DEF TaskSound, Books
<1>4. p \in Intent /\ pi[p].a = a
  BY <1>1, <1>3, IntentIds DEF AttemptSound, AttemptRow
<1>5. LedgerMoves
  BY <1>2, RowsStay
<1>6. StripeMoves /\ pi'[p].st = "canceled"
  <2>1. CASE pi[p].st = "canceled"
    <3>1. UNCHANGED <<pi, sent>>
      BY <1>2, <2>1 DEF CancelAtStripe
    <3>2. QED
      BY <1>2, <1>5, <2>1, <3>1, StripeStays, LateSound, Typed
  <2>2. CASE pi[p].st # "canceled"
    <3>1. "canceled" \in Outcomes(pi[p].st) /\ Enters(p, "canceled") /\ pi[p].a # 0
      BY <1>2, <1>3, <1>4, <2>2, IntentIds DEF CancelAtStripe
    <3>2. QED
      BY <1>2, <1>4, <3>1, EntersMoves
  <2>3. QED
    BY <2>1, <2>2
<1>7. TasksMove
  <2>1. PICK x \in TaskRow : x = [task[r] EXCEPT !.op = "terminalize"]
    BY <1>2, TaskUpdates DEF TaskOp
  <2>2. /\ task' = [task EXCEPT ![r] = x] /\ x.op = "terminalize" /\ x.a = a
        /\ x.seen = task[r].seen /\ x.to = task[r].to
    BY <1>1, <1>2, <2>1 DEF TaskRow, RecoverCancel
  <2>3. TaskSound(x)'
    BY <1>1, <1>2, <1>3, <1>6, <2>2 DEF TaskSound
  <2>4. QED
    BY <1>2, <2>2, <2>3, TaskMoves
<1>8. QED
  BY <1>2, <1>5, <1>6, <1>7, WorldStays DEF Advances

(* A replica goes on, or the world does: every step advances.              *)
LEMMA StepsAdvance ==
  ASSUME IInv, NEW r \in Replica, Step(r)
  PROVE  Advances
<1>1. CASE Schedule(r)
  BY <1>1, ClaimsAdvance, DispatchBegins, CallsAdvance, StoresAdvance DEF Schedule
<1>2. CASE Webhook(r)
  BY <1>2, PreparesAdvance, ReceivesAdvance, SuccessesAdvance, TroublesAdvance, SetupsSucceed,
     CheckoutsExpire DEF Webhook, Apply
<1>3. CASE Consent(r)
  BY <1>3, SnapshotsAdvance, Reconciles, SetupsStart, SessionsAdvance, ConsentAdvances DEF Consent
<1>4. CASE Recover(r)
  BY <1>4, RecoverReads, RecoverRetrieves, CancelsAdvance, TerminalizesAdvance DEF Recover
<1>5. CASE Abort(r)
  BY <1>5, AbortAdvances
<1>6. QED
  BY <1>1, <1>2, <1>3, <1>4, <1>5 DEF Step

LEMMA NextAdvances ==
  ASSUME IInv, [Next]_vars
  PROVE  Advances
<1>1. CASE \E r \in Replica : Step(r)
  BY <1>1, StepsAdvance
<1>2. CASE \E p \in Intent : PaymentMoves(p) \/ AuthenticationFails(p)
  BY <1>2, StripeAdvances
<1>3. CASE \E a \in Attempt : LateCall(a)
  BY <1>3, StripeAdvances
<1>4. CASE \E c \in Checkout : SessionEnds(c)
  BY <1>4, SessionEndsAdvances
<1>5. CASE UsageSettles \/ MonthEnds \/ Refunded
  BY <1>5, AccountAdvances
<1>6. CASE Disable
  BY <1>6, ConsentAdvances
<1>7. CASE vars' = vars
  <2>1. UNCHANGED <<acct, att, chk, pi, sent, recorded, task, lock, late, month, scope>>
    BY <1>7 DEF vars
  <2>2. QED
    BY <2>1, RowsStay, WorldStays, RowsAdvance DEF IInv, TasksMove
<1>8. QED
  BY <1>1, <1>2, <1>3, <1>4, <1>5, <1>6, <1>7 DEF Next

LEMMA InitSound == Init => IInv
<1> SUFFICES ASSUME Init PROVE IInv
  OBVIOUS
<1>1. TypeOK
  <2>1. scope \in Scopes /\ scope.months \in Nat /\ 1 \in 1..scope.months
    BY AutoTopUpAssumption DEF Init
  <2>2. acct \in AccountRow
    <3>1. {0, 1} \subseteq 0..MaxGen
      BY AutoTopUpAssumption
    <3>2. QED
      BY <3>1 DEF Init, AccountRow
  <2>3. /\ att \in [Attempt -> AttemptRow] /\ chk \in [Checkout -> CheckoutRow]
        /\ pi \in [Intent -> IntentRow] /\ task \in [Replica -> TaskRow]
    BY BlankTyped DEF Init
  <2>4. QED
    BY <2>1, <2>2, <2>3
       DEF Init, TypeOK, AccountRow, AttemptRow, CheckoutRow, IntentRow, TaskRow, Seen
<1>2. Books
  <2>1. StripeSound
    BY DEF Init, StripeSound, NoIntent
  <2>2. ASSUME NEW a \in Attempt PROVE AttemptSound(a)
    BY DEF Init, AttemptSound, NoAttempt, Terminal, GivenUp
  <2>3. ASSUME NEW r \in Replica PROVE TaskSound(task[r])
    BY IdleSound DEF Init
  <2>4. OneReceives
    BY DEF Init, OneReceives, Idle
  <2>5. QED
    BY <2>1, <2>2, <2>3, <2>4 DEF Books
<1>3. Consents
  <2>1. UnresolvedAttempts = {} /\ \A a \in Attempt : att[a].st = "none"
    BY DEF Init, UnresolvedAttempts, NoAttempt, Unresolved
  <2>2. OpenCheckouts = {}
    BY DEF Init, OpenCheckouts, NoCheckout, OpenCheckout
  <2>3. AccountSound
    BY DEF Init, AccountSound
  <2>4. QED
    BY <2>1, <2>2, <2>3 DEF Consents, AttemptsInTurn, TroubleStopsCharging, GivenUp, SetupsSound,
                            OpenSetupsAreCurrent
<1>4. QED
  BY <1>1, <1>2, <1>3 DEF IInv

LEMMA InvariantHolds == Spec => []IInv
<1>1. Init => IInv
  BY InitSound
<1>2. IInv /\ [Next]_vars => IInv'
  BY NextAdvances, AdvanceKeepsInvariant
<1>3. QED
  BY <1>1, <1>2, PTL DEF Spec

----------------------------------------------------------------------------
(* The theorems.                                                           *)

(* Every variable stays within its range, whatever the replicas, Stripe    *)
(* and the customer do.                                                    *)
THEOREM TypeCorrect == Spec => []TypeOK
<1>1. IInv => TypeOK
  BY DEF IInv
<1>2. QED
  BY <1>1, InvariantHolds, PTL

(* Two intents of one attempt are one.                                     *)
LEMMA OneIntent == ASSUME IInv PROVE ChargedOnce
<1>1. SUFFICES ASSUME NEW a \in Attempt PROVE Cardinality(IntentsOf(a)) <= 1
  BY DEF ChargedOnce
<1>2. \A p, q \in IntentsOf(a) : p = q
  BY IntentIds DEF IInv, Books, StripeSound, IntentsOf
<1>3. CASE IntentsOf(a) = {}
  BY <1>3, FS_EmptySet
<1>4. CASE IntentsOf(a) # {}
  <2>1. PICK p : IntentsOf(a) = {p}
    BY <1>2, <1>4
  <2>2. Cardinality({p}) = 1
    BY FS_Singleton
  <2>3. QED
    BY <2>1, <2>2
<1>5. QED
  BY <1>3, <1>4

(* However often an attempt is dispatched and its events are delivered,    *)
(* Stripe charges for it once, the ledger has one entry for a charge that  *)
(* was collected, and what was given up is not collected any more          *)
(* (billing-credit-auto-top-up-attempt.service.ts,                         *)
(* billing-credit-funding-webhook-apply.service.ts and the triggers on     *)
(* their rows).                                                            *)
THEOREM ChargesAreCreditedOnce == Spec => []OneChargeOneCredit
<1>1. IInv => CreditsMatchCharges /\ NothingCollectedAfterwards
  BY DEF IInv, Books, AttemptSound, CreditsMatchCharges, NothingCollectedAfterwards, GivenUp
<1>2. IInv => OneChargeOneCredit
  BY <1>1, OneIntent DEF OneChargeOneCredit
<1>3. QED
  BY <1>2, InvariantHolds, PTL

LEMMA OneOpenCharge == ASSUME IInv PROVE ConsentPinned
<1>1. \A a \in UnresolvedAttempts : att[a].rev = acct.rev
  BY DEF IInv, Consents, AttemptsInTurn
<1>2. \A a, b \in UnresolvedAttempts : a = b
  <2>1. SUFFICES ASSUME NEW a \in UnresolvedAttempts, NEW b \in UnresolvedAttempts, a < b
                 PROVE  FALSE
    BY IntentIds DEF UnresolvedAttempts
  <2>2. a \in Attempt /\ b \in Attempt /\ att[a].st \in Unresolved /\ att[b].st \in Unresolved
    BY DEF UnresolvedAttempts
  <2>3. att[a].st \in Terminal
    BY <2>1, <2>2 DEF IInv, Consents, AttemptsInTurn, Unresolved
  <2>4. QED
    BY <2>2, <2>3 DEF Unresolved, Terminal
<1>3. Cardinality(UnresolvedAttempts) <= 1
  <2>1. CASE UnresolvedAttempts = {}
    BY <2>1, FS_EmptySet
  <2>2. CASE UnresolvedAttempts # {}
    <3>1. PICK a : UnresolvedAttempts = {a}
      BY <1>2, <2>2
    <3>2. Cardinality({a}) = 1
      BY FS_Singleton
    <3>3. QED
      BY <3>1, <3>2
  <2>3. QED
    BY <2>1, <2>2
<1>4. QED
  BY <1>1, <1>3 DEF ConsentPinned

LEMMA CapHolds == ASSUME IInv PROVE CapRespected
<1>1. SUFFICES ASSUME NEW a \in Attempt, att[a].st = "SUCCEEDED"
      PROVE Cardinality({b \in 1..a : att[b].st = "SUCCEEDED" /\ att[b].month = att[a].month})
              <= MonthlyCap[att[a].rev]
  BY DEF CapRespected
<1>2. a \in Nat \ {0} /\ CapLeaves(a)
  BY <1>1, IntentIds DEF IInv, Consents
<1>3. {b \in 1..a : att[b].st = "SUCCEEDED" /\ att[b].month = att[a].month} = Before(a) \cup {a}
  BY <1>1, <1>2 DEF Before
<1>4. IsFiniteSet(Before(a)) /\ a \notin Before(a)
  <2>1. IsFiniteSet(1..(a - 1))
    BY <1>2, FS_Interval
  <2>2. Before(a) \subseteq 1..(a - 1)
    BY DEF Before
  <2>3. QED
    BY <1>2, <2>1, <2>2, FS_Subset
<1>5. Cardinality(Before(a) \cup {a}) = Cardinality(Before(a)) + 1
  BY <1>4, FS_AddElement
<1>6. QED
  BY <1>2, <1>3, <1>5 DEF CapLeaves

LEMMA SetupsKeepTheirEnd ==
  ASSUME IInv, Advances, NEW c \in Checkout, chk[c].st \in {"COMPLETE", "EXPIRED", "ABANDONED"}
  PROVE  chk'[c].st = chk[c].st
<1>1. /\ chk \in [Checkout -> CheckoutRow] /\ LedgerMoves
      /\ chk[c].st \notin OpenCheckout /\ chk[c].st # "none"
  BY Typed DEF IInv, Advances, OpenCheckout
<1>2. CASE chk' = chk
  BY <1>2
<1>3. ASSUME NEW state \in {"ACTIVE", "DISABLED"}, Renews(state) PROVE chk'[c].st = chk[c].st
  <2>1. CASE chk' = Abandoned
    BY <1>1, <2>1, AbandonedTyped
  <2>2. ASSUME NEW d \in OpenCheckouts, chk' = [chk EXCEPT ![d].st = "COMPLETE"]
        PROVE  chk'[c].st = chk[c].st
    <3>1. d \in Checkout /\ d # c
      BY <1>1 DEF OpenCheckouts
    <3>2. QED
      BY <1>1, <2>2, <3>1
  <2>3. QED
    BY <1>3, <2>1, <2>2 DEF Renews
<1>4. ASSUME NEW d \in Checkout, NEW row \in CheckoutRow, StartsSetup(d, row) \/ GoesOn(d, row)
      PROVE  chk'[c].st = chk[c].st
  BY <1>1, <1>4 DEF StartsSetup, GoesOn
<1>5. QED
  BY <1>1, <1>2, <1>3, <1>4 DEF LedgerMoves, Steady, Troubles, Charges, Writes

(* One charge is open at a time, made under the consent the account has;   *)
(* a charge in trouble stops the charging, one given up stops it until the *)
(* customer consents anew, and the months keep to the cap; a setup         *)
(* checkout overrules no later consent and ends once                       *)
(* (billing-credit-auto-top-up-attempt, -setup, -consent and               *)
(* -recovery.service.ts).                                                  *)
THEOREM ConsentGovernsCharges == Spec => ConsentGoverns
<1> DEFINE Invs == ConsentPinned /\ TroubleStopsCharging /\ CapRespected /\ OpenSetupsAreCurrent
           Ends == \A c \in Checkout :
                     chk[c].st \in {"COMPLETE", "EXPIRED", "ABANDONED"} => chk'[c].st = chk[c].st
<1>1. IInv => Invs
  BY OneOpenCharge, CapHolds DEF IInv, Consents, SetupsSound
<1>2. Spec => []Invs
  <2> HIDE DEF Invs
  <2>1. QED
    BY <1>1, InvariantHolds, PTL
<1>3. IInv /\ [Next]_vars => [Ends]_vars
  BY NextAdvances, SetupsKeepTheirEnd
<1>4. Spec => [][Ends]_vars
  BY <1>3, InvariantHolds, PTL DEF Spec
<1>5. QED
  BY <1>2, <1>4 DEF ConsentGoverns, SetupsEndOnce

=============================================================================
