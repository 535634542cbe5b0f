--------------------------- MODULE JoiningProofs ---------------------------
(***************************************************************************)
(* Proofs about Joining, for any number of users, connections, invitations *)
(* and requests, and any settings.  A transaction either moves one step on *)
(* without writing, or ends with one of a few kinds of writes: to the      *)
(* invitations, to the memberships of one user, or to a table of its own.  *)
(***************************************************************************)
EXTENDS Joining, FiniteSetTheorems, TLAPS

Reviews == {"approve", "deny", "revoke"}
Answers == {"accept", "acceptToken", "decline", "declineToken"}
Comings == {"redeem", "selfJoin", "approveRequest", "autoGrant", "placeMapped"}

(* An invitation that was not created yet is blank, and an accepted one    *)
(* was accepted by the user it is for.                                     *)
Explained(inv) ==
  \A i \in Invite :
    /\ inv[i].who = None => inv[i] = NoInvite
    /\ inv[i].accepted # None => inv[i].accepted = inv[i].who
RowsExplained == Explained(db.inv)

(* What a transaction on its way refers to exists.                         *)
Sound(t) ==
  LET x == tx[t] IN
  /\ x.op \in Reviews \cup Answers => x.ref \in Invite /\ db.inv[x.ref].who # None
  /\ x.op \in Answers => db.inv[x.ref].who = x.who
  /\ x.op \notin Reviews \cup {"none"} => x.who \in User
  /\ x.op = "approveRequest" => x.ref \in Request

Base == TypeOK /\ Allowed(db) /\ RowsExplained /\ \A t \in Tx : Sound(t)

LEMMA IdleTyped == Idle \in TxRecord
BY JoiningAssumption DEF Idle, TxRecord, Approval, Operation, Slot

LEMMA NoInviteTyped == NoInvite \in InviteRow
BY DEF NoInvite, InviteRow, Approval

LEMMA BaseInitially == Init => Base
<1> SUFFICES ASSUME Init PROVE Base
  OBVIOUS
<1>1. TypeOK
  <2>1. PICK in \in SUBSET User, callers \in Callers :
          /\ db = [callers |-> callers,
             inv    |-> [i \in Invite |-> NoInvite],
             req    |-> [r \in Request |-> NoRequest],
             link   |-> [made |-> FALSE, revoked |-> FALSE, uses |-> 0, expires |-> 0],
             policy |-> "INVITE_ONLY",
             orgOf  |-> [s \in Slot |-> IF s = Home THEN Home ELSE None],
             om     |-> [o \in Slot |-> [u \in User |->
                           IF o = Home /\ u \in in THEN "ACTIVE" ELSE "NONE"]],
             tm     |-> [o \in Slot |-> [u \in User |->
                           IF o = Home /\ u \in in THEN "ACTIVE" ELSE "NONE"]],
             via    |-> [u \in User |-> NoCause]]
          /\ tx = [t \in Tx |-> Idle]
          /\ now = 0
    BY DEF Init
  <2>2. db \in Tables
    BY <2>1, NoInviteTyped DEF Tables, NoRequest, Policy, Slot, Standing, NoCause, Entry
  <2>3. QED
    BY <2>1, <2>2, IdleTyped DEF TypeOK
<1>2. \A i \in Invite : db.inv[i] = NoInvite
  BY DEF Init
<1>3. Allowed(db)
  <2>1. OneActiveOrg(db.om)
    BY DEF Init, OneActiveOrg
  <2>2. \A i \in Invite : OneTerminalState(db.inv[i]) /\ AcceptedIsApproved(db.inv[i])
    BY <1>2 DEF OneTerminalState, AcceptedIsApproved, NoInvite
  <2>3. OneActionable(db.inv)
    BY <1>2 DEF OneActionable, IsActionable, Exists, NoInvite
  <2>4. QED
    BY <2>1, <2>2, <2>3 DEF Allowed
<1>4. RowsExplained
  <2>1. NoInvite.accepted = None
    BY DEF NoInvite
  <2>2. QED
    BY <1>2, <2>1 DEF RowsExplained, Explained
<1>5. \A t \in Tx : Sound(t)
  BY DEF Init, Sound, Idle, Reviews, Answers
<1>6. QED
  BY <1>1, <1>3, <1>4, <1>5 DEF Base

----------------------------------------------------------------------------
(* Steps that write nothing. *)

LEMMA MoveKeepsBase ==
  ASSUME Base, NEW t \in Tx, NEW new \in TxRecord, tx' = [tx EXCEPT ![t] = new],
         UNCHANGED <<db, now>>, Sound(t)'
  PROVE  Base'
<1>1. tx'[t] = new /\ \A u \in Tx \ {t} : tx'[u] = tx[u]
  BY DEF Base, TypeOK
<1>2. TypeOK'
  BY DEF Base, TypeOK
<1>3. Allowed(db)' /\ RowsExplained'
  BY DEF Base, Allowed, RowsExplained
<1>4. \A u \in Tx : Sound(u)'
  BY <1>1 DEF Base, Sound
<1>5. QED
  BY <1>2, <1>3, <1>4 DEF Base

LEMMA AbortKeepsBase ==
  ASSUME Base, NEW t \in Tx, Abort(t)
  PROVE  Base'
<1>1. tx'[t] = Idle
  BY DEF Abort, Step, Base, TypeOK
<1>2. Sound(t)'
  BY <1>1 DEF Sound, Idle, Reviews, Answers
<1>3. QED
  BY <1>2, IdleTyped, MoveKeepsBase DEF Abort, Step

LEMMA BeginKeepsBase ==
  ASSUME Base, NEW t \in Tx, NEW new \in TxRecord, Begin(t, new), new.op # "none",
         new.op \in Reviews \cup Answers => new.ref \in Invite /\ db.inv[new.ref].who # None,
         new.op \in Answers => db.inv[new.ref].who = new.who,
         new.op \notin Reviews => new.who \in User,
         new.op = "approveRequest" => new.ref \in Request
  PROVE  Base'
<1>1. tx'[t] = new /\ db' = db
  BY DEF Begin, Base, TypeOK
<1>2. Sound(t)'
  BY <1>1 DEF Sound
<1>3. QED
  BY <1>2, MoveKeepsBase DEF Begin

(* Moving on keeps the operation, the user and the reference. *)
LEMMA StepKeepsBase ==
  ASSUME Base, NEW t \in Tx, NEW new \in TxRecord, Step(t, new),
         new.op = tx[t].op, new.who = tx[t].who, new.ref = tx[t].ref
  PROVE  Base'
<1>1. tx'[t] = new /\ db' = db
  BY DEF Step, Base, TypeOK
<1>2. Sound(t)'
  BY <1>1 DEF Sound, Base
<1>3. QED
  BY <1>2, MoveKeepsBase DEF Step

----------------------------------------------------------------------------
(* Beginning. *)

LEMMA FieldsTyped ==
  ASSUME TypeOK
  PROVE  /\ db.inv \in [Invite -> InviteRow] /\ now \in Nat
         /\ db.om \in [Slot -> [User -> Standing]] /\ db.tm \in [Slot -> [User -> Standing]]
         /\ db.via \in [User -> [how : Entry, ref : Nat]]
         /\ db.orgOf \in [Slot -> Slot \cup {None}]
         /\ db.req \in [Request -> [who : User \cup {None},
                                     status : {"PENDING", "APPROVED", "REJECTED"}]]
         /\ db.link \in [made : BOOLEAN, revoked : BOOLEAN, uses : Nat, expires : Nat]
         /\ tx \in [Tx -> TxRecord]
BY DEF TypeOK, Tables

LEMMA InvitingBeginsKeepBase ==
  ASSUME Base, NEW t \in Tx
  PROVE  /\ \A u \in User : InviteAsManager(t, u) => Base'
         /\ \A u, by \in User : InviteAsMember(t, u, by) => Base'
         /\ \A i \in Invite : Resend(t, i) => Base'
         /\ \A i \in Invite, op \in Reviews : BeginReview(t, op, i) => Base'
<1>0. now \in Nat /\ db.inv \in [Invite -> InviteRow]
  BY FieldsTyped DEF Base
<1>1. ASSUME NEW new \in TxRecord, Begin(t, new), new.op = "invite", new.who \in User
      PROVE  Base'
  BY <1>1, BeginKeepsBase DEF Reviews, Answers
<1>2. ASSUME NEW u \in User, NEW a \in {"NOT_REQUIRED", "PENDING"}, BeginInvite(t, u, a)
      PROVE  Base'
  <2> DEFINE some == \E i \in Invite : IsActionable(db.inv[i]) /\ db.inv[i].who = u
             new == [Idle EXCEPT !.op = "invite", !.pc = "commit", !.who = u, !.at = now,
                       !.approval = a, !.found = some]
  <2>1. new \in TxRecord
    <3>1. some \in BOOLEAN
      OBVIOUS
    <3> HIDE DEF some
    <3>2. QED
      BY <1>0, <3>1, IdleTyped DEF TxRecord, Approval, Operation
  <2>2. new.op = "invite" /\ new.who = u
    BY DEF Idle
  <2>3. Begin(t, new)
    BY <1>2 DEF BeginInvite
  <2> HIDE DEF new
  <2>4. QED
    BY <2>1, <2>2, <2>3, <1>1
<1>3. ASSUME NEW i \in Invite, Resend(t, i)
      PROVE  Base'
  <2> DEFINE new == [Idle EXCEPT !.op = "invite", !.pc = "commit", !.who = db.inv[i].who,
                       !.at = now, !.found = TRUE]
  <2>1. db.inv[i].who \in User
    BY <1>0, <1>3 DEF Resend, MayResend, IsActionable, Exists, InviteRow
  <2>2. new \in TxRecord
    BY <1>0, <2>1, IdleTyped DEF TxRecord, Approval, Operation
  <2>3. new.op = "invite" /\ new.who = db.inv[i].who
    BY DEF Idle
  <2>4. Begin(t, new)
    BY <1>3 DEF Resend
  <2> HIDE DEF new
  <2>5. QED
    BY <2>1, <2>2, <2>3, <2>4, <1>1
<1>4. ASSUME NEW i \in Invite, NEW op \in Reviews, BeginReview(t, op, i)
      PROVE  Base'
  <2> DEFINE new == [Idle EXCEPT !.op = op, !.pc = "commit", !.ref = i]
  <2>1. new \in TxRecord
    <3>1. op \in Operation /\ i \in Nat
      BY JoiningAssumption DEF Operation, Reviews, Invite
    <3>2. QED
      BY <3>1, IdleTyped DEF TxRecord
  <2>2. new.op = op /\ new.ref = i
    BY DEF Idle
  <2>3. db.inv[i].who # None
    BY <1>4 DEF BeginReview, Reviews, MayApprove, MayDeny, MayRevoke, IsActionable, Exists
  <2>4. Begin(t, new)
    BY <1>4 DEF BeginReview
  <2> HIDE DEF new
  <2>5. QED
    BY <2>1, <2>2, <2>3, <2>4, BeginKeepsBase DEF Reviews, Answers
<1>5. QED
  BY <1>2, <1>3, <1>4 DEF InviteAsManager, InviteAsMember

LEMMA AnsweringBeginsKeepBase ==
  ASSUME Base, NEW t \in Tx, NEW i \in Invite
  PROVE  /\ BeginAccept(t, i) => Base'
         /\ BeginDecline(t, i) => Base'
         /\ \A op \in {"acceptToken", "declineToken"} : PresentToken(t, op, i) => Base'
<1>0. now \in Nat /\ db.inv[i] \in InviteRow /\ i \in Nat
  BY JoiningAssumption, FieldsTyped DEF Base, Invite
<1>1. ASSUME NEW op \in Answers, NEW pc \in {"lock", "rows", "commit"}, db.inv[i].who # None,
             Begin(t, [Idle EXCEPT !.op = op, !.pc = pc, !.who = db.inv[i].who, !.ref = i])
      PROVE  Base'
  <2> DEFINE new == [Idle EXCEPT !.op = op, !.pc = pc, !.who = db.inv[i].who, !.ref = i]
  <2>1. db.inv[i].who \in User /\ op \in Operation
    BY <1>0, <1>1 DEF InviteRow, Operation, Answers
  <2>2. new \in TxRecord
    BY <1>0, <2>1, IdleTyped DEF TxRecord
  <2>3. new.op = op /\ new.who = db.inv[i].who /\ new.ref = i
    BY DEF Idle
  <2>4. Begin(t, new)
    BY <1>1
  <2> HIDE DEF new
  <2>5. QED
    BY <1>1, <2>1, <2>2, <2>3, <2>4, BeginKeepsBase DEF Answers
<1>2. db.inv[i].token = "live" => db.inv[i].who # None
  BY DEF Base, RowsExplained, Explained, NoInvite
<1>3. BeginAccept(t, i) => Base'
  BY <1>1 DEF BeginAccept, Answers, MayAccept, IsActionable, Exists
<1>4. BeginDecline(t, i) => Base'
  BY <1>1 DEF BeginDecline, Answers, MayDecline, IsActionable, Exists
<1>5. ASSUME NEW op \in {"acceptToken", "declineToken"}, PresentToken(t, op, i)
      PROVE  Base'
  BY <1>1, <1>2, <1>5 DEF PresentToken, Answers
<1>6. QED
  BY <1>3, <1>4, <1>5

(* The other ways in name a user and, for a request, its row. *)
LEMMA ComingBeginsKeepBase ==
  ASSUME Base, NEW t \in Tx, NEW u \in User
  PROVE  /\ BeginRedeem(t, u) => Base'
         /\ BeginSelfJoin(t, u) => Base'
         /\ BeginRequestAccess(t, u) => Base'
         /\ BeginAutoGrant(t, u) => Base'
         /\ \A op \in {"placeMapped", "placeOwn"} : BeginPlacement(t, op, u) => Base'
         /\ BeginRequiredTeam(t, u) => Base'
<1>0. now \in Nat
  BY FieldsTyped DEF Base
<1>1. ASSUME NEW new \in TxRecord, Begin(t, new), new.who = u,
             new.op \in {"redeem", "selfJoin", "requestAccess", "autoGrant", "placeMapped",
                        "placeOwn", "requiredTeam"}
      PROVE  Base'
  BY <1>1, BeginKeepsBase DEF Reviews, Answers
<1>2. BeginRedeem(t, u) => Base'
  <2> DEFINE new == [Idle EXCEPT !.op = "redeem", !.pc = "rows", !.who = u, !.at = now]
  <2>1. new \in TxRecord /\ new.who = u /\ new.op = "redeem"
    BY <1>0, IdleTyped DEF TxRecord, Operation, Idle
  <2> HIDE DEF new
  <2>2. QED
    BY <2>1, <1>1 DEF BeginRedeem, new
<1>3. BeginSelfJoin(t, u) => Base'
  <2> DEFINE new == [Idle EXCEPT !.op = "selfJoin", !.pc = "rows", !.who = u]
  <2>1. new \in TxRecord /\ new.who = u /\ new.op = "selfJoin"
    BY IdleTyped DEF TxRecord, Operation, Idle
  <2> HIDE DEF new
  <2>2. QED
    BY <2>1, <1>1 DEF BeginSelfJoin, new
<1>4. BeginRequestAccess(t, u) => Base'
  <2> DEFINE some == PendingOf(u) # {}
             new == [Idle EXCEPT !.op = "requestAccess", !.pc = "commit", !.who = u,
                       !.found = some]
  <2>1. new \in TxRecord /\ new.who = u /\ new.op = "requestAccess"
    <3>1. some \in BOOLEAN
      OBVIOUS
    <3> HIDE DEF some
    <3>2. QED
      BY <3>1, IdleTyped DEF TxRecord, Operation, Idle
  <2>2. BeginRequestAccess(t, u) => Begin(t, new)
    BY DEF BeginRequestAccess
  <2> HIDE DEF new
  <2>3. QED
    BY <2>1, <2>2, <1>1
<1>5. BeginAutoGrant(t, u) => Base'
  <2> DEFINE new == [Idle EXCEPT !.op = "autoGrant", !.pc = "rows", !.who = u]
  <2>1. new \in TxRecord /\ new.who = u /\ new.op = "autoGrant"
    BY IdleTyped DEF TxRecord, Operation, Idle
  <2> HIDE DEF new
  <2>2. QED
    BY <2>1, <1>1 DEF BeginAutoGrant, new
<1>6. ASSUME NEW op \in {"placeMapped", "placeOwn"}, BeginPlacement(t, op, u)
      PROVE  Base'
  <2> DEFINE mapped == op = "placeMapped"
             new == [Idle EXCEPT !.op = op, !.pc = "commit", !.who = u,
                       !.addOrg = mapped, !.addTeam = mapped]
  <2>1. new \in TxRecord /\ new.who = u /\ new.op = op
    <3>1. mapped \in BOOLEAN /\ op \in Operation
      BY DEF Operation
    <3> HIDE DEF mapped
    <3>2. QED
      BY <3>1, IdleTyped DEF TxRecord, Idle
  <2>2. Begin(t, new)
    BY <1>6 DEF BeginPlacement
  <2> HIDE DEF new
  <2>3. QED
    BY <2>1, <2>2, <1>1
<1>7. ASSUME BeginRequiredTeam(t, u)
      PROVE  Base'
  <2>1. PICK o \in SeenOrg(u) :
          Begin(t, [Idle EXCEPT !.op = "requiredTeam", !.pc = "commit", !.who = u, !.org = o])
    BY <1>7 DEF BeginRequiredTeam
  <2> DEFINE new == [Idle EXCEPT !.op = "requiredTeam", !.pc = "commit", !.who = u, !.org = o]
  <2>2. o \in Slot \cup {None}
    BY DEF SeenOrg, Memberships
  <2>3. new \in TxRecord /\ new.who = u /\ new.op = "requiredTeam"
    BY <2>2, IdleTyped DEF TxRecord, Operation, Idle
  <2>4. Begin(t, new)
    BY <2>1
  <2> HIDE DEF new
  <2>5. QED
    BY <2>3, <2>4, <1>1
<1>8. QED
  BY <1>2, <1>3, <1>4, <1>5, <1>6, <1>7

LEMMA ApprovalBeginsKeepBase ==
  ASSUME Base, NEW t \in Tx, NEW r \in Request, BeginApproveRequest(t, r)
  PROVE  Base'
<1> DEFINE new == [Idle EXCEPT !.op = "approveRequest", !.pc = "rows", !.who = db.req[r].who,
                     !.ref = r]
<1>1. r \in Nat /\ db.req[r].who \in User
  BY JoiningAssumption, FieldsTyped DEF Base, BeginApproveRequest, Rows, Request
<1>2. new \in TxRecord
  BY <1>1, IdleTyped DEF TxRecord, Operation
<1>3. new.op = "approveRequest" /\ new.who \in User /\ new.ref = r
  BY <1>1 DEF Idle
<1>4. Begin(t, new)
  BY DEF BeginApproveRequest
<1> HIDE DEF new
<1>5. QED
  BY <1>2, <1>3, <1>4, BeginKeepsBase DEF Reviews, Answers

----------------------------------------------------------------------------
(* Locking: only pc, held and what was decided change. *)

LEMMA DecidedTyped ==
  ASSUME Base, NEW t \in Tx, NEW o \in Slot \cup {None}, NEW held \in SUBSET {"org", "team"}
  PROVE  LET d == Decided(t, o)  h == [d EXCEPT !.held = held] IN
         /\ d \in TxRecord /\ h \in TxRecord
         /\ d.op = tx[t].op /\ d.who = tx[t].who /\ d.ref = tx[t].ref
         /\ h.op = tx[t].op /\ h.who = tx[t].who /\ h.ref = tx[t].ref
<1>1. tx[t] \in TxRecord
  BY FieldsTyped DEF Base
<1> DEFINE team == db.tm[Home][tx[t].who] = "NONE"
           wake == tx[t].op \in {"redeem", "selfJoin"} /\ db.tm[Home][tx[t].who] = "GONE"
           none == o = None
           d == [tx[t] EXCEPT !.pc = "commit", !.addOrg = none, !.addTeam = team, !.wake = wake]
<1>2. team \in BOOLEAN /\ wake \in BOOLEAN /\ none \in BOOLEAN
  OBVIOUS
<1>3. Decided(t, o) = d
  BY DEF Decided
<1> HIDE DEF team, wake, none
<1>4. d \in TxRecord
  BY <1>1, <1>2 DEF TxRecord
<1>5. d.op = tx[t].op /\ d.who = tx[t].who /\ d.ref = tx[t].ref
  BY <1>1 DEF TxRecord
<1> DEFINE h == [d EXCEPT !.held = held]
<1> HIDE DEF d
<1>6. h \in TxRecord
  BY <1>4 DEF TxRecord
<1>7. h.op = d.op /\ h.who = d.who /\ h.ref = d.ref
  BY <1>4 DEF TxRecord
<1> HIDE DEF h
<1>8. QED
  BY <1>3, <1>4, <1>5, <1>6, <1>7 DEF h

LEMMA LocksKeepBase ==
  ASSUME Base, NEW t \in Tx,
         LockUser(t) \/ LockRows(t) \/ LockOwnRows(t) \/ LookForRows(t)
  PROVE  Base'
<1>1. tx[t] \in TxRecord
  BY FieldsTyped DEF Base
<1>2. CASE Abort(t)
  BY <1>2, AbortKeepsBase
<1>3. ASSUME NEW pc \in {"rows", "commit"}, Step(t, [tx[t] EXCEPT !.pc = pc])
      PROVE  Base'
  <2>1. [tx[t] EXCEPT !.pc = pc] \in TxRecord
    BY <1>1 DEF TxRecord
  <2>2. /\ [tx[t] EXCEPT !.pc = pc].op = tx[t].op /\ [tx[t] EXCEPT !.pc = pc].who = tx[t].who
        /\ [tx[t] EXCEPT !.pc = pc].ref = tx[t].ref
    BY <1>1 DEF TxRecord
  <2>3. QED
    BY <1>3, <2>1, <2>2, StepKeepsBase
<1>4. ASSUME NEW o \in Slot \cup {None},
             \/ Step(t, Decided(t, o))
             \/ Step(t, [Decided(t, o) EXCEPT !.held = RowsOf(tx[t].who)])
      PROVE  Base'
  <2>1. RowsOf(tx[t].who) \in SUBSET {"org", "team"}
    BY DEF RowsOf
  <2> DEFINE d == Decided(t, o)
             h == [d EXCEPT !.held = RowsOf(tx[t].who)]
  <2>2. /\ d \in TxRecord /\ h \in TxRecord
        /\ d.op = tx[t].op /\ d.who = tx[t].who /\ d.ref = tx[t].ref
        /\ h.op = tx[t].op /\ h.who = tx[t].who /\ h.ref = tx[t].ref
    BY <2>1, DecidedTyped
  <2>3. Step(t, d) \/ Step(t, h)
    BY <1>4
  <2> HIDE DEF d, h
  <2>4. QED
    BY <2>2, <2>3, StepKeepsBase
<1>5. \A u \in User : SeenOrg(u) \subseteq Slot \cup {None}
  BY DEF SeenOrg, Memberships
<1>6. LockUser(t) => Base'
  BY <1>2, <1>3 DEF LockUser
<1>7. LockRows(t) => Base'
  <2> SUFFICES ASSUME LockRows(t) PROVE Base'
    OBVIOUS
  <2>1. tx[t].who \in User
    BY DEF LockRows, Base, Sound, Reviews
  <2>2. PICK o \in SeenOrg(tx[t].who) :
          Abort(t) \/ Step(t, [Decided(t, o) EXCEPT !.held = RowsOf(tx[t].who)])
    BY DEF LockRows
  <2>3. QED
    BY <1>2, <1>4, <1>5, <2>1, <2>2
<1>8. LockOwnRows(t) => Base'
  BY <1>2, <1>4 DEF LockOwnRows, Slot
<1>9. LookForRows(t) => Base'
  <2> SUFFICES ASSUME LookForRows(t) PROVE Base'
    OBVIOUS
  <2>1. tx[t].who \in User
    BY DEF LookForRows, Base, Sound, Reviews
  <2>2. PICK o \in SeenOrg(tx[t].who) : Abort(t) \/ Step(t, Decided(t, o))
    BY DEF LookForRows
  <2>3. QED
    BY <1>2, <1>4, <1>5, <2>1, <2>2
<1>10. QED
  BY <1>6, <1>7, <1>8, <1>9

----------------------------------------------------------------------------
(* Writing. *)

(* What a terminal invitation keeps. *)
Final(old, new) ==
  IsTerminal(old) => /\ new.accepted = old.accepted /\ new.declined = old.declined
                     /\ new.revoked = "NO" <=> old.revoked = "NO"
Kept == \A i \in Invite : Final(db.inv[i], db'.inv[i])

LEMMA QuietKeeps == db' = db => Kept
BY DEF Kept, Final

LEMMA CommitKeepsBase ==
  ASSUME Base, NEW t \in Tx, NEW ok, NEW new, Commit(t, ok, new),
         ok /\ Allowed(new) =>
           /\ new \in Tables /\ Explained(new.inv)
           /\ \A i \in Invite : db.inv[i].who # None => new.inv[i].who = db.inv[i].who
  PROVE  Base'
<1>1. tx' = [tx EXCEPT ![t] = Idle] /\ UNCHANGED now
  BY DEF Commit
<1>2. tx'[t] = Idle /\ \A u \in Tx \ {t} : tx'[u] = tx[u]
  BY <1>1 DEF Base, TypeOK
<1>3. CASE ok /\ Allowed(new)
  <2>1. db' = new
    BY <1>3 DEF Commit
  <2>2. TypeOK'
    BY <1>1, <1>3, <2>1, IdleTyped DEF Base, TypeOK
  <2>3. ASSUME NEW u \in Tx PROVE Sound(u)'
    <3>1. CASE u = t
      BY <1>2, <3>1 DEF Sound, Idle, Reviews, Answers
    <3>2. CASE u # t
      BY <1>2, <1>3, <2>1, <3>2 DEF Base, Sound
    <3>3. QED
      BY <3>1, <3>2
  <2>4. QED
    BY <1>3, <2>1, <2>2, <2>3 DEF Base, RowsExplained, Allowed
<1>4. CASE ~(ok /\ Allowed(new))
  <2>1. db' = db
    BY <1>4 DEF Commit
  <2>2. QED
    BY <1>1, <2>1, AbortKeepsBase DEF Abort, Step
<1>5. QED
  BY <1>3, <1>4

(* One invitation is written, by id. *)
LEMMA RowWritten ==
  ASSUME Base, NEW T \in Tables, T.inv = db.inv, NEW i \in Invite, NEW row \in InviteRow,
         db.inv[i].who # None, row.who = db.inv[i].who,
         row.accepted # None => row.accepted = row.who
  PROVE  LET new == [T EXCEPT !.inv[i] = row] IN
         /\ new \in Tables /\ Explained(new.inv)
         /\ \A j \in Invite : db.inv[j].who # None => new.inv[j].who = db.inv[j].who
         /\ new.inv[i] = row
         /\ \A j \in Invite : j # i => new.inv[j] = db.inv[j]
<1> DEFINE new == [T EXCEPT !.inv[i] = row]
<1>1. db.inv \in [Invite -> InviteRow]
  BY FieldsTyped DEF Base
<1>2. new.inv = [db.inv EXCEPT ![i] = row] /\ new \in Tables
  BY DEF Tables
<1> HIDE DEF new
<1>3. new.inv[i] = row /\ \A j \in Invite : j # i => new.inv[j] = db.inv[j]
  BY <1>1, <1>2
<1>4. Explained(new.inv)
  BY <1>3 DEF Explained, Base, RowsExplained
<1>5. \A j \in Invite : db.inv[j].who # None => new.inv[j].who = db.inv[j].who
  BY <1>3
<1>6. QED
  BY <1>2, <1>3, <1>4, <1>5 DEF new

(* Approving, denying, revoking and declining write one row, which the     *)
(* CHECK constraints let through only if it contradicts no terminal state. *)
LEMMA AnswerKeepsBase ==
  ASSUME Base, NEW t \in Tx, Approve(t) \/ Deny(t) \/ Revoke(t) \/ Decline(t)
  PROVE  Base' /\ Kept
<1> DEFINE i == tx[t].ref
           old == db.inv[i]
<1>1. i \in Invite /\ old.who # None
  BY DEF Base, Sound, Reviews, Answers, Approve, Deny, Revoke, Decline, At
<1>2. old \in InviteRow /\ db \in Tables
  BY <1>1, FieldsTyped DEF Base, TypeOK
<1>3. old.accepted # None => old.accepted = old.who
  BY <1>1 DEF Base, RowsExplained, Explained
<1>4. ASSUME NEW row \in InviteRow, row.who = old.who, row.accepted = old.accepted,
             OneTerminalState(row) => Final(old, row),
             Commit(t, TRUE, [db EXCEPT !.inv[i] = row])
      PROVE  Base' /\ Kept
  <2> DEFINE new == [db EXCEPT !.inv[i] = row]
  <2>1. /\ new \in Tables /\ Explained(new.inv)
        /\ \A j \in Invite : db.inv[j].who # None => new.inv[j].who = db.inv[j].who
        /\ new.inv[i] = row
        /\ \A j \in Invite : j # i => new.inv[j] = db.inv[j]
    BY <1>1, <1>2, <1>3, <1>4, RowWritten
  <2>2. Commit(t, TRUE, new)
    BY <1>4
  <2> HIDE DEF new
  <2>3. Base'
    BY <2>1, <2>2, CommitKeepsBase
  <2>4. Kept
    <3>1. CASE Allowed(new)
      <4>1. db' = new /\ OneTerminalState(row)
        BY <1>1, <2>1, <2>2, <3>1 DEF Commit, Allowed
      <4>2. QED
        BY <1>4, <2>1, <4>1 DEF Kept, Final
    <3>2. CASE ~Allowed(new)
      BY <2>2, <3>2, QuietKeeps DEF Commit
    <3>3. QED
      BY <3>1, <3>2
  <2>5. QED
    BY <2>3, <2>4
<1>5. CASE Approve(t)
  <2> DEFINE row == [old EXCEPT !.approval = "APPROVED", !.token = "live"]
  <2>1. row \in InviteRow /\ row.who = old.who /\ row.accepted = old.accepted
    BY <1>2 DEF InviteRow, Approval
  <2>2. Final(old, row)
    BY <1>2 DEF InviteRow, Final
  <2>3. Commit(t, TRUE, [db EXCEPT !.inv[i] = row])
    BY <1>5 DEF Approve
  <2> HIDE DEF row, old, i
  <2>4. QED
    BY <2>1, <2>2, <2>3, <1>4
<1>6. CASE Deny(t)
  <2> DEFINE row == [old EXCEPT !.approval = "DENIED"]
  <2>1. row \in InviteRow /\ row.who = old.who /\ row.accepted = old.accepted
    BY <1>2 DEF InviteRow, Approval
  <2>2. Final(old, row)
    BY <1>2 DEF InviteRow, Final
  <2>3. Commit(t, TRUE, [db EXCEPT !.inv[i] = row])
    BY <1>6 DEF Deny
  <2> HIDE DEF row, old, i
  <2>4. QED
    BY <2>1, <2>2, <2>3, <1>4
<1>7. CASE Revoke(t)
  <2> DEFINE row == [old EXCEPT !.revoked = "REVOKED", !.token = Consume(old.token)]
  <2>1. row \in InviteRow /\ row.who = old.who /\ row.accepted = old.accepted
    BY <1>2 DEF InviteRow, Consume
  <2>2. OneTerminalState(row) => Final(old, row)
    BY <1>2 DEF InviteRow, Final, OneTerminalState, IsTerminal
  <2>3. Commit(t, TRUE, [db EXCEPT !.inv[i] = row])
    BY <1>7 DEF Revoke
  <2> HIDE DEF row, old, i
  <2>4. QED
    BY <2>1, <2>2, <2>3, <1>4
<1>8. CASE Decline(t)
  <2> DEFINE token == IF tx[t].op = "declineToken" THEN Consume(old.token) ELSE old.token
             row == [old EXCEPT !.declined = TRUE, !.token = token]
  <2>1. row \in InviteRow /\ row.who = old.who /\ row.accepted = old.accepted
    <3>1. token \in {"none", "live", "used"}
      BY <1>2 DEF InviteRow, Consume
    <3> HIDE DEF token
    <3>2. QED
      BY <1>2, <3>1 DEF InviteRow
  <2>2. OneTerminalState(row) => Final(old, row)
    BY <1>2 DEF InviteRow, Final, OneTerminalState, IsTerminal
  <2>3. Commit(t, TRUE, [db EXCEPT !.inv[i] = row])
    BY <1>8 DEF Decline
  <2> HIDE DEF row, old, i
  <2>4. QED
    BY <2>1, <2>2, <2>3, <1>4
<1>9. QED
  BY <1>5, <1>6, <1>7, <1>8

----------------------------------------------------------------------------
(* Issuing an invitation. *)

(* Where rows may still be created there is an unused one. *)
LEMMA FreeRow ==
  ASSUME NEW n \in Nat, NEW table, DOMAIN table = 1..n, Cardinality(Rows(table)) < n
  PROVE  NextRow(table) \in 1..n /\ table[NextRow(table)].who = None
<1>1. \E i \in 1..n : table[i].who = None
  <2>1. SUFFICES ASSUME \A i \in 1..n : table[i].who # None
                 PROVE  Cardinality(Rows(table)) = n
    OBVIOUS
  <2>2. Rows(table) = 1..n
    BY <2>1 DEF Rows
  <2>3. QED
    BY <2>2, FS_Interval
<1>2. QED
  BY <1>1 DEF NextRow

LEMMA IssueKeepsBase ==
  ASSUME Base, NEW t \in Tx, IssueInvite(t)
  PROVE  Base' /\ Kept
<1> DEFINE x == tx[t]
           old == IF x.found THEN Replaced(x.who) ELSE db.inv
           token == IF x.approval = "PENDING" THEN "none" ELSE "live"
           expires == x.at + Lifetime
           row == [NoInvite EXCEPT !.who = x.who, !.approval = x.approval,
                     !.expires = expires, !.token = token]
           new == [db EXCEPT !.inv = [old EXCEPT ![NextRow(old)] = row]]
<1>1. x \in TxRecord /\ x.who \in User /\ db.inv \in [Invite -> InviteRow] /\ db \in Tables
  BY FieldsTyped DEF Base, TypeOK, Sound, IssueInvite, At, Reviews
<1>2. row \in InviteRow /\ row.who = x.who /\ row.accepted = None
  <2>1. token \in {"none", "live"} /\ expires \in Nat /\ x.approval \in Approval
    BY <1>1, JoiningAssumption DEF TxRecord
  <2> HIDE DEF token, expires
  <2>2. row \in InviteRow
    BY <1>1, <2>1, NoInviteTyped DEF InviteRow
  <2>3. row.who = x.who /\ row.accepted = None
    BY DEF NoInvite
  <2>4. QED
    BY <2>2, <2>3
<1>3. /\ old \in [Invite -> InviteRow]
      /\ \A i \in Invite : /\ old[i].who = db.inv[i].who /\ old[i].accepted = db.inv[i].accepted
                           /\ db.inv[i].who = None => old[i] = db.inv[i]
                           /\ Final(db.inv[i], old[i])
  <2>1. CASE ~x.found
    BY <1>1, <2>1 DEF Final
  <2>2. CASE x.found
    <3>1. old = Replaced(x.who)
      BY <2>2
    <3>2. ASSUME NEW i \in Invite
          PROVE  /\ old[i] \in InviteRow
                 /\ old[i].who = db.inv[i].who /\ old[i].accepted = db.inv[i].accepted
                 /\ db.inv[i].who = None => old[i] = db.inv[i]
                 /\ Final(db.inv[i], old[i])
      <4>1. db.inv[i] \in InviteRow
        BY <1>1
      <4> DEFINE off == [db.inv[i] EXCEPT !.revoked = "REPLACED"]
      <4>2. off \in InviteRow /\ off.who = db.inv[i].who /\ off.accepted = db.inv[i].accepted
        BY <4>1 DEF InviteRow
      <4>3. old[i] = IF IsActionable(db.inv[i]) /\ db.inv[i].who = x.who THEN off ELSE db.inv[i]
        BY <3>1 DEF Replaced
      <4> HIDE DEF off, old
      <4>4. CASE IsActionable(db.inv[i]) /\ db.inv[i].who = x.who
        BY <4>2, <4>3, <4>4 DEF IsActionable, Exists, IsResolved, Final
      <4>5. CASE ~(IsActionable(db.inv[i]) /\ db.inv[i].who = x.who)
        BY <4>1, <4>3, <4>5 DEF Final
      <4>6. QED
        BY <4>4, <4>5
    <3>3. old = [i \in Invite |-> old[i]]
      BY <3>1 DEF Replaced
    <3> HIDE DEF old
    <3>4. QED
      BY <3>2, <3>3
  <2>3. QED
    BY <2>1, <2>2
<1> HIDE DEF old, row
<1>4. NextRow(old) \in Invite /\ old[NextRow(old)].who = None
  <2>1. Rows(old) = Rows(db.inv)
    BY <1>1, <1>3 DEF Rows
  <2>2. Cardinality(Rows(db.inv)) < db.callers.invites /\ db.callers.invites \in 0..MaxInvites
    BY <1>1, JoiningAssumption DEF IssueInvite, Tables
  <2>3. Cardinality(Rows(old)) < MaxInvites
    <3>1. Rows(old) \subseteq 1..MaxInvites /\ MaxInvites \in Nat
      BY <1>3, JoiningAssumption DEF Rows, Invite
    <3>2. Cardinality(Rows(old)) \in Nat
      <4>1. IsFiniteSet(1..MaxInvites)
        BY <3>1, FS_Interval
      <4>2. IsFiniteSet(Rows(old))
        BY <3>1, <4>1, FS_Subset
      <4>3. QED
        BY <4>2, FS_CardinalityType
    <3>3. QED
      BY <2>1, <2>2, <3>1, <3>2
  <2>4. QED
    BY <1>3, <2>3, FreeRow, JoiningAssumption DEF Invite
<1> DEFINE k == NextRow(old)
<1> HIDE DEF k
<1>5. /\ new \in Tables /\ new.inv = [old EXCEPT ![k] = row]
  BY <1>1, <1>2, <1>3, <1>4 DEF Tables, k
<1>6. /\ new.inv[k] = row
      /\ \A i \in Invite : i # k => new.inv[i] = old[i]
  BY <1>3, <1>4, <1>5 DEF k
<1>7. Commit(t, TRUE, new)
  BY DEF IssueInvite, old, row
<1> HIDE DEF new
<1>8. ~IsTerminal(db.inv[k]) /\ db.inv[k].who = None
  BY <1>3, <1>4 DEF k, Base, RowsExplained, Explained, NoInvite, IsTerminal
<1>9. Explained(new.inv)
  BY <1>1, <1>2, <1>3, <1>6, JoiningAssumption DEF Explained, Base, RowsExplained
<1>10. \A i \in Invite : db.inv[i].who # None => new.inv[i].who = db.inv[i].who
  BY <1>3, <1>6, <1>8
<1>11. Base'
  BY <1>5, <1>7, <1>9, <1>10, CommitKeepsBase
<1>12. \A i \in Invite : Final(db.inv[i], new.inv[i])
  BY <1>3, <1>6, <1>8 DEF Final
<1>13. db' = new \/ db' = db
  BY <1>7 DEF Commit
<1>14. QED
  BY <1>11, <1>12, <1>13, QuietKeeps DEF Kept

----------------------------------------------------------------------------
(* Enrolling a user in Home. *)

Joins(t) == tx[t].addTeam \/ tx[t].wake
Entered(t, how, e) ==
  /\ e.orgOf = db.orgOf
  /\ \A o \in Slot, v \in User :
       /\ e.om[o][v] = IF o = Home /\ v = tx[t].who /\ tx[t].addOrg THEN "ACTIVE" ELSE db.om[o][v]
       /\ e.tm[o][v] = IF o = Home /\ v = tx[t].who /\ Joins(t) THEN "ACTIVE" ELSE db.tm[o][v]
  /\ \A v \in User :
       e.via[v] = IF v = tx[t].who /\ Joins(t) THEN [how |-> how, ref |-> tx[t].ref] ELSE db.via[v]
Joined(t, how, e) ==
  /\ e \in Tables
  /\ e.inv = db.inv /\ e.req = db.req /\ e.link = db.link
  /\ e.callers = db.callers /\ e.policy = db.policy
  /\ Entered(t, how, e)

LEMMA EnrolledFacts ==
  ASSUME Base, NEW t \in Tx, tx[t].who \in User, NEW how \in Entry
  PROVE  Joined(t, how, Enrolled(t, how))
<1> DEFINE u == tx[t].who
           cause == [how |-> how, ref |-> tx[t].ref]
           o2 == [db.om EXCEPT ![Home][u] = IF tx[t].addOrg THEN "ACTIVE" ELSE db.om[Home][u]]
           t2 == [db.tm EXCEPT ![Home][u] = IF Joins(t) THEN "ACTIVE" ELSE db.tm[Home][u]]
           v2 == [db.via EXCEPT ![u] = IF Joins(t) THEN cause ELSE db.via[u]]
           e  == Enrolled(t, how)
<1>1. /\ db \in Tables /\ tx[t].ref \in Nat /\ Home \in Slot
      /\ db.om \in [Slot -> [User -> Standing]] /\ db.tm \in [Slot -> [User -> Standing]]
      /\ db.via \in [User -> [how : Entry, ref : Nat]]
  BY FieldsTyped DEF Base, TypeOK, TxRecord, Slot
<1>2. e = [db EXCEPT !.om = o2, !.tm = t2, !.via = v2]
  BY DEF Enrolled, Joins
<1>3. /\ o2 \in [Slot -> [User -> Standing]] /\ t2 \in [Slot -> [User -> Standing]]
      /\ v2 \in [User -> [how : Entry, ref : Nat]]
  BY <1>1 DEF Standing
<1>4. /\ \A o \in Slot, v \in User :
           /\ o2[o][v] = IF o = Home /\ v = u /\ tx[t].addOrg THEN "ACTIVE" ELSE db.om[o][v]
           /\ t2[o][v] = IF o = Home /\ v = u /\ Joins(t) THEN "ACTIVE" ELSE db.tm[o][v]
      /\ \A v \in User : v2[v] = IF v = u /\ Joins(t) THEN cause ELSE db.via[v]
  BY <1>1
<1> HIDE DEF o2, t2, v2, e
<1>5. /\ e \in Tables /\ e.om = o2 /\ e.tm = t2 /\ e.via = v2
      /\ e.inv = db.inv /\ e.req = db.req /\ e.link = db.link /\ e.orgOf = db.orgOf
      /\ e.callers = db.callers /\ e.policy = db.policy
  BY <1>1, <1>2, <1>3 DEF Tables
<1>6. QED
  BY <1>4, <1>5 DEF Joined, Entered, e

LEMMA AcceptKeepsBase ==
  ASSUME Base, NEW t \in Tx, Accept(t)
  PROVE  Base' /\ Kept
<1> DEFINE x == tx[t]
           i == x.ref
           old == db.inv[i]
           token == IF x.op = "acceptToken" THEN "used" ELSE old.token
           row == [old EXCEPT !.accepted = x.who, !.token = token]
           e == Enrolled(t, "invite")
           new == [e EXCEPT !.inv[i] = row]
<1>1. x.who \in User /\ i \in Invite /\ old.who = x.who /\ old.who # None
  BY DEF Accept, Base, Sound, Reviews, Answers
<1>2. old \in InviteRow
  BY <1>1, FieldsTyped DEF Base
<1>3. row \in InviteRow /\ row.who = old.who /\ row.accepted = row.who
  <2>1. token \in {"none", "live", "used"}
    BY <1>2 DEF InviteRow
  <2> HIDE DEF token
  <2>2. QED
    BY <1>1, <1>2, <2>1 DEF InviteRow
<1>4. Joined(t, "invite", e)
  BY <1>1, EnrolledFacts DEF Entry
<1>5. PICK ok : Commit(t, ok, new)
  BY DEF Accept
<1>6. OneTerminalState(row) => Final(old, row)
  <2>1. old.accepted # None => old.accepted = old.who
    BY <1>1 DEF Base, RowsExplained, Explained
  <2>2. row.declined = old.declined /\ row.revoked = old.revoked
    BY <1>2 DEF InviteRow
  <2>3. QED
    BY <1>1, <1>3, <2>1, <2>2 DEF Final, OneTerminalState, IsTerminal
<1> HIDE DEF row, e, old, i
<1>7. /\ new \in Tables /\ Explained(new.inv)
      /\ \A j \in Invite : db.inv[j].who # None => new.inv[j].who = db.inv[j].who
      /\ new.inv[i] = row
      /\ \A j \in Invite : j # i => new.inv[j] = db.inv[j]
  BY <1>1, <1>3, <1>4, RowWritten DEF Joined, old
<1> HIDE DEF new
<1>8. Base'
  BY <1>5, <1>7, CommitKeepsBase
<1>9. CASE db' = new /\ Allowed(new)
  <2>1. Final(old, row)
    BY <1>1, <1>6, <1>7, <1>9 DEF Allowed
  <2>2. Kept
    BY <1>7, <1>9, <2>1 DEF Kept, Final, old
  <2>3. QED
    BY <1>8, <2>2
<1>10. CASE db' = db
  BY <1>8, <1>10, QuietKeeps
<1>11. QED
  BY <1>5, <1>9, <1>10 DEF Commit

(* Every other commit leaves the invitations alone. *)
LEMMA OtherCommitKeepsBase ==
  ASSUME Base, NEW t \in Tx, NEW ok, NEW new \in Tables, Commit(t, ok, new), new.inv = db.inv
  PROVE  Base' /\ Kept
<1>1. Base'
  BY CommitKeepsBase DEF Base, RowsExplained
<1>2. db'.inv = db.inv
  BY DEF Commit
<1>3. QED
  BY <1>1, <1>2 DEF Kept, Final

LEMMA ComingKeepsBase ==
  ASSUME Base, NEW t \in Tx,
         Redeem(t) \/ SelfJoin(t) \/ PlaceMapped(t) \/ GrantAutomatically(t) \/ ApproveRequest(t)
  PROVE  Base' /\ Kept
<1>1. tx[t].who \in User
  BY DEF Redeem, SelfJoin, PlaceMapped, GrantAutomatically, ApproveRequest, At, Base, Sound, Reviews
<1>2. \A how \in Entry : Joined(t, how, Enrolled(t, how))
  BY <1>1, EnrolledFacts
<1>3. CASE Redeem(t)
  <2> DEFINE e == Enrolled(t, "link")
             link == [e.link EXCEPT !.uses = e.link.uses + 1]
             new == [e EXCEPT !.link = link]
  <2>1. e \in Tables /\ e.inv = db.inv
    BY <1>2 DEF Joined, Entry
  <2>2. PICK ok : Commit(t, ok, new)
    BY <1>3 DEF Redeem
  <2> HIDE DEF e
  <2>3. link \in [made : BOOLEAN, revoked : BOOLEAN, uses : Nat, expires : Nat]
    <3>1. e.link \in [made : BOOLEAN, revoked : BOOLEAN, uses : Nat, expires : Nat]
      BY <2>1 DEF Tables
    <3>2. e.link.uses + 1 \in Nat
      BY <3>1
    <3>3. QED
      BY <3>1, <3>2
  <2> HIDE DEF link
  <2>4. new \in Tables /\ new.inv = db.inv
    BY <2>1, <2>3 DEF Tables
  <2>5. QED
    BY <2>2, <2>4, OtherCommitKeepsBase
<1>4. CASE ApproveRequest(t)
  <2> DEFINE e == Enrolled(t, "request")
             done == [e.req[tx[t].ref] EXCEPT !.status = "APPROVED"]
             req == [e.req EXCEPT ![tx[t].ref] = done]
             new == [e EXCEPT !.req = req]
  <2>1. e \in Tables /\ e.inv = db.inv
    BY <1>2 DEF Joined, Entry
  <2>2. PICK ok : Commit(t, ok, new)
    BY <1>4 DEF ApproveRequest
  <2>3. tx[t].ref \in Request
    BY <1>4 DEF ApproveRequest, At, Base, Sound
  <2> HIDE DEF e
  <2> DEFINE Rowed == [who : User \cup {None}, status : {"PENDING", "APPROVED", "REJECTED"}]
  <2>4. e.req \in [Request -> Rowed]
    BY <2>1 DEF Tables
  <2>5. done \in Rowed
    BY <2>3, <2>4
  <2> HIDE DEF done
  <2>6. req \in [Request -> Rowed]
    BY <2>4, <2>5
  <2> HIDE DEF req
  <2>7. new \in Tables /\ new.inv = db.inv
    BY <2>1, <2>6 DEF Tables
  <2>8. QED
    BY <2>2, <2>7, OtherCommitKeepsBase
<1>5. ASSUME NEW how \in Entry, NEW ok, Commit(t, ok, Enrolled(t, how))
      PROVE  Base' /\ Kept
  BY <1>2, <1>5, OtherCommitKeepsBase DEF Joined
<1>6. QED
  BY <1>3, <1>4, <1>5 DEF SelfJoin, PlaceMapped, GrantAutomatically, Entry

LEMMA RequestKeepsBase ==
  ASSUME Base, NEW t \in Tx, RequestAccess(t)
  PROVE  Base' /\ Kept
<1> DEFINE row == [who |-> tx[t].who, status |-> "PENDING"]
           k == NextRow(db.req)
           new == [db EXCEPT !.req[k] = row]
           some == tx[t].found
<1>1. tx[t].who \in User /\ db \in Tables
  BY DEF RequestAccess, At, Base, Sound, Reviews, TypeOK
<1>2. Commit(t, TRUE, IF some THEN db ELSE new)
  BY DEF RequestAccess
<1> HIDE DEF k, some
<1>3. new \in Tables /\ new.inv = db.inv
  BY <1>1 DEF Tables
<1>4. (IF some THEN db ELSE new) \in Tables /\ (IF some THEN db ELSE new).inv = db.inv
  BY <1>1, <1>3
<1>5. QED
  BY <1>2, <1>4, OtherCommitKeepsBase

LEMMA PlaceApartKeepsBase ==
  ASSUME Base, NEW t \in Tx, PlaceApart(t)
  PROVE  Base' /\ Kept
<1> DEFINE x == tx[t]
           s == CHOOSE f \in FreeSlots : TRUE
           org == IF x.org = None THEN s ELSE x.org
           om2 == [db.om EXCEPT ![s][x.who] = IF x.org = None THEN "ACTIVE" ELSE db.om[s][x.who]]
           tm2 == [db.tm EXCEPT ![s][x.who] = "ACTIVE"]
           og2 == [db.orgOf EXCEPT ![s] = org]
           new == [db EXCEPT !.orgOf = og2, !.om = om2, !.tm = tm2]
<1>1. /\ x.who \in User /\ s \in Slot /\ db \in Tables /\ org \in Slot
      /\ db.om \in [Slot -> [User -> Standing]] /\ db.tm \in [Slot -> [User -> Standing]]
      /\ db.orgOf \in [Slot -> Slot \cup {None}]
  <2>1. s \in FreeSlots
    BY DEF PlaceApart
  <2>2. x \in TxRecord /\ x.who \in User
    BY FieldsTyped DEF PlaceApart, Base, Sound, Reviews
  <2>3. QED
    BY <2>1, <2>2, FieldsTyped DEF FreeSlots, Slot, Base, TypeOK, TxRecord
<1>2. Commit(t, TRUE, new)
  BY DEF PlaceApart
<1> HIDE DEF s, org
<1>3. /\ om2 \in [Slot -> [User -> Standing]] /\ tm2 \in [Slot -> [User -> Standing]]
      /\ og2 \in [Slot -> Slot \cup {None}]
  BY <1>1 DEF Standing
<1> HIDE DEF om2, tm2, og2
<1>4. new \in Tables /\ new.inv = db.inv
  BY <1>1, <1>3 DEF Tables
<1>5. QED
  BY <1>2, <1>4, OtherCommitKeepsBase

(* The writes of one statement. *)
LEMMA StatementKeepsBase ==
  ASSUME Base, NEW new \in Tables, db' = new, UNCHANGED <<tx, now>>,
         new.inv = db.inv, OneActiveOrg(new.om)
  PROVE  Base' /\ Kept
<1>1. TypeOK'
  BY DEF Base, TypeOK
<1>2. Allowed(db') /\ RowsExplained'
  BY DEF Base, RowsExplained, Allowed
<1>3. \A u \in Tx : Sound(u)'
  BY DEF Base, Sound
<1>4. QED
  BY <1>1, <1>2, <1>3 DEF Base, Kept, Final

LEMMA StatementsKeepBase ==
  ASSUME Base,
         \/ CreateLink \/ RevokeLink \/ \E p \in Policy : SetPolicy(p)
         \/ \E r \in Request : RejectRequest(r)
         \/ \E u \in User : Remove(u)
  PROVE  Base' /\ Kept
<1>1. /\ db \in Tables /\ now \in Nat /\ OneActiveOrg(db.om)
      /\ db.link \in [made : BOOLEAN, revoked : BOOLEAN, uses : Nat, expires : Nat]
      /\ db.req \in [Request -> [who : User \cup {None},
                                status : {"PENDING", "APPROVED", "REJECTED"}]]
      /\ db.om \in [Slot -> [User -> Standing]] /\ db.tm \in [Slot -> [User -> Standing]]
      /\ Home \in Slot
  BY FieldsTyped DEF Base, TypeOK, Allowed, Slot
<1>2. CASE CreateLink
  <2> DEFINE expires == now + Lifetime
             link == [db.link EXCEPT !.made = TRUE, !.expires = expires]
             new == [db EXCEPT !.link = link]
  <2>1. expires \in Nat
    BY <1>1, JoiningAssumption
  <2>2. db' = new
    BY <1>2 DEF CreateLink
  <2> HIDE DEF expires
  <2>3. link \in [made : BOOLEAN, revoked : BOOLEAN, uses : Nat, expires : Nat]
    BY <1>1, <2>1
  <2> HIDE DEF link
  <2>4. new \in Tables /\ new.inv = db.inv /\ new.om = db.om
    BY <1>1, <2>3 DEF Tables
  <2>5. QED
    BY <1>1, <1>2, <2>2, <2>4, StatementKeepsBase DEF CreateLink
<1>3. CASE RevokeLink
  <2> DEFINE link == [db.link EXCEPT !.revoked = TRUE]
             new == [db EXCEPT !.link = link]
  <2>1. db' = new
    BY <1>3 DEF RevokeLink
  <2>2. link \in [made : BOOLEAN, revoked : BOOLEAN, uses : Nat, expires : Nat]
    BY <1>1
  <2> HIDE DEF link
  <2>3. new \in Tables /\ new.inv = db.inv /\ new.om = db.om
    BY <1>1, <2>2 DEF Tables
  <2>4. QED
    BY <1>1, <1>3, <2>1, <2>3, StatementKeepsBase DEF RevokeLink
<1>4. ASSUME NEW p \in Policy, SetPolicy(p)
      PROVE  Base' /\ Kept
  <2> DEFINE new == [db EXCEPT !.policy = p]
  <2>1. new \in Tables /\ new.inv = db.inv /\ new.om = db.om
    BY <1>1 DEF Tables
  <2>2. QED
    BY <1>1, <1>4, <2>1, StatementKeepsBase DEF SetPolicy
<1>5. ASSUME NEW r \in Request, RejectRequest(r)
      PROVE  Base' /\ Kept
  <2> DEFINE done == [db.req[r] EXCEPT !.status = "REJECTED"]
             req == [db.req EXCEPT ![r] = done]
             new == [db EXCEPT !.req = req]
             Rowed == [who : User \cup {None}, status : {"PENDING", "APPROVED", "REJECTED"}]
  <2>1. db' = new
    BY <1>5 DEF RejectRequest
  <2>2. done \in Rowed
    BY <1>1
  <2> HIDE DEF done
  <2>3. req \in [Request -> Rowed]
    BY <1>1, <2>2
  <2> HIDE DEF req
  <2>4. new \in Tables /\ new.inv = db.inv /\ new.om = db.om
    BY <1>1, <2>3 DEF Tables
  <2>5. QED
    BY <1>1, <1>5, <2>1, <2>4, StatementKeepsBase DEF RejectRequest
<1>6. ASSUME NEW u \in User, Remove(u)
      PROVE  Base' /\ Kept
  <2> DEFINE om == [db.om EXCEPT ![Home][u] = "GONE"]
             tm == [s \in Slot |-> IF db.orgOf[s] = Home /\ db.tm[s][u] # "NONE"
                                   THEN [db.tm[s] EXCEPT ![u] = "GONE"] ELSE db.tm[s]]
             new == [db EXCEPT !.om = om, !.tm = tm]
  <2>1. db' = new
    BY <1>6 DEF Remove
  <2>2. om \in [Slot -> [User -> Standing]] /\ tm \in [Slot -> [User -> Standing]]
    BY <1>1 DEF Standing
  <2>3. OneActiveOrg(om)
    BY <1>1 DEF OneActiveOrg
  <2> HIDE DEF om, tm
  <2>4. new \in Tables /\ new.inv = db.inv /\ new.om = om
    BY <1>1, <2>2 DEF Tables
  <2>5. QED
    BY <1>6, <2>1, <2>3, <2>4, StatementKeepsBase DEF Remove
<1>7. QED
  BY <1>2, <1>3, <1>4, <1>5, <1>6

----------------------------------------------------------------------------
(* Every step. *)

LEMMA NextKeepsBase ==
  ASSUME Base, [Next]_vars
  PROVE  Base' /\ Kept
<1>1. CASE UNCHANGED vars
  <2>1. Base'
    BY <1>1 DEF vars, Base, TypeOK, Allowed, RowsExplained, Sound
  <2>2. QED
    BY <1>1, <2>1, QuietKeeps DEF vars
<1>2. CASE Tick
  <2>1. db' = db /\ tx' = tx /\ now' \in Nat
    BY <1>2, FieldsTyped DEF Tick, Base
  <2>2. Base'
    BY <2>1 DEF Base, TypeOK, Allowed, RowsExplained, Sound
  <2>3. QED
    BY <2>1, <2>2, QuietKeeps
<1>3. ASSUME NEW t \in Tx, Inviting(t)
      PROVE  Base' /\ Kept
  <2>1. CASE IssueInvite(t)
    BY <2>1, IssueKeepsBase
  <2>2. CASE Approve(t) \/ Deny(t) \/ Revoke(t)
    BY <2>2, AnswerKeepsBase
  <2>3. ASSUME NEW u \in User, InviteAsManager(t, u) \/ \E by \in User : InviteAsMember(t, u, by)
        PROVE  Base' /\ Kept
    <3>1. db' = db
      BY <2>3 DEF InviteAsManager, InviteAsMember, BeginInvite, Begin
    <3>2. QED
      BY <2>3, <3>1, InvitingBeginsKeepBase, QuietKeeps
  <2>4. ASSUME NEW i \in Invite, Resend(t, i) \/ \E op \in Reviews : BeginReview(t, op, i)
        PROVE  Base' /\ Kept
    <3>1. db' = db
      BY <2>4 DEF Resend, BeginReview, Begin
    <3>2. QED
      BY <2>4, <3>1, InvitingBeginsKeepBase, QuietKeeps
  <2>5. QED
    BY <1>3, <2>1, <2>2, <2>3, <2>4 DEF Inviting, Reviews
<1>4. ASSUME NEW t \in Tx, Answering(t)
      PROVE  Base' /\ Kept
  <2>1. CASE Accept(t)
    BY <2>1, AcceptKeepsBase
  <2>2. CASE Decline(t)
    BY <2>2, AnswerKeepsBase
  <2>3. CASE LockUser(t)
    <3>1. db' = db
      BY <2>3 DEF LockUser, Step, Abort
    <3>2. QED
      BY <2>3, <3>1, LocksKeepBase, QuietKeeps
  <2>4. ASSUME NEW i \in Invite,
               \/ BeginAccept(t, i) \/ BeginDecline(t, i)
               \/ \E op \in {"acceptToken", "declineToken"} : PresentToken(t, op, i)
        PROVE  Base' /\ Kept
    <3>1. db' = db
      BY <2>4 DEF BeginAccept, BeginDecline, PresentToken, Begin
    <3>2. QED
      BY <2>4, <3>1, AnsweringBeginsKeepBase, QuietKeeps
  <2>5. QED
    BY <1>4, <2>1, <2>2, <2>3, <2>4 DEF Answering
<1>5. ASSUME NEW t \in Tx, JoiningOpenly(t) \/ Requesting(t) \/ Placing(t) \/ LockRows(t)
      PROVE  Base' /\ Kept
  <2>1. CASE Redeem(t) \/ SelfJoin(t) \/ PlaceMapped(t) \/ GrantAutomatically(t)
             \/ ApproveRequest(t)
    BY <2>1, ComingKeepsBase
  <2>2. CASE RequestAccess(t) \/ PlaceApart(t)
    BY <2>2, RequestKeepsBase, PlaceApartKeepsBase
  <2>3. CASE LockRows(t) \/ LockOwnRows(t) \/ LookForRows(t)
    <3>1. db' = db
      BY <2>3 DEF LockRows, LockOwnRows, LookForRows, Step, Abort
    <3>2. QED
      BY <2>3, <3>1, LocksKeepBase, QuietKeeps
  <2>4. ASSUME NEW r \in Request, BeginApproveRequest(t, r)
        PROVE  Base' /\ Kept
    <3>1. db' = db
      BY <2>4 DEF BeginApproveRequest, Begin
    <3>2. QED
      BY <2>4, <3>1, ApprovalBeginsKeepBase, QuietKeeps
  <2>5. ASSUME NEW u \in User,
               \/ BeginRedeem(t, u) \/ BeginSelfJoin(t, u) \/ BeginRequestAccess(t, u)
               \/ BeginAutoGrant(t, u) \/ BeginRequiredTeam(t, u)
               \/ \E op \in {"placeMapped", "placeOwn"} : BeginPlacement(t, op, u)
        PROVE  Base' /\ Kept
    <3>1. db' = db
      BY <2>5 DEF BeginRedeem, BeginSelfJoin, BeginRequestAccess, BeginAutoGrant,
                  BeginRequiredTeam, BeginPlacement, Begin
    <3>2. QED
      BY <2>5, <3>1, ComingBeginsKeepBase, QuietKeeps
  <2>6. QED
    BY <1>5, <2>1, <2>2, <2>3, <2>4, <2>5 DEF JoiningOpenly, Requesting, Placing
<1>6. ASSUME NEW t \in Tx, Fail(t)
      PROVE  Base' /\ Kept
  BY <1>6, AbortKeepsBase, QuietKeeps DEF Fail, Abort, Step
<1>7. QED
  BY <1>1, <1>2, <1>3, <1>4, <1>5, <1>6, StatementsKeepBase DEF Next

THEOREM BaseHolds == Spec => []Base
<1>1. Base /\ [Next]_vars => Base'
  BY NextKeepsBase
<1>2. QED
  BY <1>1, BaseInitially, PTL DEF Spec

----------------------------------------------------------------------------
(* What follows from these alone. *)

(* Types, for every value of the constants. *)
THEOREM TypeCorrect == Spec => []TypeOK
<1>1. Base => TypeOK
  BY DEF Base
<1>2. QED
  BY <1>1, BaseHolds, PTL

(* An accepted, declined or revoked invitation keeps that state for good,  *)
(* whatever answers and reviews were decided on older reads of it.         *)
THEOREM AnswersAreFinal == Spec => ResolvedOnce
<1>1. Base /\ [Next]_vars =>
        [\A i \in Invite : IsTerminal(db.inv[i]) =>
           LET old == db.inv[i]  new == db'.inv[i] IN
           /\ new.accepted = old.accepted /\ new.declined = old.declined
           /\ new.revoked = "NO" <=> old.revoked = "NO"]_vars
  BY NextKeepsBase DEF Kept, Final
<1>2. QED
  BY <1>1, BaseHolds, PTL DEF Spec, ResolvedOnce

(* At most one e-mailed link works for an address. *)
THEOREM OneLinkPerAddress == Spec => []OneUsableInvite
<1>1. Base => OneUsableInvite
  BY DEF Base, Allowed, OneActionable, OneUsableInvite, Usable
<1>2. QED
  BY <1>1, BaseHolds, PTL

----------------------------------------------------------------------------
(* How the memberships change: not at all, for one user in Home, by a new  *)
(* team or organisation, or by a removal.                                  *)

Steady == /\ db'.om = db.om /\ db'.tm = db.tm /\ db'.via = db.via /\ db'.orgOf = db.orgOf
          /\ db'.link.uses = db.link.uses
Enrols(t, how) ==
  /\ tx[t].who \in User /\ tx[t].pc = "commit" /\ CanEnrol(t) /\ Entered(t, how, db')
  /\ how = "invite" => /\ db'.om[Home][tx[t].who] = "ACTIVE"
                       /\ tx[t].ref \in Invite /\ db'.inv[tx[t].ref].accepted = tx[t].who
  /\ how = "link" => /\ tx[t].op = "redeem" /\ LinkValid(tx[t].at)
                     /\ db'.link.uses = db.link.uses + 1
  /\ how # "link" => db'.link.uses = db.link.uses
Founds(t) ==
  \E s \in Fresh :
    /\ db.orgOf[s] = None /\ tx[t].who \in User
    /\ db'.orgOf = [db.orgOf EXCEPT ![s] = IF tx[t].org = None THEN s ELSE tx[t].org]
    /\ db'.om = [db.om EXCEPT ![s][tx[t].who] = IF tx[t].org = None THEN "ACTIVE"
                                                ELSE db.om[s][tx[t].who]]
    /\ db'.tm = [db.tm EXCEPT ![s][tx[t].who] = "ACTIVE"]
    /\ db'.via = db.via /\ db'.link.uses = db.link.uses
Expels(u) ==
  /\ RowsFree(u)
  /\ db'.om = [db.om EXCEPT ![Home][u] = "GONE"]
  /\ db'.tm = [s \in Slot |-> IF db.orgOf[s] = Home /\ db.tm[s][u] # "NONE"
                              THEN [db.tm[s] EXCEPT ![u] = "GONE"] ELSE db.tm[s]]
  /\ db'.via = db.via /\ db'.orgOf = db.orgOf /\ db'.link.uses = db.link.uses

Entrances == {"invite", "link", "selfJoin", "request", "grant", "mapping"}

LEMMA QuietIsSteady == db' = db => Steady
BY DEF Steady

LEMMA AcceptEnrols ==
  ASSUME Base, NEW t \in Tx, Accept(t)
  PROVE  Steady \/ Enrols(t, "invite")
<1> DEFINE x == tx[t]
           old == db.inv[x.ref]
           row == [old EXCEPT !.accepted = x.who,
                     !.token = IF x.op = "acceptToken" THEN "used" ELSE old.token]
           e == Enrolled(t, "invite")
           new == [e EXCEPT !.inv[x.ref] = row]
           ok == /\ CanEnrol(t) /\ e.om[Home][x.who] = "ACTIVE" /\ e.tm[Home][x.who] = "ACTIVE"
                 /\ x.op = "acceptToken" => old.token = "live"
<1>1. x.who \in User /\ x.ref \in Invite /\ x.pc = "commit"
  BY DEF Accept, Base, Sound, Reviews, Answers
<1>2. old \in InviteRow
  BY <1>1, FieldsTyped DEF Base
<1>3. row.accepted = x.who
  BY <1>2 DEF InviteRow
<1>4. Joined(t, "invite", e)
  BY <1>1, EnrolledFacts DEF Entry
<1>5. Commit(t, ok, new)
  BY DEF Accept
<1> HIDE DEF row, e
<1>6. e \in Tables
  BY <1>4 DEF Joined
<1>7. /\ new.om = e.om /\ new.tm = e.tm /\ new.via = e.via /\ new.orgOf = e.orgOf
      /\ new.inv[x.ref] = row /\ new.link = e.link
  BY <1>1, <1>6 DEF Tables
<1> HIDE DEF new
<1>8. CASE db' = new /\ ok
  BY <1>1, <1>3, <1>4, <1>7, <1>8 DEF Enrols, Joined, Entered
<1>9. CASE db' = db
  BY <1>9, QuietIsSteady
<1>10. QED
  BY <1>5, <1>8, <1>9 DEF Commit

LEMMA ComingEnrols ==
  ASSUME Base, NEW t \in Tx,
         Redeem(t) \/ SelfJoin(t) \/ PlaceMapped(t) \/ GrantAutomatically(t) \/ ApproveRequest(t)
  PROVE  Steady \/ \E how \in Entrances : Enrols(t, how)
<1>1. tx[t].who \in User /\ tx[t].pc = "commit"
  BY DEF Redeem, SelfJoin, PlaceMapped, GrantAutomatically, ApproveRequest, At, Base, Sound, Reviews
<1>2. \A how \in Entry : Joined(t, how, Enrolled(t, how))
  BY <1>1, EnrolledFacts
<1>3. CASE Redeem(t)
  <2> DEFINE e == Enrolled(t, "link")
             new == [e EXCEPT !.link.uses = e.link.uses + 1]
  <2>1. Joined(t, "link", e)
    BY <1>2 DEF Entry
  <2>2. Commit(t, LinkValid(tx[t].at) /\ CanEnrol(t), new) /\ tx[t].op = "redeem"
    BY <1>3 DEF Redeem, At
  <2> HIDE DEF e
  <2>3. /\ new.om = e.om /\ new.tm = e.tm /\ new.via = e.via /\ new.orgOf = e.orgOf
        /\ new.link.uses = db.link.uses + 1
    BY <2>1 DEF Joined, Tables
  <2> HIDE DEF new
  <2>4. QED
    BY <1>1, <2>1, <2>2, <2>3, QuietIsSteady DEF Commit, Enrols, Joined, Entered, Entrances
<1>4. CASE ApproveRequest(t)
  <2> DEFINE e == Enrolled(t, "request")
             new == [e EXCEPT !.req[tx[t].ref].status = "APPROVED"]
  <2>1. Joined(t, "request", e)
    BY <1>2 DEF Entry
  <2>2. Commit(t, CanEnrol(t), new)
    BY <1>4 DEF ApproveRequest
  <2> HIDE DEF e
  <2>3. /\ new.om = e.om /\ new.tm = e.tm /\ new.via = e.via /\ new.orgOf = e.orgOf
        /\ new.link = e.link
    BY <2>1 DEF Joined, Tables
  <2> HIDE DEF new
  <2>4. QED
    BY <1>1, <2>1, <2>2, <2>3, QuietIsSteady DEF Commit, Enrols, Joined, Entered, Entrances
<1>5. ASSUME NEW how \in Entrances \ {"invite", "link"},
             Commit(t, CanEnrol(t), Enrolled(t, how))
      PROVE  Steady \/ Enrols(t, how)
  <2>1. Joined(t, how, Enrolled(t, how))
    BY <1>2 DEF Entry, Entrances
  <2>2. QED
    BY <1>1, <1>5, <2>1, QuietIsSteady DEF Commit, Enrols, Joined, Entrances
<1>6. QED
  BY <1>3, <1>4, <1>5 DEF SelfJoin, PlaceMapped, GrantAutomatically, Entrances

LEMMA PlaceApartFounds ==
  ASSUME Base, NEW t \in Tx, PlaceApart(t)
  PROVE  Steady \/ Founds(t)
<1> DEFINE x == tx[t]
           s == CHOOSE f \in FreeSlots : TRUE
           om2 == [db.om EXCEPT ![s][x.who] = IF x.org = None THEN "ACTIVE" ELSE db.om[s][x.who]]
           tm2 == [db.tm EXCEPT ![s][x.who] = "ACTIVE"]
           og2 == [db.orgOf EXCEPT ![s] = IF x.org = None THEN s ELSE x.org]
           new == [db EXCEPT !.orgOf = og2, !.om = om2, !.tm = tm2]
<1>1. s \in Fresh /\ db.orgOf[s] = None /\ x.who \in User /\ db \in Tables
  <2>1. s \in FreeSlots
    BY DEF PlaceApart
  <2>2. QED
    BY <2>1 DEF FreeSlots, PlaceApart, Base, TypeOK, Sound, Reviews
<1>2. Commit(t, TRUE, new)
  BY DEF PlaceApart
<1> HIDE DEF om2, tm2, og2, s
<1>3. /\ new.om = om2 /\ new.tm = tm2 /\ new.orgOf = og2 /\ new.via = db.via
      /\ new.link = db.link
  BY <1>1 DEF Tables
<1> HIDE DEF new
<1>4. CASE db' = new
  BY <1>1, <1>3, <1>4 DEF Founds, om2, tm2, og2
<1>5. CASE db' = db
  BY <1>5, QuietIsSteady
<1>6. QED
  BY <1>2, <1>4, <1>5 DEF Commit

LEMMA MembershipSteps ==
  ASSUME Base, [Next]_vars
  PROVE  \/ Steady
         \/ \E t \in Tx : Founds(t) \/ \E how \in Entrances : Enrols(t, how)
         \/ \E u \in User : Expels(u)
<1>0. db \in Tables /\ db.link \in [made : BOOLEAN, revoked : BOOLEAN, uses : Nat, expires : Nat]
  BY FieldsTyped DEF Base, TypeOK
<1>1. CASE db' = db
  BY <1>1, QuietIsSteady
<1>2. ASSUME NEW t \in Tx, Accept(t)
      PROVE  Steady \/ \E how \in Entrances : Enrols(t, how)
  BY <1>2, AcceptEnrols DEF Entrances
<1>3. ASSUME NEW u \in User, Remove(u)
      PROVE  Expels(u)
  <2> DEFINE om == [db.om EXCEPT ![Home][u] = "GONE"]
             tm == [s \in Slot |-> IF db.orgOf[s] = Home /\ db.tm[s][u] # "NONE"
                                   THEN [db.tm[s] EXCEPT ![u] = "GONE"] ELSE db.tm[s]]
             new == [db EXCEPT !.om = om, !.tm = tm]
  <2>1. db' = new /\ RowsFree(u)
    BY <1>3 DEF Remove
  <2> HIDE DEF om, tm
  <2>2. /\ new.om = om /\ new.tm = tm /\ new.via = db.via /\ new.orgOf = db.orgOf
        /\ new.link = db.link
    BY <1>0 DEF Tables
  <2>3. QED
    BY <2>1, <2>2 DEF Expels, om, tm
<1>4. ASSUME NEW t \in Tx, IssueInvite(t) \/ Approve(t) \/ Deny(t) \/ Revoke(t) \/ Decline(t)
      PROVE  Steady
  <2>1. \E inv : db' = [db EXCEPT !.inv = inv] \/ db' = db
    BY <1>4 DEF IssueInvite, Approve, Deny, Revoke, Decline, Commit
  <2>2. QED
    BY <1>0, <2>1, QuietIsSteady DEF Steady, Tables
<1>5. ASSUME NEW t \in Tx, RequestAccess(t)
      PROVE  Steady
  <2>1. \E req : db' = [db EXCEPT !.req = req] \/ db' = db
    BY <1>5 DEF RequestAccess, Commit
  <2>2. QED
    BY <1>0, <2>1, QuietIsSteady DEF Steady, Tables
<1>6. ASSUME \/ CreateLink \/ RevokeLink \/ \E p \in Policy : SetPolicy(p)
             \/ \E r \in Request : RejectRequest(r)
      PROVE  Steady
  <2>1. CASE CreateLink \/ RevokeLink
    <3> DEFINE made == [db.link EXCEPT !.made = TRUE, !.expires = now + Lifetime]
               dead == [db.link EXCEPT !.revoked = TRUE]
    <3>1. made.uses = db.link.uses /\ dead.uses = db.link.uses
      BY <1>0
    <3>2. db' = [db EXCEPT !.link = made] \/ db' = [db EXCEPT !.link = dead]
      BY <2>1 DEF CreateLink, RevokeLink
    <3> HIDE DEF made, dead
    <3>3. QED
      BY <1>0, <3>1, <3>2 DEF Steady, Tables
  <2>2. CASE \E p \in Policy : SetPolicy(p)
    BY <1>0, <2>2 DEF SetPolicy, Steady, Tables
  <2>3. ASSUME NEW r \in Request, RejectRequest(r)
        PROVE  Steady
    <3>1. \E req : db' = [db EXCEPT !.req = req]
      BY <2>3 DEF RejectRequest
    <3>2. QED
      BY <1>0, <3>1 DEF Steady, Tables
  <2>4. QED
    BY <1>6, <2>1, <2>2, <2>3
<1>7. CASE UNCHANGED vars \/ Tick \/ \E t \in Tx : Fail(t)
  BY <1>1, <1>7 DEF vars, Tick, Fail, Abort, Step
<1>8. ASSUME NEW t \in Tx, Inviting(t)
      PROVE  Steady
  <2>1. CASE \/ \E u \in User : InviteAsManager(t, u) \/ \E by \in User : InviteAsMember(t, u, by)
             \/ \E i \in Invite : Resend(t, i) \/ \E op \in Reviews : BeginReview(t, op, i)
    BY <2>1, QuietIsSteady DEF InviteAsManager, InviteAsMember, BeginInvite, Resend, BeginReview, Begin
  <2>2. QED
    BY <1>4, <1>8, <2>1 DEF Inviting, Reviews
<1>9. ASSUME NEW t \in Tx, Answering(t)
      PROVE  Steady \/ \E how \in Entrances : Enrols(t, how)
  <2>1. CASE LockUser(t) \/ \E i \in Invite :
               \/ BeginAccept(t, i) \/ BeginDecline(t, i)
               \/ \E op \in {"acceptToken", "declineToken"} : PresentToken(t, op, i)
    BY <2>1, QuietIsSteady
       DEF LockUser, BeginAccept, BeginDecline, PresentToken, Begin, Step, Abort
  <2>2. QED
    BY <1>2, <1>4, <1>9, <2>1 DEF Answering
<1>10. ASSUME NEW t \in Tx, JoiningOpenly(t) \/ Requesting(t) \/ Placing(t) \/ LockRows(t)
      PROVE  Steady \/ Founds(t) \/ \E how \in Entrances : Enrols(t, how)
  <2>1. CASE Redeem(t) \/ SelfJoin(t) \/ PlaceMapped(t) \/ GrantAutomatically(t)
             \/ ApproveRequest(t)
    BY <2>1, ComingEnrols
  <2>2. CASE RequestAccess(t) \/ PlaceApart(t)
    BY <1>5, <2>2, PlaceApartFounds
  <2>3. CASE \/ LockRows(t) \/ LockOwnRows(t) \/ LookForRows(t)
             \/ \E r \in Request : BeginApproveRequest(t, r)
    BY <2>3, QuietIsSteady
       DEF LockRows, LockOwnRows, LookForRows, Step, Abort, BeginApproveRequest, Begin
  <2>4. ASSUME NEW u \in User,
               \/ BeginRedeem(t, u) \/ BeginSelfJoin(t, u) \/ BeginRequestAccess(t, u)
               \/ BeginAutoGrant(t, u) \/ BeginRequiredTeam(t, u)
               \/ \E op \in {"placeMapped", "placeOwn"} : BeginPlacement(t, op, u)
        PROVE  Steady
    BY <2>4, QuietIsSteady
       DEF BeginRedeem, BeginSelfJoin, BeginRequestAccess, BeginAutoGrant,
           BeginRequiredTeam, BeginPlacement, Begin
  <2>5. QED
    BY <1>10, <2>1, <2>2, <2>3, <2>4 DEF JoiningOpenly, Requesting, Placing
<1>11. QED
  BY <1>3, <1>6, <1>7, <1>8, <1>9, <1>10 DEF Next

----------------------------------------------------------------------------
(* Invitations and the link behind the memberships. *)

LEMMA AcceptedStays ==
  ASSUME Base, [Next]_vars
  PROVE  \A i \in Invite : db.inv[i].accepted # None =>
                           db'.inv[i].accepted = db.inv[i].accepted
BY NextKeepsBase DEF Kept, Final, IsTerminal

(* A membership that an invitation made has that invitation accepted by    *)
(* the same user.                                                          *)
THEOREM InvitationsExplainThem == Spec => []InvitesExplainMembers
<1>1. Init => InvitesExplainMembers
  BY DEF Init, InvitesExplainMembers, NoCause
<1>2. ASSUME Base, InvitesExplainMembers, [Next]_vars
      PROVE  InvitesExplainMembers'
  <2> SUFFICES ASSUME NEW u \in User, db'.via[u].how = "invite"
               PROVE  \E i \in Invite : i = db'.via[u].ref /\ db'.inv[i].accepted = u
    BY DEF InvitesExplainMembers
  <2>1. CASE db'.via[u] = db.via[u]
    <3>1. PICK i \in Invite : i = db.via[u].ref /\ db.inv[i].accepted = u
      BY <1>2, <2>1 DEF InvitesExplainMembers
    <3>2. QED
      BY <1>2, <2>1, <3>1, AcceptedStays, JoiningAssumption
  <2>2. ASSUME NEW t \in Tx, NEW how \in Entrances, Enrols(t, how), db'.via[u] # db.via[u]
        PROVE  \E i \in Invite : i = db'.via[u].ref /\ db'.inv[i].accepted = u
    <3>1. u = tx[t].who /\ db'.via[u] = [how |-> how, ref |-> tx[t].ref]
      BY <2>2 DEF Enrols, Entered
    <3>2. QED
      BY <2>2, <3>1 DEF Enrols
  <2>3. QED
    BY <1>2, <2>1, <2>2, MembershipSteps DEF Steady, Founds, Expels
<1>3. QED
  BY <1>1, <1>2, BaseHolds, PTL DEF Spec

(* No way in brings back a member the organisation removed. *)
THEOREM RemovedMembersStayRemoved == Spec => TombstonesStay
<1>1. ASSUME Base, [Next]_vars, NEW u \in User, db.om[Home][u] = "GONE"
      PROVE  db'.om[Home][u] = "GONE"
  <2>0. db.om \in [Slot -> [User -> Standing]] /\ Home \in Slot
    BY <1>1, FieldsTyped DEF Base, Slot
  <2>1. ASSUME NEW t \in Tx, NEW how \in Entrances, Enrols(t, how)
        PROVE  db'.om[Home][u] = "GONE"
    BY <1>1, <2>0, <2>1 DEF Enrols, Entered, CanEnrol
  <2>2. ASSUME NEW t \in Tx, Founds(t)
        PROVE  db'.om[Home][u] = "GONE"
    BY <1>1, <2>0, <2>2, JoiningAssumption DEF Founds
  <2>3. ASSUME NEW v \in User, Expels(v)
        PROVE  db'.om[Home][u] = "GONE"
    BY <1>1, <2>0, <2>3 DEF Expels
  <2>4. QED
    BY <1>1, <2>1, <2>2, <2>3, MembershipSteps DEF Steady
<1>2. Base /\ [Next]_vars =>
        [\A u \in User : db.om[Home][u] = "GONE" => db'.om[Home][u] = "GONE"]_vars
  BY <1>1
<1>3. QED
  BY <1>2, BaseHolds, PTL DEF Spec, TombstonesStay

(* Nobody enters by a revoked link. *)
THEOREM RevocationClosesTheLink == Spec => RevokedLinkIsDead
<1>1. ASSUME Base, [Next]_vars, db.link.revoked, NEW u \in User, db'.via[u].how = "link"
      PROVE  db.via[u].how = "link"
  <2>1. ASSUME NEW t \in Tx, NEW how \in Entrances, Enrols(t, how), db'.via[u] # db.via[u]
        PROVE  FALSE
    <3>1. db'.via[u] = [how |-> how, ref |-> tx[t].ref]
      BY <2>1 DEF Enrols, Entered
    <3>2. QED
      BY <1>1, <2>1, <3>1 DEF Enrols, LinkValid
  <2>2. QED
    BY <1>1, <2>1, MembershipSteps DEF Steady, Founds, Expels
<1>2. Base /\ [Next]_vars =>
        [db.link.revoked => \A u \in User : db'.via[u].how = "link" => db.via[u].how = "link"]_vars
  BY <1>1
<1>3. QED
  BY <1>2, BaseHolds, PTL DEF Spec, RevokedLinkIsDead

Led(via) == {u \in User : via[u].how = "link"}

LEMMA LedIsFinite == \A via : IsFiniteSet(Led(via)) /\ Cardinality(Led(via)) \in Nat
<1> SUFFICES ASSUME NEW via PROVE IsFiniteSet(Led(via)) /\ Cardinality(Led(via)) \in Nat
  OBVIOUS
<1>1. Led(via) \in SUBSET User /\ IsFiniteSet(User)
  BY JoiningAssumption DEF Led
<1>2. IsFiniteSet(Led(via))
  BY <1>1, FS_Subset
<1>3. QED
  BY <1>2, FS_CardinalityType

LEMMA OneMore ==
  ASSUME NEW S, NEW x, IsFiniteSet(S)
  PROVE  IsFiniteSet(S \cup {x}) /\ Cardinality(S \cup {x}) <= Cardinality(S) + 1
<1>1. Cardinality(S) \in Nat
  BY FS_CardinalityType
<1>2. QED
  BY <1>1, FS_AddElement

LEMMA SubsetIsSmaller ==
  ASSUME NEW S, NEW T, IsFiniteSet(S), T \subseteq S
  PROVE  Cardinality(T) <= Cardinality(S)
BY FS_Subset

(* The link admits no more users than it has uses. *)
THEOREM TheLinkAdmitsFew == Spec => []LinkAdmitsFew
<1>1. Init => LinkAdmitsFew
  <2> SUFFICES ASSUME Init PROVE LinkAdmitsFew
    OBVIOUS
  <2>1. Led(db.via) = {} /\ db.link.uses = 0
    BY DEF Init, NoCause, Led
  <2>2. LinkAdmitsFew <=> db.link.uses <= LinkUses /\ Cardinality(Led(db.via)) <= db.link.uses
    BY DEF LinkAdmitsFew, Led
  <2>3. QED
    BY <2>1, <2>2, FS_EmptySet, JoiningAssumption
<1>2. ASSUME Base, LinkAdmitsFew, [Next]_vars
      PROVE  LinkAdmitsFew'
  <2>0. db.link.uses \in Nat
    BY <1>2, FieldsTyped DEF Base
  <2>1. db.link.uses <= LinkUses /\ Cardinality(Led(db.via)) <= db.link.uses
    BY <1>2 DEF LinkAdmitsFew, Led
  <2>2. ASSUME db'.link.uses <= LinkUses, Cardinality(Led(db'.via)) <= db'.link.uses
        PROVE  LinkAdmitsFew'
    BY <2>2 DEF LinkAdmitsFew, Led
  <2>3. CASE Led(db'.via) \subseteq Led(db.via) /\ db'.link.uses = db.link.uses
    <3>1. Cardinality(Led(db'.via)) <= Cardinality(Led(db.via))
      BY <2>3, LedIsFinite, SubsetIsSmaller
    <3>2. QED
      BY <2>0, <2>1, <2>2, <2>3, <3>1, LedIsFinite
  <2>4. ASSUME NEW t \in Tx, Enrols(t, "link")
        PROVE  LinkAdmitsFew'
    <3> DEFINE more == Led(db.via) \cup {tx[t].who}
    <3>1. Led(db'.via) \subseteq more
      BY <2>4 DEF Enrols, Entered, Led
    <3>2. IsFiniteSet(more) /\ Cardinality(more) <= Cardinality(Led(db.via)) + 1
      BY LedIsFinite, OneMore
    <3>3. Cardinality(more) \in Nat
      BY <3>2, FS_CardinalityType
    <3>4. Cardinality(Led(db'.via)) <= Cardinality(more)
      BY <3>1, <3>2, SubsetIsSmaller
    <3>5. db.link.uses < LinkUses /\ db'.link.uses = db.link.uses + 1
      BY <2>4 DEF Enrols, LinkValid
    <3> HIDE DEF more
    <3>6. Cardinality(Led(db.via)) \in Nat /\ Cardinality(Led(db'.via)) \in Nat
      BY LedIsFinite
    <3>7. QED
      BY <2>0, <2>1, <2>2, <3>2, <3>3, <3>4, <3>5, <3>6, JoiningAssumption
  <2>5. ASSUME NEW t \in Tx, NEW how \in Entrances \ {"link"}, Enrols(t, how)
        PROVE  Led(db'.via) \subseteq Led(db.via) /\ db'.link.uses = db.link.uses
    BY <2>5 DEF Enrols, Entered, Led
  <2>6. CASE \/ Steady \/ \E t \in Tx : Founds(t)
             \/ \E u \in User : Expels(u)
    BY <2>3, <2>6 DEF Steady, Founds, Expels
  <2>7. QED
    BY <1>2, <2>3, <2>4, <2>5, <2>6, MembershipSteps
<1>3. QED
  BY <1>1, <1>2, BaseHolds, PTL DEF Spec

(* What was decided stands: answers, the revocation of the link, removals. *)
THEOREM DecisionsAreFinal == Spec => DecisionsStand
<1>1. QED
  BY AnswersAreFinal, RevocationClosesTheLink, RemovedMembersStayRemoved, PTL
     DEF DecisionsStand

----------------------------------------------------------------------------
(* How the connections change: one ends, or moves on without writing, and  *)
(* what it has read by then fits the tables.  A transaction that records a *)
(* request is alone with its user, so that nobody else writes one down; a  *)
(* redemption that found an ACTIVE membership holds its row; a team is     *)
(* placed under an organisation that exists.                               *)

Ready(x) ==
  /\ x.op = "requestAccess" => x.pc = "commit" /\ (x.found \/ PendingOf(x.who) = {})
  /\ x.op = "redeem" /\ x.pc = "commit" =>
       x.addOrg \/ (db.om[Home][x.who] = "ACTIVE" /\ x.held # {})
  /\ x.org # None => x.org \in Slot /\ db.orgOf[x.org] # None
AllReady == \A t \in Tx : Ready(tx[t])

Asks(t) == tx[t].op = "requestAccess"
OneAsks == \A s, t \in Tx : Asks(s) /\ Asks(t) /\ tx[s].who = tx[t].who => s = t

(* Who is in an organisation is in one that exists. *)
Settled ==
  /\ db.orgOf[Home] = Home
  /\ \A o \in Slot, u \in User : db.om[o][u] # "NONE" => db.orgOf[o] # None

Moves(t) == \E x : /\ tx' = [tx EXCEPT ![t] = x] /\ db' = db
                   /\ Ready(x)
                   /\ x.op = "requestAccess" => UserFree(x.who)
Ends(t)  == tx' = [tx EXCEPT ![t] = Idle]

LEMMA BeginMoves ==
  ASSUME NEW t \in Tx, NEW x, Begin(t, x), x.org = None,
         x.op # "requestAccess", x.op = "redeem" => x.pc # "commit"
  PROVE  Moves(t)
BY DEF Begin, Moves, Ready

LEMMA InvitingMoves ==
  ASSUME NEW t \in Tx
  PROVE  /\ \A u \in User : InviteAsManager(t, u) => Moves(t)
         /\ \A u, by \in User : InviteAsMember(t, u, by) => Moves(t)
         /\ \A i \in Invite : Resend(t, i) => Moves(t)
         /\ \A i \in Invite, op \in Reviews : BeginReview(t, op, i) => Moves(t)
<1>1. ASSUME NEW u, NEW a, BeginInvite(t, u, a)
      PROVE  Moves(t)
  <2> DEFINE some == \E i \in Invite : IsActionable(db.inv[i]) /\ db.inv[i].who = u
             x == [Idle EXCEPT !.op = "invite", !.pc = "commit", !.who = u, !.at = now,
                     !.approval = a, !.found = some]
  <2>1. Begin(t, x)
    BY <1>1 DEF BeginInvite
  <2>2. x.op = "invite" /\ x.org = None
    BY DEF Idle
  <2> HIDE DEF x
  <2>3. QED
    BY <2>1, <2>2, BeginMoves
<1>2. ASSUME NEW i \in Invite, Resend(t, i)
      PROVE  Moves(t)
  <2> DEFINE x == [Idle EXCEPT !.op = "invite", !.pc = "commit", !.who = db.inv[i].who,
                     !.at = now, !.found = TRUE]
  <2>1. Begin(t, x)
    BY <1>2 DEF Resend
  <2>2. x.op = "invite" /\ x.org = None
    BY DEF Idle
  <2> HIDE DEF x
  <2>3. QED
    BY <2>1, <2>2, BeginMoves
<1>3. ASSUME NEW i \in Invite, NEW op \in Reviews, BeginReview(t, op, i)
      PROVE  Moves(t)
  <2> DEFINE x == [Idle EXCEPT !.op = op, !.pc = "commit", !.ref = i]
  <2>1. Begin(t, x)
    BY <1>3 DEF BeginReview
  <2>2. x.op \in Reviews /\ x.org = None
    BY DEF Idle
  <2> HIDE DEF x
  <2>3. QED
    BY <2>1, <2>2, BeginMoves DEF Reviews
<1>4. QED
  BY <1>1, <1>2, <1>3 DEF InviteAsManager, InviteAsMember

LEMMA AnsweringMoves ==
  ASSUME NEW t \in Tx, NEW i \in Invite
  PROVE  /\ BeginAccept(t, i) => Moves(t)
         /\ BeginDecline(t, i) => Moves(t)
         /\ \A op \in {"acceptToken", "declineToken"} : PresentToken(t, op, i) => Moves(t)
<1>1. ASSUME NEW op \in Answers, NEW pc \in {"lock", "rows", "commit"},
             Begin(t, [Idle EXCEPT !.op = op, !.pc = pc, !.who = db.inv[i].who, !.ref = i])
      PROVE  Moves(t)
  <2> DEFINE x == [Idle EXCEPT !.op = op, !.pc = pc, !.who = db.inv[i].who, !.ref = i]
  <2>1. x.op \in Answers /\ x.org = None
    BY DEF Idle
  <2>2. Begin(t, x)
    BY <1>1
  <2> HIDE DEF x
  <2>3. QED
    BY <2>1, <2>2, BeginMoves DEF Answers
<1>2. BeginAccept(t, i) => Moves(t)
  BY <1>1 DEF BeginAccept, Answers
<1>3. BeginDecline(t, i) => Moves(t)
  BY <1>1 DEF BeginDecline, Answers
<1>4. ASSUME NEW op \in {"acceptToken", "declineToken"}, PresentToken(t, op, i)
      PROVE  Moves(t)
  BY <1>1, <1>4 DEF PresentToken, Answers
<1>5. QED
  BY <1>2, <1>3, <1>4

LEMMA ComingMoves ==
  ASSUME NEW t \in Tx, NEW u \in User
  PROVE  /\ BeginRedeem(t, u) => Moves(t)
         /\ BeginSelfJoin(t, u) => Moves(t)
         /\ BeginRequestAccess(t, u) => Moves(t)
         /\ BeginAutoGrant(t, u) => Moves(t)
<1>1. ASSUME BeginRedeem(t, u) PROVE Moves(t)
  <2> DEFINE x == [Idle EXCEPT !.op = "redeem", !.pc = "rows", !.who = u, !.at = now]
  <2>1. Begin(t, x)
    BY <1>1 DEF BeginRedeem
  <2>2. x.op = "redeem" /\ x.pc = "rows" /\ x.org = None
    BY DEF Idle
  <2> HIDE DEF x
  <2>3. QED
    BY <2>1, <2>2, BeginMoves
<1>2. ASSUME BeginSelfJoin(t, u) PROVE Moves(t)
  <2> DEFINE x == [Idle EXCEPT !.op = "selfJoin", !.pc = "rows", !.who = u]
  <2>1. Begin(t, x)
    BY <1>2 DEF BeginSelfJoin
  <2>2. x.op = "selfJoin" /\ x.org = None
    BY DEF Idle
  <2> HIDE DEF x
  <2>3. QED
    BY <2>1, <2>2, BeginMoves
<1>3. ASSUME BeginRequestAccess(t, u) PROVE Moves(t)
  <2> DEFINE some == PendingOf(u) # {}
             x == [Idle EXCEPT !.op = "requestAccess", !.pc = "commit", !.who = u,
                     !.found = some]
  <2>1. Begin(t, x) /\ UserFree(u)
    BY <1>3 DEF BeginRequestAccess
  <2>2. /\ x.op = "requestAccess" /\ x.pc = "commit" /\ x.who = u /\ x.org = None
        /\ x.found = some
    BY DEF Idle
  <2> HIDE DEF x
  <2>3. Ready(x)
    BY <2>2 DEF Ready
  <2>4. QED
    BY <2>1, <2>2, <2>3 DEF Begin, Moves
<1>4. ASSUME BeginAutoGrant(t, u) PROVE Moves(t)
  <2> DEFINE x == [Idle EXCEPT !.op = "autoGrant", !.pc = "rows", !.who = u]
  <2>1. Begin(t, x)
    BY <1>4 DEF BeginAutoGrant
  <2>2. x.op = "autoGrant" /\ x.org = None
    BY DEF Idle
  <2> HIDE DEF x
  <2>3. QED
    BY <2>1, <2>2, BeginMoves
<1>5. QED
  BY <1>1, <1>2, <1>3, <1>4

LEMMA PlacingMoves ==
  ASSUME Settled, NEW t \in Tx
  PROVE  /\ \A r \in Request : BeginApproveRequest(t, r) => Moves(t)
         /\ \A u \in User, op \in {"placeMapped", "placeOwn"} : BeginPlacement(t, op, u) => Moves(t)
         /\ \A u \in User : BeginRequiredTeam(t, u) => Moves(t)
<1>1. ASSUME NEW r \in Request, BeginApproveRequest(t, r) PROVE Moves(t)
  <2> DEFINE x == [Idle EXCEPT !.op = "approveRequest", !.pc = "rows", !.who = db.req[r].who,
                     !.ref = r]
  <2>1. Begin(t, x)
    BY <1>1 DEF BeginApproveRequest
  <2>2. x.op = "approveRequest" /\ x.org = None
    BY DEF Idle
  <2> HIDE DEF x
  <2>3. QED
    BY <2>1, <2>2, BeginMoves
<1>2. ASSUME NEW u \in User, NEW op \in {"placeMapped", "placeOwn"}, BeginPlacement(t, op, u)
      PROVE  Moves(t)
  <2> DEFINE mapped == op = "placeMapped"
             x == [Idle EXCEPT !.op = op, !.pc = "commit", !.who = u,
                     !.addOrg = mapped, !.addTeam = mapped]
  <2>1. Begin(t, x)
    BY <1>2 DEF BeginPlacement
  <2>2. x.op = op /\ x.org = None
    BY DEF Idle
  <2> HIDE DEF x
  <2>3. QED
    BY <2>1, <2>2, BeginMoves
<1>3. ASSUME NEW u \in User, BeginRequiredTeam(t, u) PROVE Moves(t)
  <2>1. PICK o \in SeenOrg(u) :
          Begin(t, [Idle EXCEPT !.op = "requiredTeam", !.pc = "commit", !.who = u, !.org = o])
    BY <1>3 DEF BeginRequiredTeam
  <2>2. ASSUME o # None
        PROVE  o \in Slot /\ db.orgOf[o] # None
    <3>1. o \in Memberships(u)
      BY <2>2 DEF SeenOrg
    <3>2. QED
      BY <3>1 DEF Memberships, Settled
  <2> DEFINE x == [Idle EXCEPT !.op = "requiredTeam", !.pc = "commit", !.who = u, !.org = o]
  <2>3. x.op = "requiredTeam" /\ x.org = o
    BY DEF Idle
  <2>4. Begin(t, x)
    BY <2>1
  <2> HIDE DEF x
  <2>5. Ready(x)
    BY <2>2, <2>3 DEF Ready
  <2>6. QED
    BY <2>3, <2>4, <2>5 DEF Begin, Moves
<1>4. QED
  BY <1>1, <1>2, <1>3

LEMMA DecidedFields ==
  ASSUME Base, NEW t \in Tx, NEW o, NEW held
  PROVE  LET d == Decided(t, o)  h == [d EXCEPT !.held = held] IN
         /\ d.op = tx[t].op /\ d.who = tx[t].who /\ d.org = tx[t].org
         /\ h.op = tx[t].op /\ h.who = tx[t].who /\ h.org = tx[t].org
         /\ h.held = held /\ h.addOrg = (o = None)
<1>1. tx[t] \in TxRecord
  BY FieldsTyped DEF Base
<1> DEFINE none == o = None
           team == db.tm[Home][tx[t].who] = "NONE"
           wake == tx[t].op \in {"redeem", "selfJoin"} /\ db.tm[Home][tx[t].who] = "GONE"
           d == [tx[t] EXCEPT !.pc = "commit", !.addOrg = none, !.addTeam = team, !.wake = wake]
           h == [d EXCEPT !.held = held]
<1>2. Decided(t, o) = d
  BY DEF Decided
<1> HIDE DEF none, team, wake
<1>3. /\ d.op = tx[t].op /\ d.who = tx[t].who /\ d.org = tx[t].org
      /\ h.op = tx[t].op /\ h.who = tx[t].who /\ h.org = tx[t].org
      /\ h.held = held /\ h.addOrg = none
  BY <1>1 DEF TxRecord
<1> HIDE DEF d
<1>4. QED
  BY <1>2, <1>3 DEF none

LEMMA LocksMove ==
  ASSUME Base, AllReady, NEW t \in Tx,
         LockRows(t) \/ LockOwnRows(t) \/ LookForRows(t) \/ LockUser(t)
  PROVE  Moves(t) \/ Ends(t)
<1> DEFINE u == tx[t].who
<1>0. Ready(tx[t]) /\ tx[t] \in TxRecord
  BY FieldsTyped DEF AllReady, Base
<1>1. ASSUME NEW x, Step(t, x), x.org = tx[t].org, x.op # "requestAccess",
             x.op = "redeem" /\ x.pc = "commit" =>
               x.addOrg \/ (db.om[Home][x.who] = "ACTIVE" /\ x.held # {})
      PROVE  Moves(t)
  BY <1>0, <1>1 DEF Moves, Ready, Step
<1>2. CASE LockRows(t)
  <2>1. PICK o \in SeenOrg(u) :
          IF o \in {None, Home} /\ (tx[t].op = "redeem" /\ o = Home => db.om[Home][u] = "ACTIVE")
          THEN Step(t, [Decided(t, o) EXCEPT !.held = RowsOf(u)])
          ELSE Abort(t)
    BY <1>2 DEF LockRows
  <2> DEFINE d == Decided(t, o)
             h == [d EXCEPT !.held = RowsOf(u)]
  <2>2. /\ h.op = tx[t].op /\ h.who = u /\ h.org = tx[t].org
        /\ h.held = RowsOf(u) /\ h.addOrg = (o = None)
    BY DecidedFields
  <2>3. db.om[Home][u] = "ACTIVE" => "org" \in RowsOf(u)
    BY DEF RowsOf
  <2>4. tx[t].op # "requestAccess"
    BY <1>2 DEF LockRows
  <2>5. CASE Abort(t)
    BY <2>5 DEF Abort, Step, Ends
  <2>6. CASE Step(t, h) /\ (tx[t].op = "redeem" => o = None \/ db.om[Home][u] = "ACTIVE")
    <3> HIDE DEF d, h
    <3>1. h.op = "redeem" => h.addOrg \/ (db.om[Home][h.who] = "ACTIVE" /\ h.held # {})
      BY <2>2, <2>3, <2>6
    <3>2. QED
      BY <1>1, <2>2, <2>4, <2>6, <3>1
  <2>7. QED
    BY <2>1, <2>5, <2>6
<1>3. CASE LockOwnRows(t)
  <2> DEFINE d == Decided(t, Home)
             h == [d EXCEPT !.held = RowsOf(u)]
  <2>1. h.op = tx[t].op /\ h.org = tx[t].org
    BY DecidedFields
  <2>2. tx[t].op = "selfJoin" /\ (Abort(t) \/ Step(t, h))
    BY <1>3 DEF LockOwnRows, At
  <2> HIDE DEF d, h
  <2>3. QED
    BY <1>1, <2>1, <2>2 DEF Abort, Step, Ends
<1>4. CASE LookForRows(t)
  <2>1. PICK o \in SeenOrg(u) : Step(t, Decided(t, o)) \/ Abort(t)
    BY <1>4 DEF LookForRows
  <2>2. Decided(t, o).op = tx[t].op /\ Decided(t, o).org = tx[t].org
    BY DecidedFields
  <2>3. tx[t].op \in {"approveRequest", "autoGrant"}
    BY <1>4 DEF LookForRows
  <2>4. QED
    BY <1>1, <2>1, <2>2, <2>3 DEF Abort, Step, Ends
<1>5. CASE LockUser(t)
  <2> DEFINE c == [tx[t] EXCEPT !.pc = "commit"]
             r == [tx[t] EXCEPT !.pc = "rows"]
  <2>1. /\ c.op = tx[t].op /\ c.org = tx[t].org
        /\ r.op = tx[t].op /\ r.org = tx[t].org /\ r.pc = "rows"
    BY <1>0 DEF TxRecord
  <2>2. \/ tx[t].op = "declineToken" /\ Step(t, c)
        \/ Step(t, r) \/ Abort(t)
    BY <1>5 DEF LockUser
  <2>3. tx[t].op # "requestAccess"
    BY <1>0, <1>5 DEF LockUser, Ready
  <2> HIDE DEF c, r
  <2>4. QED
    BY <1>1, <2>1, <2>2, <2>3 DEF Abort, Step, Ends
<1>6. QED
  BY <1>2, <1>3, <1>4, <1>5

LEMMA TxSteps ==
  ASSUME Base, AllReady, Settled, [Next]_vars
  PROVE  tx' = tx \/ \E t \in Tx : Ends(t) \/ Moves(t)
<1>1. ASSUME \/ UNCHANGED vars \/ Tick \/ CreateLink \/ RevokeLink
             \/ \E p \in Policy : SetPolicy(p)
             \/ \E r \in Request : RejectRequest(r)
             \/ \E u \in User : Remove(u)
      PROVE  tx' = tx
  <2>1. ASSUME NEW u \in User, Remove(u)
        PROVE  tx' = tx
    BY <2>1 DEF Remove
  <2>2. QED
    BY <1>1, <2>1 DEF vars, Tick, CreateLink, RevokeLink, SetPolicy, RejectRequest
<1>2. ASSUME NEW t \in Tx, Inviting(t)
      PROVE  Ends(t) \/ Moves(t)
  <2>1. CASE IssueInvite(t) \/ Approve(t) \/ Deny(t) \/ Revoke(t)
    BY <2>1 DEF IssueInvite, Approve, Deny, Revoke, Commit, Ends
  <2>2. QED
    BY <1>2, <2>1, InvitingMoves DEF Inviting, Reviews
<1>3. ASSUME NEW t \in Tx, Answering(t)
      PROVE  Ends(t) \/ Moves(t)
  <2>1. CASE Accept(t) \/ Decline(t)
    BY <2>1 DEF Accept, Decline, Commit, Ends
  <2>2. QED
    BY <1>3, <2>1, AnsweringMoves, LocksMove DEF Answering
<1>4. ASSUME NEW t \in Tx, JoiningOpenly(t)
      PROVE  Ends(t) \/ Moves(t)
  <2>1. CASE Redeem(t) \/ SelfJoin(t)
    BY <2>1 DEF Redeem, SelfJoin, Commit, Ends
  <2>2. QED
    BY <1>4, <2>1, ComingMoves, LocksMove DEF JoiningOpenly
<1>5. ASSUME NEW t \in Tx, Requesting(t)
      PROVE  Ends(t) \/ Moves(t)
  <2>1. CASE RequestAccess(t) \/ ApproveRequest(t) \/ GrantAutomatically(t)
    BY <2>1 DEF RequestAccess, ApproveRequest, GrantAutomatically, Commit, Ends
  <2>2. QED
    BY <1>5, <2>1, ComingMoves, PlacingMoves, LocksMove DEF Requesting
<1>6. ASSUME NEW t \in Tx, Placing(t)
      PROVE  Ends(t) \/ Moves(t)
  <2>1. CASE PlaceMapped(t) \/ PlaceApart(t)
    BY <2>1 DEF PlaceMapped, PlaceApart, Commit, Ends
  <2>2. QED
    BY <1>6, <2>1, PlacingMoves DEF Placing
<1>7. ASSUME NEW t \in Tx, Fail(t)
      PROVE  Ends(t)
  BY <1>7 DEF Fail, Abort, Step, Ends
<1>8. QED
  BY <1>1, <1>2, <1>3, <1>4, <1>5, <1>6, <1>7, LocksMove DEF Next

----------------------------------------------------------------------------
(* How requests change: none is added but for the user of a transaction    *)
(* that found none pending.                                                *)

Fewer == \A v \in User : PendingOf(v)' \subseteq PendingOf(v)
Adds(t) ==
  /\ Ends(t) /\ Asks(t) /\ ~tx[t].found
  /\ \E k : \A v \in User :
       PendingOf(v)' \subseteq IF v = tx[t].who THEN PendingOf(v) \cup {k} ELSE PendingOf(v)

LEMMA SameRequests == db'.req = db.req => Fewer
BY DEF Fewer, PendingOf

LEMMA RequestAdds ==
  ASSUME Base, NEW t \in Tx, RequestAccess(t)
  PROVE  Fewer \/ Adds(t)
<1> DEFINE row == [who |-> tx[t].who, status |-> "PENDING"]
           k == NextRow(db.req)
           req == [db.req EXCEPT ![k] = row]
<1>1. db' = db \/ (~tx[t].found /\ db' = [db EXCEPT !.req = req])
  BY DEF RequestAccess, Commit
<1>2. CASE db' = db
  BY <1>2, SameRequests
<1>3. CASE ~tx[t].found /\ db' = [db EXCEPT !.req = req]
  <2> HIDE DEF k
  <2>1. db \in Tables /\ db.req \in [Request -> [who : User \cup {None},
                                       status : {"PENDING", "APPROVED", "REJECTED"}]]
    BY FieldsTyped DEF Base, TypeOK
  <2>2. \A r \in Request : req[r] = IF r = k THEN row ELSE db.req[r]
    BY <2>1
  <2> HIDE DEF req
  <2>3. db'.req = req
    BY <1>3, <2>1 DEF Tables
  <2>4. \A v \in User :
          PendingOf(v)' \subseteq IF v = tx[t].who THEN PendingOf(v) \cup {k} ELSE PendingOf(v)
    <3> SUFFICES ASSUME NEW v \in User, NEW r \in PendingOf(v)'
                 PROVE  r \in PendingOf(v) \/ (v = tx[t].who /\ r = k)
      OBVIOUS
    <3>1. r \in Request /\ req[r] = [who |-> v, status |-> "PENDING"]
      BY <2>3 DEF PendingOf
    <3>2. CASE r = k
      BY <2>2, <3>1, <3>2
    <3>3. CASE r # k
      BY <2>2, <3>1, <3>3 DEF PendingOf
    <3>4. QED
      BY <3>2, <3>3
  <2>5. Ends(t) /\ Asks(t)
    BY DEF RequestAccess, At, Commit, Ends, Asks
  <2>6. QED
    BY <1>3, <2>4, <2>5 DEF Adds
<1>4. QED
  BY <1>1, <1>2, <1>3

(* Reviewed requests are not pending any more. *)
LEMMA ReviewedFewer ==
  ASSUME Base, NEW r \in Request, NEW status \in {"APPROVED", "REJECTED"},
         db'.req = [db.req EXCEPT ![r].status = status]
  PROVE  Fewer
<1>1. db.req \in [Request -> [who : User \cup {None}, status : {"PENDING", "APPROVED", "REJECTED"}]]
  BY FieldsTyped DEF Base
<1>2. /\ \A q \in Request \ {r} : db'.req[q] = db.req[q]
      /\ db'.req[r].status = status
  BY <1>1
<1> SUFFICES ASSUME NEW v \in User, NEW q \in Request,
                    db'.req[q] = [who |-> v, status |-> "PENDING"]
             PROVE  db.req[q] = [who |-> v, status |-> "PENDING"]
  BY DEF Fewer, PendingOf
<1>3. q # r
  BY <1>2
<1>4. QED
  BY <1>2, <1>3

LEMMA RequestSteps ==
  ASSUME Base, Settled, [Next]_vars
  PROVE  Fewer \/ \E t \in Tx : Adds(t)
<1>0. db \in Tables
  BY DEF Base, TypeOK
<1>1. ASSUME NEW t \in Tx, ApproveRequest(t)
      PROVE  Fewer
  <2> DEFINE e == Enrolled(t, "request")
             req == [e.req EXCEPT ![tx[t].ref].status = "APPROVED"]
  <2>1. tx[t].ref \in Request /\ tx[t].who \in User
    BY <1>1 DEF ApproveRequest, At, Base, Sound, Reviews
  <2>2. e \in Tables /\ e.req = db.req
    BY <2>1, EnrolledFacts DEF Joined, Entry
  <2>3. db' = db \/ db' = [e EXCEPT !.req = req]
    BY <1>1 DEF ApproveRequest, Commit
  <2> HIDE DEF e
  <2>4. CASE db' = [e EXCEPT !.req = req]
    <3> HIDE DEF req
    <3>1. db'.req = req
      BY <2>2, <2>4 DEF Tables
    <3>2. QED
      BY <2>1, <2>2, <3>1, ReviewedFewer DEF req
  <2>5. QED
    BY <2>3, <2>4, SameRequests
<1>2. ASSUME NEW r \in Request, RejectRequest(r)
      PROVE  Fewer
  <2> DEFINE req == [db.req EXCEPT ![r].status = "REJECTED"]
  <2>1. db' = [db EXCEPT !.req = req]
    BY <1>2 DEF RejectRequest
  <2> HIDE DEF req
  <2>2. db'.req = req
    BY <1>0, <2>1 DEF Tables
  <2>3. QED
    BY <2>2, ReviewedFewer DEF req
<1>3. ASSUME NEW t \in Tx, IssueInvite(t) \/ Approve(t) \/ Deny(t) \/ Revoke(t) \/ Decline(t)
      PROVE  db'.req = db.req
  <2>1. \E inv : db' = [db EXCEPT !.inv = inv] \/ db' = db
    BY <1>3 DEF IssueInvite, Approve, Deny, Revoke, Decline, Commit
  <2>2. QED
    BY <1>0, <2>1 DEF Tables
<1>4. ASSUME NEW t \in Tx, NEW how \in Entry, NEW ok, NEW inv, NEW link,
             tx[t].who \in User,
             LET e == Enrolled(t, how) IN
             \/ Commit(t, ok, e) \/ Commit(t, ok, [e EXCEPT !.inv = inv])
             \/ Commit(t, ok, [e EXCEPT !.link = link])
      PROVE  db'.req = db.req
  <2> DEFINE e == Enrolled(t, how)
  <2>1. e \in Tables /\ e.req = db.req
    BY <1>4, EnrolledFacts DEF Joined
  <2>2. db' = db \/ db' = e \/ db' = [e EXCEPT !.inv = inv] \/ db' = [e EXCEPT !.link = link]
    BY <1>4 DEF Commit
  <2> HIDE DEF e
  <2>3. QED
    BY <2>1, <2>2 DEF Tables
<1>5. ASSUME NEW t \in Tx, Accept(t)
      PROVE  db'.req = db.req
  <2> DEFINE e == Enrolled(t, "invite")
             row == db.inv[tx[t].ref]
             inv == [e.inv EXCEPT ![tx[t].ref] =
                       [row EXCEPT !.accepted = tx[t].who,
                          !.token = IF tx[t].op = "acceptToken" THEN "used" ELSE row.token]]
  <2>1. tx[t].who \in User
    BY <1>5 DEF Accept, Base, Sound, Reviews
  <2>2. \E ok : Commit(t, ok, [e EXCEPT !.inv = inv])
    BY <1>5 DEF Accept
  <2> HIDE DEF inv
  <2>3. QED
    BY <1>4, <2>1, <2>2 DEF Entry
<1>6. ASSUME NEW t \in Tx, Redeem(t)
      PROVE  db'.req = db.req
  <2> DEFINE e == Enrolled(t, "link")
             link == [e.link EXCEPT !.uses = @ + 1]
  <2>1. tx[t].who \in User
    BY <1>6 DEF Redeem, At, Base, Sound, Reviews
  <2>2. \E ok : Commit(t, ok, [e EXCEPT !.link = link])
    BY <1>6 DEF Redeem
  <2> HIDE DEF link
  <2>3. QED
    BY <1>4, <2>1, <2>2 DEF Entry
<1>7. ASSUME NEW t \in Tx, SelfJoin(t) \/ PlaceMapped(t) \/ GrantAutomatically(t)
      PROVE  db'.req = db.req
  <2>1. tx[t].who \in User
    BY <1>7 DEF SelfJoin, PlaceMapped, GrantAutomatically, At, Base, Sound, Reviews
  <2>2. \E how \in Entry : \E ok : Commit(t, ok, Enrolled(t, how))
    BY <1>7 DEF SelfJoin, PlaceMapped, GrantAutomatically, Entry
  <2>3. QED
    BY <1>4, <2>1, <2>2
<1>8. ASSUME NEW t \in Tx, PlaceApart(t)
      PROVE  db'.req = db.req
  <2> DEFINE x == tx[t]
             s == CHOOSE f \in FreeSlots : TRUE
             om == [db.om EXCEPT ![s][x.who] = IF x.org = None THEN "ACTIVE" ELSE @]
             tm == [db.tm EXCEPT ![s][x.who] = "ACTIVE"]
             og == [db.orgOf EXCEPT ![s] = IF x.org = None THEN s ELSE x.org]
  <2>1. db' = [db EXCEPT !.orgOf = og, !.om = om, !.tm = tm] \/ db' = db
    BY <1>8 DEF PlaceApart, Commit
  <2> HIDE DEF og, om, tm
  <2>2. QED
    BY <1>0, <2>1 DEF Tables
<1>9. ASSUME NEW u \in User, Remove(u)
      PROVE  db'.req = db.req
  <2> DEFINE om == [db.om EXCEPT ![Home][u] = "GONE"]
             tm == [s \in Slot |-> IF db.orgOf[s] = Home /\ db.tm[s][u] # "NONE"
                                   THEN [db.tm[s] EXCEPT ![u] = "GONE"] ELSE db.tm[s]]
  <2>1. db' = [db EXCEPT !.om = om, !.tm = tm]
    BY <1>9 DEF Remove
  <2> HIDE DEF om, tm
  <2>2. QED
    BY <1>0, <2>1 DEF Tables
<1>10. ASSUME CreateLink \/ RevokeLink \/ \E p \in Policy : SetPolicy(p)
       PROVE  db'.req = db.req
  <2>1. \E link, p : db' = [db EXCEPT !.link = link] \/ db' = [db EXCEPT !.policy = p]
    BY <1>10 DEF CreateLink, RevokeLink, SetPolicy
  <2>2. QED
    BY <1>0, <2>1 DEF Tables
<1>11. CASE UNCHANGED vars \/ Tick
  BY <1>11, SameRequests DEF vars, Tick
<1>12. ASSUME NEW t \in Tx, Moves(t) \/ Fail(t)
       PROVE  Fewer
  BY <1>12, SameRequests DEF Moves, Fail, Abort, Step
<1>13. ASSUME NEW t \in Tx, LockRows(t) \/ LockOwnRows(t) \/ LookForRows(t) \/ LockUser(t)
       PROVE  db' = db
  BY <1>13 DEF LockRows, LockOwnRows, LookForRows, LockUser, Step, Abort
<1>14. ASSUME NEW t \in Tx, Inviting(t)
       PROVE  Fewer
  BY <1>3, <1>12, <1>14, InvitingMoves, SameRequests DEF Inviting, Reviews
<1>15. ASSUME NEW t \in Tx, Answering(t)
       PROVE  Fewer
  BY <1>3, <1>5, <1>12, <1>13, <1>15, AnsweringMoves, SameRequests DEF Answering
<1>16. ASSUME NEW t \in Tx, JoiningOpenly(t)
       PROVE  Fewer
  BY <1>6, <1>7, <1>12, <1>13, <1>16, ComingMoves, SameRequests DEF JoiningOpenly
<1>17. ASSUME NEW t \in Tx, Requesting(t)
       PROVE  Fewer \/ Adds(t)
  BY <1>1, <1>7, <1>12, <1>13, <1>17, ComingMoves, PlacingMoves, RequestAdds, SameRequests
     DEF Requesting
<1>18. ASSUME NEW t \in Tx, Placing(t)
       PROVE  Fewer
  BY <1>7, <1>8, <1>12, <1>18, PlacingMoves, SameRequests DEF Placing
<1>19. QED
  BY <1>2, <1>9, <1>10, <1>11, <1>12, <1>13, <1>14, <1>15, <1>16, <1>17, <1>18, SameRequests
     DEF Next

----------------------------------------------------------------------------
(* Memberships are whole, and one request is pending: what transactions    *)
(* have read stays true until they write.                                  *)

FewPending == \A u \in User : \E k : PendingOf(u) \subseteq {k}
FoundersStay == \A s \in Fresh : db.orgOf[s] = s => \E u \in User : MemberOf(s, u)
Whole ==
  /\ Base /\ AllReady /\ OneAsks /\ Settled /\ FewPending /\ GuestsAreMembers /\ FoundersStay

LEMMA WholeInitially == Init => Whole
<1> SUFFICES ASSUME Init PROVE Whole
  OBVIOUS
<1>1. AllReady /\ OneAsks
  BY DEF Init, AllReady, Ready, Idle, OneAsks, Asks
<1>2. Settled
  <2>1. /\ Home \in Slot /\ Home # None
        /\ db.orgOf = [s \in Slot |-> IF s = Home THEN Home ELSE None]
    BY JoiningAssumption DEF Init, Slot
  <2>2. \A o \in Slot, u \in User : db.om[o][u] # "NONE" => o = Home
    BY DEF Init
  <2>3. QED
    BY <2>1, <2>2 DEF Settled
<1>3. FewPending
  <2>1. \A r \in Request : db.req[r] = NoRequest
    BY DEF Init
  <2>2. \A u \in User : [who |-> u, status |-> "PENDING"] # NoRequest
    BY JoiningAssumption DEF NoRequest
  <2>3. \A u \in User : PendingOf(u) = {}
    BY <2>1, <2>2 DEF PendingOf
  <2>4. QED
    BY <2>3 DEF FewPending
<1>4. GuestsAreMembers
  BY DEF Init, GuestsAreMembers, NoCause
<1>5. FoundersStay
  <2>1. \A s \in Fresh : s # None /\ db.orgOf[s] = None
    BY JoiningAssumption DEF Init, Slot
  <2>2. QED
    BY <2>1 DEF FoundersStay
<1>6. QED
  BY <1>1, <1>2, <1>3, <1>4, <1>5, BaseInitially DEF Whole

(* An organisation that exists does not move, and a membership in Home is  *)
(* lost only while no transaction holds its rows.                          *)
LEMMA OrganisationsStay ==
  ASSUME Base, [Next]_vars
  PROVE  /\ \A s \in Slot : db.orgOf[s] # None => db'.orgOf[s] = db.orgOf[s]
         /\ \A u \in User : db.om[Home][u] = "ACTIVE" /\ ~RowsFree(u)
                              => db'.om[Home][u] = "ACTIVE"
<1>0. /\ db.om \in [Slot -> [User -> Standing]] /\ Home \in Slot /\ Home \notin Fresh
      /\ db.orgOf \in [Slot -> Slot \cup {None}]
  BY FieldsTyped, JoiningAssumption DEF Base, Slot
<1>1. ASSUME NEW t \in Tx, NEW how \in Entrances, Enrols(t, how)
      PROVE  db'.orgOf = db.orgOf /\ \A u \in User : db.om[Home][u] = "ACTIVE" => db'.om[Home][u] = "ACTIVE"
  BY <1>0, <1>1 DEF Enrols, Entered
<1>2. ASSUME NEW t \in Tx, Founds(t)
      PROVE  /\ \A s \in Slot : db.orgOf[s] # None => db'.orgOf[s] = db.orgOf[s]
             /\ \A u \in User : db'.om[Home][u] = db.om[Home][u]
  BY <1>0, <1>2 DEF Founds
<1>3. ASSUME NEW v \in User, Expels(v)
      PROVE  db'.orgOf = db.orgOf /\ RowsFree(v) /\ \A u \in User \ {v} : db'.om[Home][u] = db.om[Home][u]
  BY <1>0, <1>3 DEF Expels
<1>4. QED
  BY <1>1, <1>2, <1>3, MembershipSteps DEF Steady

LEMMA SettledStays ==
  ASSUME Whole, [Next]_vars
  PROVE  Settled'
<1>0. /\ db.om \in [Slot -> [User -> Standing]] /\ Home \in Slot /\ Home \notin Fresh
      /\ db.orgOf \in [Slot -> Slot \cup {None}] /\ Fresh \subseteq Slot /\ None \notin Slot
  BY FieldsTyped, JoiningAssumption DEF Whole, Base, Slot
<1>1. db'.orgOf[Home] = Home
  BY <1>0, OrganisationsStay DEF Whole, Settled
<1>2. ASSUME NEW o \in Slot, NEW u \in User, db'.om[o][u] # "NONE"
      PROVE  db'.orgOf[o] # None
  <2>1. CASE db.om[o][u] # "NONE"
    BY <1>0, <2>1, OrganisationsStay DEF Whole, Settled
  <2>2. CASE o = Home
    BY <1>0, <1>1, <2>2
  <2>3. ASSUME db.om[o][u] = "NONE", o # Home
        PROVE  db'.orgOf[o] # None
    <3>1. ASSUME NEW t \in Tx, Founds(t)
          PROVE  db'.orgOf[o] # None
      BY <1>0, <1>2, <2>3, <3>1 DEF Founds
    <3>2. ASSUME NEW t \in Tx, NEW how \in Entrances, Enrols(t, how)
          PROVE  FALSE
      BY <1>2, <2>3, <3>2 DEF Enrols, Entered
    <3>3. ASSUME NEW v \in User, Expels(v)
          PROVE  FALSE
      BY <1>0, <1>2, <2>3, <3>3 DEF Expels
    <3>4. QED
      BY <1>2, <2>3, <3>1, <3>2, <3>3, MembershipSteps DEF Whole, Steady
  <2>4. QED
    BY <2>1, <2>2, <2>3
<1>3. QED
  BY <1>1, <1>2 DEF Settled

LEMMA AskingStays ==
  ASSUME Whole, [Next]_vars
  PROVE  OneAsks'
<1>0. tx \in [Tx -> TxRecord]
  BY FieldsTyped DEF Whole, Base
<1>1. CASE tx' = tx
  BY <1>1 DEF Whole, OneAsks, Asks
<1>2. ASSUME NEW t \in Tx, Ends(t)
      PROVE  OneAsks'
  BY <1>0, <1>2 DEF Whole, OneAsks, Asks, Ends, Idle
<1>3. ASSUME NEW t \in Tx, Moves(t)
      PROVE  OneAsks'
  <2>1. PICK x : /\ tx' = [tx EXCEPT ![t] = x]
                 /\ x.op = "requestAccess" => UserFree(x.who)
    BY <1>3 DEF Moves
  <2>2. \A s \in Tx : Asks(s) => HoldsUser(s)
    BY DEF Whole, AllReady, Ready, Asks, HoldsUser
  <2>3. tx'[t] = x /\ \A s \in Tx \ {t} : tx'[s] = tx[s]
    BY <1>0, <2>1
  <2>4. QED
    BY <2>1, <2>2, <2>3 DEF Whole, OneAsks, Asks, UserFree
<1>4. QED
  BY <1>1, <1>2, <1>3, TxSteps DEF Whole

LEMMA PendingStays ==
  ASSUME Whole, [Next]_vars
  PROVE  FewPending'
<1>1. CASE Fewer
  BY <1>1 DEF Whole, FewPending, Fewer
<1>2. ASSUME NEW t \in Tx, Adds(t)
      PROVE  FewPending'
  <2>1. PendingOf(tx[t].who) = {}
    BY <1>2 DEF Whole, AllReady, Ready, Adds, Asks
  <2>2. PICK k : \A v \in User :
          PendingOf(v)' \subseteq IF v = tx[t].who THEN PendingOf(v) \cup {k} ELSE PendingOf(v)
    BY <1>2 DEF Adds
  <2>3. ASSUME NEW v \in User
        PROVE  \E j : PendingOf(v)' \subseteq {j}
    <3>1. CASE v = tx[t].who
      BY <2>1, <2>2, <3>1
    <3>2. CASE v # tx[t].who
      <4>1. PendingOf(v)' \subseteq PendingOf(v)
        BY <2>2, <3>2
      <4>2. PICK j : PendingOf(v) \subseteq {j}
        BY DEF Whole, FewPending
      <4>3. QED
        BY <4>1, <4>2
    <3>3. QED
      BY <3>1, <3>2
  <2>4. QED
    BY <2>3 DEF FewPending
<1>3. QED
  BY <1>1, <1>2, RequestSteps DEF Whole

(* What one transaction has read stays true while another one writes. *)
LEMMA ReadyStays ==
  ASSUME Whole, [Next]_vars
  PROVE  AllReady'
<1>0. tx \in [Tx -> TxRecord] /\ \A s \in Tx : Sound(s)
  BY FieldsTyped DEF Whole, Base
<1>1. ASSUME NEW t \in Tx, Moves(t)
      PROVE  AllReady'
  <2>1. PICK x : tx' = [tx EXCEPT ![t] = x] /\ db' = db /\ Ready(x)
    BY <1>1 DEF Moves
  <2>2. tx'[t] = x /\ \A s \in Tx \ {t} : tx'[s] = tx[s]
    BY <1>0, <2>1
  <2>3. QED
    BY <2>1, <2>2 DEF Whole, AllReady, Ready, PendingOf
<1>2. ASSUME NEW s \in Tx, tx'[s] = tx[s], Asks(s) => ~\E t \in Tx : Adds(t) /\ tx[t].who = tx[s].who
      PROVE  Ready(tx[s])'
  <2> DEFINE x == tx[s]
  <2>0. Ready(x) /\ x \in TxRecord
    BY <1>0 DEF Whole, AllReady
  <2>1. x.op = "requestAccess" => x.pc = "commit" /\ (x.found \/ PendingOf(x.who)' = {})
    <3>1. x.op = "requestAccess" => x.who \in User
      BY <1>0 DEF Sound, Reviews
    <3>2. x.op = "requestAccess" => PendingOf(x.who)' \subseteq PendingOf(x.who)
      BY <1>2, <3>1, RequestSteps DEF Fewer, Adds, Asks, Whole
    <3>3. QED
      BY <2>0, <3>2 DEF Ready
  <2>2. x.op = "redeem" /\ x.pc = "commit" =>
          x.addOrg \/ (db'.om[Home][x.who] = "ACTIVE" /\ x.held # {})
    <3>1. x.op = "redeem" => x.who \in User
      BY <1>0 DEF Sound, Reviews
    <3>2. x.held # {} => ~RowsFree(x.who)
      BY DEF RowsFree
    <3>3. QED
      BY <2>0, <3>1, <3>2, OrganisationsStay DEF Ready, Whole
  <2>3. x.org # None => x.org \in Slot /\ db'.orgOf[x.org] # None
    BY <2>0, OrganisationsStay DEF Ready, Whole
  <2>4. QED
    BY <1>2, <2>1, <2>2, <2>3 DEF Ready, PendingOf
<1>3. ASSUME NEW t \in Tx, Ends(t)
      PROVE  AllReady'
  <2>1. tx'[t] = Idle /\ \A s \in Tx \ {t} : tx'[s] = tx[s]
    BY <1>0, <1>3 DEF Ends
  <2>2. Ready(tx[t])'
    BY <2>1 DEF Ready, Idle
  <2>3. ASSUME NEW s \in Tx \ {t}, NEW r \in Tx, Asks(s), Adds(r), tx[r].who = tx[s].who
        PROVE  FALSE
    <3>1. r = s
      BY <2>3 DEF Whole, OneAsks, Adds
    <3>2. tx'[s] = Idle
      BY <1>0, <2>3, <3>1 DEF Adds, Ends
    <3>3. QED
      BY <2>1, <2>3, <3>2 DEF Asks, Idle
  <2>4. \A s \in Tx \ {t} : Ready(tx[s])'
    BY <1>2, <2>1, <2>3
  <2>5. QED
    BY <2>2, <2>4 DEF AllReady
<1>4. ASSUME tx' = tx
      PROVE  AllReady'
  <2>1. ASSUME NEW s \in Tx, NEW r \in Tx, Asks(s), Adds(r), tx[r].who = tx[s].who
        PROVE  FALSE
    <3>1. tx'[r] = Idle /\ Asks(r)
      BY <1>0, <2>1 DEF Adds, Ends
    <3>2. QED
      BY <1>4, <3>1 DEF Asks, Idle
  <2>2. \A s \in Tx : Ready(tx[s])'
    BY <1>2, <1>4, <2>1
  <2>3. QED
    BY <2>2 DEF AllReady
<1>5. QED
  BY <1>1, <1>3, <1>4, TxSteps DEF Whole

LEMMA GuestsStay ==
  ASSUME Whole, [Next]_vars
  PROVE  GuestsAreMembers'
<1>0. /\ db.om \in [Slot -> [User -> Standing]] /\ db.tm \in [Slot -> [User -> Standing]]
      /\ Home \in Slot /\ Home \notin Fresh
  BY FieldsTyped, JoiningAssumption DEF Whole, Base, Slot
<1> SUFFICES ASSUME NEW u \in User, db'.via[u].how \in {"invite", "link"},
                    db'.tm[Home][u] = "ACTIVE"
             PROVE  db'.om[Home][u] = "ACTIVE"
  BY DEF GuestsAreMembers
<1>1. db.via[u].how \in {"invite", "link"} /\ db.tm[Home][u] = "ACTIVE" => db.om[Home][u] = "ACTIVE"
  BY DEF Whole, GuestsAreMembers
<1>2. ASSUME NEW t \in Tx, NEW how \in Entrances, Enrols(t, how)
      PROVE  db'.om[Home][u] = "ACTIVE"
  <2>1. CASE u = tx[t].who /\ Joins(t)
    <3>1. db'.via[u] = [how |-> how, ref |-> tx[t].ref]
      BY <1>2, <2>1 DEF Enrols, Entered
    <3>2. how \in {"invite", "link"}
      BY <3>1
    <3>3. CASE how = "invite"
      BY <1>2, <2>1, <3>3 DEF Enrols
    <3>4. CASE how = "link"
      <4>1. tx[t].addOrg \/ db.om[Home][u] = "ACTIVE"
        BY <1>2, <2>1, <3>4 DEF Enrols, Whole, AllReady, Ready
      <4>2. QED
        BY <1>0, <1>2, <2>1, <4>1 DEF Enrols, Entered
    <3>5. QED
      BY <3>2, <3>3, <3>4
  <2>2. CASE ~(u = tx[t].who /\ Joins(t))
    BY <1>0, <1>1, <1>2, <2>2 DEF Enrols, Entered
  <2>3. QED
    BY <2>1, <2>2
<1>3. ASSUME NEW t \in Tx, Founds(t)
      PROVE  db'.om[Home][u] = "ACTIVE"
  BY <1>0, <1>1, <1>3 DEF Founds
<1>4. ASSUME NEW v \in User, Expels(v)
      PROVE  db'.om[Home][u] = "ACTIVE"
  <2>1. CASE u = v
    <3>1. db.orgOf[Home] = Home
      BY DEF Whole, Settled
    <3>2. db'.tm[Home] = IF db.tm[Home][u] # "NONE" THEN [db.tm[Home] EXCEPT ![u] = "GONE"]
                         ELSE db.tm[Home]
      BY <1>0, <1>4, <2>1, <3>1 DEF Expels
    <3>3. db'.tm[Home][u] # "ACTIVE"
      BY <1>0, <3>2
    <3>4. QED
      BY <3>3
  <2>2. CASE u # v
    BY <1>0, <1>1, <1>4, <2>2 DEF Expels
  <2>3. QED
    BY <2>1, <2>2
<1>5. QED
  BY <1>1, <1>2, <1>3, <1>4, MembershipSteps DEF Whole, Steady

LEMMA FoundersRemain ==
  ASSUME Whole, [Next]_vars
  PROVE  FoundersStay'
<1>0. /\ db.om \in [Slot -> [User -> Standing]] /\ db.tm \in [Slot -> [User -> Standing]]
      /\ db.orgOf \in [Slot -> Slot \cup {None}]
      /\ Home \in Slot /\ Home \notin Fresh /\ Fresh \subseteq Slot /\ None \notin Slot
  BY FieldsTyped, JoiningAssumption DEF Whole, Base, Slot
<1> SUFFICES ASSUME NEW s \in Fresh, db'.orgOf[s] = s
             PROVE  \E u \in User : MemberOf(s, u)'
  BY DEF FoundersStay
<1>1. ASSUME db.orgOf[s] = s
      PROVE  \E u \in User : MemberOf(s, u)
  BY <1>1 DEF Whole, FoundersStay
<1>2. ASSUME NEW t \in Tx, NEW how \in Entrances, Enrols(t, how)
      PROVE  \E u \in User : MemberOf(s, u)'
  <2>1. db.orgOf[s] = s /\ s # Home
    BY <1>0, <1>2 DEF Enrols, Entered
  <2>2. \A u \in User : MemberOf(s, u) => MemberOf(s, u)'
    BY <1>0, <1>2, <2>1 DEF Enrols, Entered, MemberOf
  <2>3. QED
    BY <1>1, <2>1, <2>2
<1>3. ASSUME NEW t \in Tx, Founds(t)
      PROVE  \E u \in User : MemberOf(s, u)'
  <2>1. PICK f \in Fresh :
          /\ db.orgOf[f] = None /\ tx[t].who \in User
          /\ db'.orgOf = [db.orgOf EXCEPT ![f] = IF tx[t].org = None THEN f ELSE tx[t].org]
          /\ db'.om = [db.om EXCEPT ![f][tx[t].who] = IF tx[t].org = None THEN "ACTIVE"
                                                      ELSE db.om[f][tx[t].who]]
          /\ db'.tm = [db.tm EXCEPT ![f][tx[t].who] = "ACTIVE"]
    BY <1>3 DEF Founds
  <2>2. CASE f = s
    <3> DEFINE u == tx[t].who
    <3>0. u \in User /\ s \in Slot
      BY <1>0, <2>1
    <3>1. db'.orgOf[s] = IF tx[t].org = None THEN s ELSE tx[t].org
      BY <1>0, <2>1, <2>2
    <3>2. tx[t].org # s
      BY <1>0, <2>1, <2>2 DEF Whole, AllReady, Ready
    <3>3. tx[t].org = None
      BY <3>1, <3>2
    <3>4. db'.om[s][u] = "ACTIVE"
      BY <1>0, <2>1, <2>2, <3>0, <3>3
    <3>5. db'.tm[s][u] = "ACTIVE"
      BY <1>0, <2>1, <2>2, <3>0
    <3>6. QED
      BY <3>0, <3>4, <3>5 DEF MemberOf
  <2>3. CASE f # s
    <3>1. db.orgOf[s] = s /\ \A u \in User : MemberOf(s, u) => MemberOf(s, u)'
      BY <1>0, <2>1, <2>3 DEF MemberOf
    <3>2. QED
      BY <1>1, <3>1
  <2>4. QED
    BY <2>2, <2>3
<1>4. ASSUME NEW v \in User, Expels(v)
      PROVE  \E u \in User : MemberOf(s, u)'
  <2>1. db.orgOf[s] = s /\ s # Home
    BY <1>0, <1>4 DEF Expels
  <2>2. \A u \in User : MemberOf(s, u) => MemberOf(s, u)'
    BY <1>0, <1>4, <2>1 DEF Expels, MemberOf
  <2>3. QED
    BY <1>1, <2>1, <2>2
<1>5. ASSUME Steady
      PROVE  \E u \in User : MemberOf(s, u)'
  BY <1>1, <1>5 DEF Steady, MemberOf
<1>6. QED
  BY <1>2, <1>3, <1>4, <1>5, MembershipSteps DEF Whole

LEMMA WholeHolds == Spec => []Whole
<1>1. Whole /\ [Next]_vars => Whole'
  BY NextKeepsBase, ReadyStays, AskingStays, SettledStays, PendingStays, GuestsStay,
     FoundersRemain DEF Whole
<1>2. QED
  BY <1>1, WholeInitially, PTL DEF Spec

(* Nobody is on the team by invitation or link without the organisation,   *)
(* a user has one organisation, and one founded keeps its founder.         *)
THEOREM EveryMembershipIsWhole == Spec => []MembershipsAreWhole
<1>1. Whole => MembershipsAreWhole
  BY DEF Whole, Base, Allowed, FoundersStay, MembershipsAreWhole, PlacementsAreWhole
<1>2. QED
  BY <1>1, WholeHolds, PTL

(* One e-mailed link works for an address, and one request is pending.     *)
THEOREM OneOfferAtATime == Spec => []OneOpenOffer
<1>1. ASSUME Whole, NEW u \in User
      PROVE  Cardinality(PendingOf(u)) <= 1
  <2>1. PICK k : PendingOf(u) \subseteq {k}
    BY <1>1 DEF Whole, FewPending
  <2>2. IsFiniteSet({k}) /\ Cardinality({k}) = 1
    BY FS_Singleton
  <2>3. QED
    BY <2>1, <2>2, SubsetIsSmaller
<1>2. Whole => OnePendingRequest
  BY <1>1 DEF OnePendingRequest
<1>3. QED
  BY <1>2, WholeHolds, OneLinkPerAddress, PTL DEF OneOpenOffer

----------------------------------------------------------------------------
(* What was denied stays denied, but for an approval that was on its way.  *)

(* No invitation is denied while it is being approved. *)
DenialsApart ==
  \A s, t \in Tx : tx[s].op = "deny" /\ tx[t].op = "approve" => tx[s].ref # tx[t].ref

Denied(i) == db.inv[i].approval = "DENIED"
StillDenied == \A i \in Invite : Denied(i) => Denied(i)'

(* What is about to be approved is not denied. *)
NoneDenied == \A t \in Tx : tx[t].op = "approve" => ~Denied(tx[t].ref)

(* Only a denial denies an invitation that was sent, and what it denies    *)
(* stays so whatever else is written.                                      *)
DeniedAsAsked(t) ==
  \A i \in Invite :
    /\ Denied(i) => Denied(i)'
    /\ Denied(i)' /\ db.inv[i].who # None => Denied(i) \/ (tx[t].op = "deny" /\ tx[t].ref = i)

(* Which transactions write invitations. *)
LEMMA InvitationSteps ==
  ASSUME Base, [Next]_vars
  PROVE  \/ db'.inv = db.inv
         \/ \E t \in Tx : \/ IssueInvite(t) \/ Approve(t) \/ Deny(t) \/ Revoke(t)
                          \/ Accept(t) \/ Decline(t)
<1>0. db \in Tables
  BY DEF Base, TypeOK
<1>1. CASE UNCHANGED vars \/ Tick
  BY <1>1 DEF vars, Tick
<1>2. CASE CreateLink \/ RevokeLink \/ \E p \in Policy : SetPolicy(p)
  BY <1>0, <1>2 DEF CreateLink, RevokeLink, SetPolicy, Tables
<1>3. ASSUME NEW r \in Request, RejectRequest(r)
      PROVE  db'.inv = db.inv
  <2> DEFINE req == [db.req EXCEPT ![r].status = "REJECTED"]
  <2>1. db' = [db EXCEPT !.req = req]
    BY <1>3 DEF RejectRequest
  <2> HIDE DEF req
  <2>2. QED
    BY <1>0, <2>1 DEF Tables
<1>4. ASSUME NEW u \in User, Remove(u)
      PROVE  db'.inv = db.inv
  <2> DEFINE om == [db.om EXCEPT ![Home][u] = "GONE"]
             tm == [s \in Slot |-> IF db.orgOf[s] = Home /\ db.tm[s][u] # "NONE"
                                   THEN [db.tm[s] EXCEPT ![u] = "GONE"] ELSE db.tm[s]]
  <2>1. db' = [db EXCEPT !.om = om, !.tm = tm]
    BY <1>4 DEF Remove
  <2> HIDE DEF om, tm
  <2>2. QED
    BY <1>0, <2>1 DEF Tables
<1>5. ASSUME NEW t \in Tx,
             Redeem(t) \/ SelfJoin(t) \/ PlaceMapped(t) \/ GrantAutomatically(t)
             \/ ApproveRequest(t)
      PROVE  db'.inv = db.inv
  <2>1. tx[t].who \in User
    BY <1>5 DEF Redeem, SelfJoin, PlaceMapped, GrantAutomatically, ApproveRequest, At, Base,
               Sound, Reviews
  <2>2. \A how \in Entry : Enrolled(t, how) \in Tables /\ Enrolled(t, how).inv = db.inv
    BY <2>1, EnrolledFacts DEF Joined
  <2>3. ASSUME NEW e \in Tables, e.inv = db.inv, NEW ok, NEW k, NEW s,
               \/ Commit(t, ok, e) \/ Commit(t, ok, [e EXCEPT !.link = k])
               \/ Commit(t, ok, [e EXCEPT !.req = s])
        PROVE  db'.inv = db.inv
    BY <2>3 DEF Commit, Tables
  <2>4. CASE Redeem(t)
    <3> DEFINE e == Enrolled(t, "link")
    <3>1. PICK ok : Commit(t, ok, [e EXCEPT !.link = [e.link EXCEPT !.uses = e.link.uses + 1]])
      BY <2>4 DEF Redeem
    <3>2. e \in Tables /\ e.inv = db.inv
      BY <2>2 DEF Entry
    <3> HIDE DEF e
    <3>3. QED
      BY <2>3, <3>1, <3>2
  <2>5. CASE ApproveRequest(t)
    <3> DEFINE e == Enrolled(t, "request")
    <3>1. PICK ok : Commit(t, ok, [e EXCEPT !.req =
                      [e.req EXCEPT ![tx[t].ref] = [e.req[tx[t].ref] EXCEPT !.status = "APPROVED"]]])
      BY <2>5 DEF ApproveRequest
    <3>2. e \in Tables /\ e.inv = db.inv
      BY <2>2 DEF Entry
    <3> HIDE DEF e
    <3>3. QED
      BY <2>3, <3>1, <3>2
  <2>6. ASSUME NEW how \in Entry, NEW ok, Commit(t, ok, Enrolled(t, how))
        PROVE  db'.inv = db.inv
    BY <2>2, <2>6 DEF Commit
  <2>7. QED
    BY <1>5, <2>4, <2>5, <2>6 DEF SelfJoin, PlaceMapped, GrantAutomatically, Entry
<1>6. ASSUME NEW t \in Tx, RequestAccess(t) \/ PlaceApart(t)
      PROVE  db'.inv = db.inv
  <2>1. CASE RequestAccess(t)
    <3> DEFINE req == [db.req EXCEPT ![NextRow(db.req)] = [who |-> tx[t].who, status |-> "PENDING"]]
    <3>1. Commit(t, TRUE, IF tx[t].found THEN db ELSE [db EXCEPT !.req = req])
      BY <2>1 DEF RequestAccess
    <3> HIDE DEF req
    <3>2. QED
      BY <1>0, <3>1 DEF Commit, Tables
  <2>2. CASE PlaceApart(t)
    <3> DEFINE x == tx[t]
               s == CHOOSE f \in FreeSlots : TRUE
               og == [db.orgOf EXCEPT ![s] = IF x.org = None THEN s ELSE x.org]
               om == [db.om EXCEPT ![s][x.who] = IF x.org = None THEN "ACTIVE" ELSE db.om[s][x.who]]
               tm == [db.tm EXCEPT ![s][x.who] = "ACTIVE"]
    <3>1. Commit(t, TRUE, [db EXCEPT !.orgOf = og, !.om = om, !.tm = tm])
      BY <2>2 DEF PlaceApart
    <3> HIDE DEF og, om, tm
    <3>2. QED
      BY <1>0, <3>1 DEF Commit, Tables
  <2>3. QED
    BY <1>6, <2>1, <2>2
<1>7. ASSUME NEW t \in Tx, Inviting(t) \/ Answering(t)
      PROVE  \/ db' = db
             \/ IssueInvite(t) \/ Approve(t) \/ Deny(t) \/ Revoke(t) \/ Accept(t) \/ Decline(t)
  BY <1>7 DEF Inviting, Answering, InviteAsManager, InviteAsMember, BeginInvite, Resend, BeginReview,
              BeginAccept, BeginDecline, PresentToken, LockUser, Begin, Step, Abort
<1>8. ASSUME NEW t \in Tx, JoiningOpenly(t) \/ Requesting(t) \/ Placing(t)
      PROVE  \/ db' = db \/ RequestAccess(t) \/ PlaceApart(t)
             \/ Redeem(t) \/ SelfJoin(t) \/ PlaceMapped(t) \/ GrantAutomatically(t)
             \/ ApproveRequest(t)
  BY <1>8 DEF JoiningOpenly, Requesting, Placing, BeginRedeem, BeginSelfJoin, LockOwnRows,
              BeginRequestAccess, BeginAutoGrant, BeginApproveRequest, LookForRows,
              BeginRequiredTeam, BeginPlacement, Begin, Step, Abort
<1>9. ASSUME NEW t \in Tx, LockRows(t) \/ Fail(t)
      PROVE  db' = db
  BY <1>9 DEF LockRows, Fail, Step, Abort
<1>10. QED
  BY <1>1, <1>2, <1>3, <1>4, <1>5, <1>6, <1>7, <1>8, <1>9 DEF Next

(* Each of them but an approval does so. *)
LEMMA OthersDenyAsAsked ==
  ASSUME Base, NEW t \in Tx,
         IssueInvite(t) \/ Deny(t) \/ Revoke(t) \/ Accept(t) \/ Decline(t)
  PROVE  DeniedAsAsked(t)
<1>0. db \in Tables /\ db.inv \in [Invite -> InviteRow]
  BY FieldsTyped DEF Base, TypeOK
<1>1. ASSUME NEW T \in Tables, T.inv = db.inv, NEW ok, NEW row, NEW i \in Invite,
             Commit(t, ok, [T EXCEPT !.inv[i] = row]),
             \/ row.approval = db.inv[i].approval
             \/ row.approval = "DENIED" /\ tx[t].op = "deny" /\ tx[t].ref = i
      PROVE  DeniedAsAsked(t)
  <2> DEFINE inv == [db.inv EXCEPT ![i] = row]
  <2>1. \A j \in Invite : inv[j] = IF j = i THEN row ELSE db.inv[j]
    BY <1>0
  <2>2. Commit(t, ok, [T EXCEPT !.inv = inv])
    BY <1>1
  <2> HIDE DEF inv
  <2>3. db'.inv = inv \/ db'.inv = db.inv
    BY <1>1, <2>2 DEF Commit, Tables
  <2>4. QED
    BY <1>1, <2>1, <2>3 DEF DeniedAsAsked, Denied
<1>2. CASE IssueInvite(t)
  <2> DEFINE x == tx[t]
             old == IF x.found THEN Replaced(x.who) ELSE db.inv
             row == [NoInvite EXCEPT !.who = x.who, !.approval = x.approval,
                       !.expires = x.at + Lifetime,
                       !.token = IF x.approval = "PENDING" THEN "none" ELSE "live"]
             n == NextRow(old)
             inv == [old EXCEPT ![n] = row]
  <2>1. /\ old \in [Invite -> InviteRow]
        /\ \A i \in Invite : old[i].who = db.inv[i].who /\ old[i].approval = db.inv[i].approval
    <3>1. CASE ~x.found
      BY <1>0, <3>1
    <3>2. CASE x.found
      <4>1. ASSUME NEW i \in Invite
            PROVE  /\ Replaced(x.who)[i] \in InviteRow
                   /\ Replaced(x.who)[i].who = db.inv[i].who
                   /\ Replaced(x.who)[i].approval = db.inv[i].approval
        <5>1. db.inv[i] \in InviteRow
          BY <1>0
        <5> DEFINE off == [db.inv[i] EXCEPT !.revoked = "REPLACED"]
        <5>2. off \in InviteRow /\ off.who = db.inv[i].who /\ off.approval = db.inv[i].approval
          BY <5>1 DEF InviteRow
        <5>3. Replaced(x.who)[i] = off \/ Replaced(x.who)[i] = db.inv[i]
          BY DEF Replaced
        <5> HIDE DEF off
        <5>4. QED
          BY <5>1, <5>2, <5>3
      <4>2. Replaced(x.who) = [i \in Invite |-> Replaced(x.who)[i]]
        BY DEF Replaced
      <4>3. old = Replaced(x.who)
        BY <3>2
      <4> HIDE DEF old
      <4>4. QED
        BY <4>1, <4>2, <4>3
    <3>3. QED
      BY <3>1, <3>2
  <2>2. Commit(t, TRUE, [db EXCEPT !.inv = inv])
    BY <1>2 DEF IssueInvite
  <2> HIDE DEF old, row
  <2>3. n \in Invite /\ old[n].who = None
    <3>1. Rows(old) = Rows(db.inv)
      BY <1>0, <2>1 DEF Rows
    <3>2. Cardinality(Rows(old)) < db.callers.invites /\ db.callers.invites \in 0..MaxInvites
      BY <1>0, <1>2, <3>1, JoiningAssumption DEF IssueInvite, Tables
    <3>3. Rows(old) \subseteq 1..MaxInvites /\ MaxInvites \in Nat
      BY <2>1, JoiningAssumption DEF Rows, Invite
    <3>4. Cardinality(Rows(old)) \in Nat
      BY <3>3, FS_Interval, FS_Subset, FS_CardinalityType, 1 \in Int, MaxInvites \in Int
    <3>5. Cardinality(Rows(old)) < MaxInvites /\ DOMAIN old = 1..MaxInvites
      BY <2>1, <3>2, <3>3, <3>4 DEF Invite
    <3>6. QED
      BY <3>3, <3>5, FreeRow DEF Invite
  <2> HIDE DEF n
  <2>4. ~Denied(n)
    BY <2>1, <2>3 DEF Base, RowsExplained, Explained, NoInvite, Denied
  <2>5. \A j \in Invite : j # n => inv[j] = old[j]
    BY <2>1
  <2> HIDE DEF inv
  <2>6. db'.inv = inv \/ db'.inv = db.inv
    BY <1>0, <2>2 DEF Commit, Tables
  <2>7. \A j \in Invite : j # n => (Denied(j)' <=> Denied(j))
    BY <2>1, <2>5, <2>6 DEF Denied
  <2>8. QED
    BY <2>1, <2>3, <2>4, <2>7 DEF DeniedAsAsked
<1>3. CASE Deny(t) \/ Revoke(t) \/ Decline(t)
  <2> DEFINE i == tx[t].ref
             old == db.inv[i]
  <2>1. i \in Invite
    BY <1>3 DEF Base, Sound, Reviews, Answers, Deny, Revoke, Decline, At
  <2>2. old \in InviteRow
    BY <1>0, <2>1
  <2>3. PICK row : /\ Commit(t, TRUE, [db EXCEPT !.inv[i] = row])
                   /\ \/ row.approval = old.approval
                      \/ row.approval = "DENIED" /\ tx[t].op = "deny"
    <3>1. CASE Deny(t)
      <4> DEFINE row == [old EXCEPT !.approval = "DENIED"]
      <4>1. Commit(t, TRUE, [db EXCEPT !.inv[i] = row])
        BY <3>1 DEF Deny
      <4>2. row.approval = "DENIED" /\ tx[t].op = "deny"
        BY <2>2, <3>1 DEF InviteRow, Deny, At
      <4> HIDE DEF row, i, old
      <4>3. QED
        BY <4>1, <4>2
    <3>2. CASE Revoke(t)
      <4> DEFINE row == [old EXCEPT !.revoked = "REVOKED", !.token = Consume(old.token)]
      <4>1. Commit(t, TRUE, [db EXCEPT !.inv[i] = row])
        BY <3>2 DEF Revoke
      <4>2. row.approval = old.approval
        BY <2>2 DEF InviteRow
      <4> HIDE DEF row, i, old
      <4>3. QED
        BY <4>1, <4>2
    <3>3. CASE Decline(t)
      <4> DEFINE token == IF tx[t].op = "declineToken" THEN Consume(old.token) ELSE old.token
                 row == [old EXCEPT !.declined = TRUE, !.token = token]
      <4>1. Commit(t, TRUE, [db EXCEPT !.inv[i] = row])
        BY <3>3 DEF Decline
      <4> HIDE DEF token
      <4>2. row.approval = old.approval
        BY <2>2 DEF InviteRow
      <4> HIDE DEF row, i, old
      <4>3. QED
        BY <4>1, <4>2
    <3>4. QED
      BY <1>3, <3>1, <3>2, <3>3
  <2>4. QED
    BY <1>0, <1>1, <2>1, <2>3
<1>4. CASE Accept(t)
  <2> DEFINE i == tx[t].ref
             old == db.inv[i]
             token == IF tx[t].op = "acceptToken" THEN "used" ELSE old.token
             row == [old EXCEPT !.accepted = tx[t].who, !.token = token]
             e == Enrolled(t, "invite")
  <2>1. i \in Invite /\ tx[t].who \in User
    BY <1>4 DEF Base, Sound, Reviews, Answers, Accept
  <2>2. old \in InviteRow
    BY <1>0, <2>1
  <2>3. e \in Tables /\ e.inv = db.inv
    BY <2>1, EnrolledFacts DEF Joined, Entry
  <2>4. PICK ok : Commit(t, ok, [e EXCEPT !.inv[i] = row])
    BY <1>4 DEF Accept
  <2> HIDE DEF token
  <2>5. row.approval = old.approval
    BY <2>2 DEF InviteRow
  <2> HIDE DEF row, e
  <2>6. QED
    BY <1>1, <2>1, <2>3, <2>4, <2>5
<1>5. QED
  BY <1>2, <1>3, <1>4

(* An approval begins only where there is something to approve. *)
LEMMA ApprovalsBegin ==
  ASSUME Base, [Next]_vars, NEW t \in Tx, tx'[t].op = "approve"
  PROVE  \/ tx'[t] = tx[t]
         \/ db' = db /\ tx'[t].ref = tx[t].ref /\ tx[t].op = "approve"
         \/ db' = db /\ db.inv[tx'[t].ref].approval = "PENDING"
<1>0. tx \in [Tx -> TxRecord] /\ Idle.op = "none"
  BY DEF Base, TypeOK, Idle
<1>1. CASE UNCHANGED tx
  BY <1>1
<1>2. ASSUME NEW s \in Tx, NEW x, tx' = [tx EXCEPT ![s] = x], x.op # "approve"
      PROVE  tx'[t] = tx[t]
  BY <1>0, <1>2
<1>3. ASSUME NEW s \in Tx, NEW x, Begin(s, x), x.op # "approve"
      PROVE  tx'[t] = tx[t]
  BY <1>2, <1>3 DEF Begin
<1>4. ASSUME NEW s \in Tx, NEW ok, NEW new, Commit(s, ok, new)
      PROVE  tx'[t] = tx[t]
  BY <1>0, <1>2, <1>4 DEF Commit
<1>5. ASSUME NEW s \in Tx, NEW x, Step(s, x), x = Idle \/ (x.op = tx[s].op /\ x.ref = tx[s].ref)
      PROVE  tx'[t] = tx[t] \/ (db' = db /\ tx'[t].ref = tx[t].ref /\ tx[t].op = "approve")
  BY <1>0, <1>5 DEF Step
<1>6. ASSUME NEW s \in Tx, Inviting(s)
      PROVE  tx'[t] = tx[t] \/ (db' = db /\ db.inv[tx'[t].ref].approval = "PENDING")
  <2>1. ASSUME NEW i \in Invite, BeginReview(s, "approve", i)
        PROVE  tx'[t] = tx[t] \/ (db' = db /\ db.inv[tx'[t].ref].approval = "PENDING")
    <3> DEFINE x == [Idle EXCEPT !.op = "approve", !.pc = "commit", !.ref = i]
    <3>1. tx' = [tx EXCEPT ![s] = x] /\ db' = db /\ db.inv[i].approval = "PENDING" /\ x.ref = i
      BY <2>1 DEF BeginReview, Begin, MayApprove, Idle
    <3> HIDE DEF x
    <3>2. QED
      BY <1>0, <3>1
  <2>2. ASSUME NEW i \in Invite, NEW op \in {"deny", "revoke"}, BeginReview(s, op, i)
        PROVE  tx'[t] = tx[t]
    <3> DEFINE x == [Idle EXCEPT !.op = op, !.pc = "commit", !.ref = i]
    <3>1. Begin(s, x) /\ x.op # "approve"
      BY <2>2 DEF BeginReview, Idle
    <3> HIDE DEF x
    <3>2. QED
      BY <1>3, <3>1
  <2>3. ASSUME NEW u, NEW a, BeginInvite(s, u, a)
        PROVE  tx'[t] = tx[t]
    <3> DEFINE some == \E i \in Invite : IsActionable(db.inv[i]) /\ db.inv[i].who = u
               x == [Idle EXCEPT !.op = "invite", !.pc = "commit", !.who = u, !.at = now,
                       !.approval = a, !.found = some]
    <3>1. Begin(s, x) /\ x.op # "approve"
      BY <2>3 DEF BeginInvite, Idle
    <3> HIDE DEF x
    <3>2. QED
      BY <1>3, <3>1
  <2>4. ASSUME NEW i \in Invite, Resend(s, i)
        PROVE  tx'[t] = tx[t]
    <3> DEFINE x == [Idle EXCEPT !.op = "invite", !.pc = "commit", !.who = db.inv[i].who,
                       !.at = now, !.found = TRUE]
    <3>1. Begin(s, x) /\ x.op # "approve"
      BY <2>4 DEF Resend, Idle
    <3> HIDE DEF x
    <3>2. QED
      BY <1>3, <3>1
  <2>5. CASE IssueInvite(s) \/ Approve(s) \/ Deny(s) \/ Revoke(s)
    BY <1>4, <2>5 DEF IssueInvite, Approve, Deny, Revoke
  <2>6. QED
    BY <1>6, <2>1, <2>2, <2>3, <2>4, <2>5 DEF Inviting, InviteAsManager, InviteAsMember
<1>7. ASSUME NEW s \in Tx, Answering(s)
      PROVE  tx'[t] = tx[t] \/ (db' = db /\ tx'[t].ref = tx[t].ref /\ tx[t].op = "approve")
  <2>1. ASSUME NEW i \in Invite, NEW op \in Answers, NEW pc, NEW who,
               Begin(s, [Idle EXCEPT !.op = op, !.pc = pc, !.who = who, !.ref = i])
        PROVE  tx'[t] = tx[t]
    BY <1>3, <2>1 DEF Idle, Answers
  <2>2. CASE LockUser(s)
    <3>1. tx[s] \in TxRecord
      BY <1>0
    <3>2. \A pc : LET x == [tx[s] EXCEPT !.pc = pc] IN x.op = tx[s].op /\ x.ref = tx[s].ref
      BY <3>1 DEF TxRecord
    <3>3. QED
      BY <1>5, <2>2, <3>2 DEF LockUser, Abort
  <2>3. CASE Accept(s) \/ Decline(s)
    BY <1>4, <2>3 DEF Accept, Decline
  <2>4. QED
    BY <1>7, <2>1, <2>2, <2>3 DEF Answering, BeginAccept, BeginDecline, PresentToken, Answers
<1>8. ASSUME NEW s \in Tx, LockRows(s) \/ LockOwnRows(s) \/ LookForRows(s)
      PROVE  tx'[t] = tx[t] \/ (db' = db /\ tx'[t].ref = tx[t].ref /\ tx[t].op = "approve")
  <2>1. tx[s] \in TxRecord
    BY <1>0
  <2>2. \A w, held : LET d == Decided(s, w)  h == [Decided(s, w) EXCEPT !.held = held] IN
          /\ d.op = tx[s].op /\ d.ref = tx[s].ref
          /\ h.op = tx[s].op /\ h.ref = tx[s].ref
    BY <2>1 DEF Decided, TxRecord
  <2>3. QED
    BY <1>5, <1>8, <2>2 DEF LockRows, LockOwnRows, LookForRows, Abort
<1>9. ASSUME NEW s \in Tx, JoiningOpenly(s) \/ Requesting(s) \/ Placing(s)
      PROVE  tx'[t] = tx[t] \/ (db' = db /\ tx'[t].ref = tx[t].ref /\ tx[t].op = "approve")
  <2>1. CASE \/ Redeem(s) \/ SelfJoin(s) \/ RequestAccess(s) \/ ApproveRequest(s)
             \/ GrantAutomatically(s) \/ PlaceMapped(s) \/ PlaceApart(s)
    BY <1>4, <2>1 DEF Redeem, SelfJoin, RequestAccess, ApproveRequest, GrantAutomatically,
                     PlaceMapped, PlaceApart
  <2>2. ASSUME NEW u \in User, BeginRedeem(s, u) \/ BeginSelfJoin(s, u) \/ BeginRequestAccess(s, u)
                               \/ BeginAutoGrant(s, u)
        PROVE  tx'[t] = tx[t]
    BY <1>3, <2>2 DEF BeginRedeem, BeginSelfJoin, BeginRequestAccess, BeginAutoGrant, Idle
  <2>3. ASSUME NEW u \in User, NEW op \in {"placeMapped", "placeOwn"},
               BeginRequiredTeam(s, u) \/ BeginPlacement(s, op, u)
        PROVE  tx'[t] = tx[t]
    BY <1>3, <2>3 DEF BeginRequiredTeam, BeginPlacement, Idle
  <2>4. ASSUME NEW r \in Request, BeginApproveRequest(s, r)
        PROVE  tx'[t] = tx[t]
    BY <1>3, <2>4 DEF BeginApproveRequest, Idle
  <2>5. QED
    BY <1>8, <1>9, <2>1, <2>2, <2>3, <2>4 DEF JoiningOpenly, Requesting, Placing
<1>10. ASSUME NEW s \in Tx, Fail(s)
       PROVE  tx'[t] = tx[t]
  BY <1>0, <1>2, <1>10 DEF Fail, Abort, Step
<1>11. QED
  BY <1>1, <1>6, <1>7, <1>8, <1>9, <1>10
     DEF Next, vars, CreateLink, RevokeLink, SetPolicy, RejectRequest, Remove, Tick

LEMMA NoneDeniedStays ==
  ASSUME DenialsApart, Base, NoneDenied, [Next]_vars
  PROVE  NoneDenied' /\ StillDenied
<1>0. db.inv \in [Invite -> InviteRow] /\ tx \in [Tx -> TxRecord]
  BY FieldsTyped DEF Base, TypeOK
<1>1. ASSUME NEW t \in Tx, Approve(t)
      PROVE  /\ StillDenied
             /\ \A i \in Invite : Denied(i)' => Denied(i)
  <2> DEFINE i == tx[t].ref
             row == [db.inv[i] EXCEPT !.approval = "APPROVED", !.token = "live"]
             inv == [db.inv EXCEPT ![i] = row]
  <2>1. ~Denied(i) /\ i \in Invite
    BY <1>1 DEF Approve, At, NoneDenied, Base, Sound, Reviews
  <2>2. Commit(t, TRUE, [db EXCEPT !.inv = inv])
    BY <1>1 DEF Approve
  <2>3. row.approval = "APPROVED"
    BY <1>0, <2>1 DEF InviteRow
  <2> HIDE DEF row
  <2>4. inv[i] = row /\ \A j \in Invite : j # i => inv[j] = db.inv[j]
    BY <1>0, <2>1
  <2> HIDE DEF inv
  <2>5. db'.inv = inv \/ db'.inv = db.inv
    BY <2>2 DEF Commit, Base, TypeOK, Tables
  <2>6. QED
    BY <2>1, <2>3, <2>4, <2>5 DEF StillDenied, Denied
<1>2. StillDenied
  <2>1. CASE db'.inv = db.inv
    BY <2>1 DEF StillDenied, Denied
  <2>2. ASSUME NEW t \in Tx, DeniedAsAsked(t) PROVE StillDenied
    BY <2>2 DEF DeniedAsAsked, StillDenied
  <2>3. QED
    BY <1>1, <2>1, <2>2, InvitationSteps, OthersDenyAsAsked
<1>3. ASSUME NEW t \in Tx, tx'[t].op = "approve"
      PROVE  ~Denied(tx[t].ref)'
  <2>1. CASE tx'[t] = tx[t]
    <3>1. /\ tx[t].op = "approve" /\ tx[t].ref \in Invite /\ db.inv[tx[t].ref].who # None
          /\ ~Denied(tx[t].ref)
      BY <1>3, <2>1 DEF Base, Sound, Reviews, NoneDenied
    <3>2. ~(db'.inv[tx[t].ref].approval = "DENIED")
      <4>1. CASE db'.inv = db.inv
        BY <3>1, <4>1 DEF Denied
      <4>2. ASSUME NEW s \in Tx, Approve(s) PROVE ~(db'.inv[tx[t].ref].approval = "DENIED")
        BY <1>1, <3>1, <4>2 DEF Denied
      <4>3. ASSUME NEW s \in Tx, DeniedAsAsked(s) PROVE ~(db'.inv[tx[t].ref].approval = "DENIED")
        <5>1. ~(tx[s].op = "deny" /\ tx[s].ref = tx[t].ref)
          BY <3>1 DEF DenialsApart
        <5>2. QED
          BY <3>1, <4>3, <5>1 DEF DeniedAsAsked, Denied
      <4>4. QED
        BY <4>1, <4>2, <4>3, InvitationSteps, OthersDenyAsAsked
    <3>3. QED
      BY <2>1, <3>2 DEF Denied
  <2>2. CASE db' = db /\ tx'[t].ref = tx[t].ref /\ tx[t].op = "approve"
    BY <2>2 DEF NoneDenied, Denied
  <2>3. CASE db' = db /\ db.inv[tx'[t].ref].approval = "PENDING"
    BY <2>3 DEF Denied
  <2>4. QED
    BY <1>3, <2>1, <2>2, <2>3, ApprovalsBegin
<1>4. QED
  BY <1>2, <1>3 DEF NoneDenied

(* A denied invitation stays denied, as team-invite-state-machine.ts:96    *)
(* says, in every behaviour in which no invitation is denied while it is   *)
(* being approved: issuing, replacing, revoking, answering and expiring    *)
(* interleave with both, and none of them undoes a denial.                 *)
THEOREM OnlyRacesUndoDenials == Spec /\ []DenialsApart => DeniedStaysDenied
<1>1. Init => NoneDenied
  BY DEF Init, NoneDenied, Idle
<1>2. Base /\ DenialsApart /\ NoneDenied /\ [Next]_vars =>
        /\ NoneDenied'
        /\ [\A i \in Invite : db.inv[i].approval = "DENIED" => db'.inv[i].approval = "DENIED"]_vars
  BY NoneDeniedStays DEF StillDenied, Denied
<1>3. QED
  BY <1>1, <1>2, BaseHolds, PTL DEF Spec, DeniedStaysDenied

=============================================================================
