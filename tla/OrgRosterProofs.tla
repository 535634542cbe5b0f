-------------------------- MODULE OrgRosterProofs --------------------------
(***************************************************************************)
(* Proofs about OrgRoster, for any number of users, roles and connections. *)
(* A transaction either moves one step on without writing, or ends; what   *)
(* it writes when it ends touches no row another one has locked.           *)
(***************************************************************************)
EXTENDS OrgRoster, FiniteSetTheorems, TLAPS

LEMMA IdleTyped == Idle \in TxRecord
BY RosterAssumption DEF Idle, TxRecord

(* A transaction moves on without writing. *)
LEMMA MoveKeepsInvariant ==
  ASSUME RosterInvariant, NEW t \in Tx, NEW new \in TxRecord,
         tx' = [tx EXCEPT ![t] = new], UNCHANGED <<ownerId, member>>,
         Prepared(t)', new.held => RowFree(new.who)
  PROVE  RosterInvariant'
<1>1. tx'[t] = new /\ \A u \in Tx \ {t} : tx'[u] = tx[u]
  BY DEF RosterInvariant, TypeOK
<1>2. TypeOK'
  BY DEF RosterInvariant, TypeOK
<1>3. RowMutex'
  BY <1>1 DEF RosterInvariant, RowMutex, RowFree
<1>4. \A u \in Tx : Prepared(u)'
  BY <1>1 DEF RosterInvariant, Prepared, Committing, Suspendable, ActiveMembers, ActiveOwners
<1>5. QED
  BY <1>2, <1>3, <1>4 DEF RosterInvariant

(* A transaction ends, having written only rows that nobody else locked. *)
LEMMA EndKeepsInvariant ==
  ASSUME RosterInvariant, NEW t \in Tx, End(t), ownerId' \in User,
         member' \in [User -> [status : Status, role : Role]],
         \A u \in Tx \ {t} : tx[u].held => member'[tx[u].who] = member[tx[u].who]
  PROVE  RosterInvariant'
<1>1. tx'[t] = Idle /\ \A u \in Tx \ {t} : tx'[u] = tx[u]
  BY DEF RosterInvariant, TypeOK, End
<1>2. TypeOK'
  BY IdleTyped DEF RosterInvariant, TypeOK, End
<1>3. RowMutex'
  BY <1>1 DEF RosterInvariant, RowMutex, Idle
<1>4. ASSUME NEW u \in Tx PROVE Prepared(u)'
  <2>1. CASE u = t
    BY <2>1, <1>1 DEF Prepared, Committing, Idle
  <2>2. CASE u # t
    BY <2>2, <1>1 DEF RosterInvariant, Prepared, Committing, Suspendable,
                      ActiveMembers, ActiveOwners
  <2>3. QED
    BY <2>1, <2>2
<1>5. QED
  BY <1>2, <1>3, <1>4 DEF RosterInvariant

LEMMA AbortKeepsInvariant ==
  ASSUME RosterInvariant, NEW t \in Tx, Abort(t)
  PROVE  RosterInvariant'
BY EndKeepsInvariant DEF Abort, RosterInvariant, TypeOK

----------------------------------------------------------------------------
LEMMA BeginKeepsInvariant ==
  ASSUME RosterInvariant, NEW t \in Tx, NEW new \in TxRecord, Begin(t, new),
         new.who \in User, ~new.held,
         \/ new.pc = "lock" /\ new.op \in Rowwise
         \/ new.pc = "commit" /\ new.op \in Blind /\ (new.op = "transfer" => new.owner \in User)
  PROVE  RosterInvariant'
<1>1. tx'[t] = new
  BY DEF RosterInvariant, TypeOK, Begin
<1>2. Prepared(t)'
  BY <1>1 DEF Prepared, Committing, Rowwise, Blind
<1>3. QED
  BY <1>2, MoveKeepsInvariant DEF Begin

LEMMA StartKeepsInvariant ==
  ASSUME RosterInvariant, NEW t \in Tx, Start(t)
  PROVE  RosterInvariant'
<1>1. PICK u \in User, a \in Actor :
        \/ \E r \in Role : BeginAdd(t, u, r, a) \/ BeginChangeRole(t, u, r, a)
        \/ BeginRemove(t, u, a) \/ BeginDeactivate(t, u, a) \/ BeginReactivate(t, u, a)
        \/ BeginTransfer(t, u, a)
  BY DEF Start
<1>2. ownerId \in User
  BY DEF RosterInvariant, TypeOK
<1>3. ASSUME NEW r \in Role, BeginAdd(t, u, r, a) PROVE RosterInvariant'
  <2> DEFINE new == [Idle EXCEPT !.op = "add", !.pc = "lock", !.who = u, !.role = r]
  <2>1. /\ new \in TxRecord /\ new.who \in User /\ ~new.held
        /\ \/ new.pc = "lock" /\ new.op \in Rowwise
           \/ new.pc = "commit" /\ new.op \in Blind /\ (new.op = "transfer" => new.owner \in User)
    BY <1>2, RosterAssumption DEF Idle, TxRecord, Rowwise, Blind
  <2>2. Begin(t, new)
    BY <1>3 DEF BeginAdd
  <2>3. QED
    BY <2>1, <2>2, BeginKeepsInvariant
<1>4. ASSUME NEW r \in Role, BeginChangeRole(t, u, r, a) PROVE RosterInvariant'
  <2> DEFINE new == [Idle EXCEPT !.op = "changeRole", !.pc = "commit", !.who = u, !.role = r]
  <2>1. /\ new \in TxRecord /\ new.who \in User /\ ~new.held
        /\ \/ new.pc = "lock" /\ new.op \in Rowwise
           \/ new.pc = "commit" /\ new.op \in Blind /\ (new.op = "transfer" => new.owner \in User)
    BY <1>2, RosterAssumption DEF Idle, TxRecord, Rowwise, Blind
  <2>2. Begin(t, new)
    BY <1>4 DEF BeginChangeRole
  <2>3. QED
    BY <2>1, <2>2, BeginKeepsInvariant
<1>5. CASE BeginRemove(t, u, a)
  <2> DEFINE new == [Idle EXCEPT !.op = "remove", !.pc = "lock", !.who = u, !.owner = ownerId]
  <2>1. /\ new \in TxRecord /\ new.who \in User /\ ~new.held
        /\ \/ new.pc = "lock" /\ new.op \in Rowwise
           \/ new.pc = "commit" /\ new.op \in Blind /\ (new.op = "transfer" => new.owner \in User)
    BY <1>2, RosterAssumption DEF Idle, TxRecord, Rowwise, Blind
  <2>2. Begin(t, new)
    BY <1>5 DEF BeginRemove
  <2>3. QED
    BY <2>1, <2>2, BeginKeepsInvariant
<1>6. CASE BeginDeactivate(t, u, a)
  <2> DEFINE new == [Idle EXCEPT !.op = "deactivate", !.pc = "lock", !.who = u]
  <2>1. /\ new \in TxRecord /\ new.who \in User /\ ~new.held
        /\ \/ new.pc = "lock" /\ new.op \in Rowwise
           \/ new.pc = "commit" /\ new.op \in Blind /\ (new.op = "transfer" => new.owner \in User)
    BY <1>2, RosterAssumption DEF Idle, TxRecord, Rowwise, Blind
  <2>2. Begin(t, new)
    BY <1>6 DEF BeginDeactivate
  <2>3. QED
    BY <2>1, <2>2, BeginKeepsInvariant
<1>7. CASE BeginReactivate(t, u, a)
  <2> DEFINE new == [Idle EXCEPT !.op = "reactivate", !.pc = "lock", !.who = u]
  <2>1. /\ new \in TxRecord /\ new.who \in User /\ ~new.held
        /\ \/ new.pc = "lock" /\ new.op \in Rowwise
           \/ new.pc = "commit" /\ new.op \in Blind /\ (new.op = "transfer" => new.owner \in User)
    BY <1>2, RosterAssumption DEF Idle, TxRecord, Rowwise, Blind
  <2>2. Begin(t, new)
    BY <1>7 DEF BeginReactivate
  <2>3. QED
    BY <2>1, <2>2, BeginKeepsInvariant
<1>8. CASE BeginTransfer(t, u, a)
  <2> DEFINE new == [Idle EXCEPT !.op = "transfer", !.pc = "commit", !.who = u, !.owner = ownerId]
  <2>1. /\ new \in TxRecord /\ new.who \in User /\ ~new.held
        /\ \/ new.pc = "lock" /\ new.op \in Rowwise
           \/ new.pc = "commit" /\ new.op \in Blind /\ (new.op = "transfer" => new.owner \in User)
    BY <1>2, RosterAssumption DEF Idle, TxRecord, Rowwise, Blind
  <2>2. Begin(t, new)
    BY <1>8 DEF BeginTransfer
  <2>3. QED
    BY <2>1, <2>2, BeginKeepsInvariant
<1>9. QED
  BY <1>1, <1>3, <1>4, <1>5, <1>6, <1>7, <1>8

LEMMA LockKeepsInvariant ==
  ASSUME RosterInvariant, NEW t \in Tx, LockMember(t)
  PROVE  RosterInvariant'
<1> DEFINE u == tx[t].who
<1>1. /\ tx[t] \in TxRecord /\ Prepared(t) /\ tx[t].pc = "lock" /\ RowFree(u)
      /\ u \in User /\ tx[t].op \in Rowwise
  BY DEF RosterInvariant, TypeOK, LockMember, Prepared, Rowwise
<1>2. CASE ~Rechecked(t)
  BY <1>2, AbortKeepsInvariant DEF LockMember
<1>3. CASE Rechecked(t)
  <2>1. PICK h \in Heirs(t) :
          tx' = [tx EXCEPT ![t].pc = "commit", ![t].heir = h,
                           ![t].held = member[u].status # "NONE"]
    BY <1>3 DEF LockMember
  <2> DEFINE new == [tx[t] EXCEPT !.pc = "commit", !.heir = h,
                                  !.held = member[u].status # "NONE"]
  <2>2. h \in User \cup {None}
    BY DEF Heirs, ActiveOwners, ActiveMembers
  <2>3. new \in TxRecord
    BY <1>1, <2>2 DEF TxRecord
  <2>4. tx' = [tx EXCEPT ![t] = new] /\ tx'[t] = new
    BY <2>1 DEF RosterInvariant, TypeOK
  <2>5. /\ new.op = tx[t].op /\ new.pc = "commit" /\ new.who = u
        /\ new.held <=> member[u].status # "NONE"
    BY <1>1 DEF TxRecord
  <2>6. UNCHANGED <<ownerId, member>>
    BY <1>3 DEF LockMember
  <2>7. Prepared(t)'
    BY <1>1, <1>3, <2>4, <2>5, <2>6
       DEF Prepared, Committing, Rechecked, Suspendable, ActiveMembers, ActiveOwners,
           Rowwise, TxRecord
  <2>8. QED
    BY <1>1, <2>3, <2>4, <2>5, <2>6, <2>7, MoveKeepsInvariant
<1>4. QED
  BY <1>2, <1>3

----------------------------------------------------------------------------
(* Commits. *)

LEMMA SetStatusKeepsInvariant ==
  ASSUME RosterInvariant, NEW t \in Tx, NEW s \in Status, tx[t].held,
         SetStatus(tx[t].who, s), End(t), ownerId' \in User
  PROVE  RosterInvariant'
<1>1. member' \in [User -> [status : Status, role : Role]]
  BY DEF RosterInvariant, TypeOK, SetStatus
<1>2. \A u \in Tx \ {t} : tx[u].held => member'[tx[u].who] = member[tx[u].who]
  BY DEF RosterInvariant, TypeOK, RowMutex, SetStatus, Prepared, Idle
<1>3. QED
  BY <1>1, <1>2, EndKeepsInvariant

LEMMA CommitKeepsInvariant ==
  ASSUME RosterInvariant, NEW t \in Tx, Commit(t)
  PROVE  RosterInvariant'
<1>1. /\ tx[t] \in TxRecord /\ Prepared(t) /\ ownerId \in User
      /\ member \in [User -> [status : Status, role : Role]]
      /\ tx[t].op # "none" => tx[t].who \in User
  BY DEF RosterInvariant, TypeOK, Prepared
<1>2. \A u \in Tx : tx[u].held => tx[u].who \in User /\ member[tx[u].who].status # "NONE"
  BY DEF RosterInvariant, Prepared
<1>3. CASE Add(t)
  <2>1. CASE ~tx[t].held /\ member[tx[t].who].status # "NONE"
    BY <1>3, <2>1, AbortKeepsInvariant DEF Add
  <2>2. CASE tx[t].held \/ member[tx[t].who].status = "NONE"
    <3>1. /\ member' = [member EXCEPT ![tx[t].who] =
                          [status |-> "ACTIVE", role |-> tx[t].role]]
          /\ End(t) /\ UNCHANGED ownerId
      BY <1>3, <2>2 DEF Add
    <3>2. member' \in [User -> [status : Status, role : Role]]
      BY <1>1, <3>1 DEF TxRecord, Status
    <3>3. \A u \in Tx \ {t} : tx[u].held => member'[tx[u].who] = member[tx[u].who]
      BY <1>1, <1>2, <2>2, <3>1 DEF RosterInvariant, RowMutex
    <3>4. QED
      BY <1>1, <3>1, <3>2, <3>3, EndKeepsInvariant
  <2>3. QED
    BY <2>1, <2>2
<1>4. CASE Remove(t)
  <2>1. ownerId' \in User
    BY <1>1, <1>4 DEF Remove, PassOwnership, TxRecord
  <2>2. QED
    BY <1>1, <1>4, <2>1, SetStatusKeepsInvariant DEF Remove, Prepared, Status
<1>5. CASE Deactivate(t)
  BY <1>1, <1>5, SetStatusKeepsInvariant DEF Deactivate, Prepared, Status
<1>6. CASE Reactivate(t)
  BY <1>1, <1>6, SetStatusKeepsInvariant DEF Reactivate, Prepared, Status
<1>7. CASE ChangeRole(t)
  <2>1. member' \in [User -> [status : Status, role : Role]]
    BY <1>1, <1>7 DEF ChangeRole, TxRecord
  <2>2. \A u \in Tx \ {t} : tx[u].held => member'[tx[u].who] = member[tx[u].who]
    BY <1>1, <1>2, <1>7 DEF ChangeRole, RowFree
  <2>3. QED
    BY <1>1, <1>7, <2>1, <2>2, EndKeepsInvariant DEF ChangeRole
<1>8. CASE Transfer(t)
  <2>1. tx[t].who \in User /\ tx[t].owner \in User
    BY <1>1, <1>8 DEF Transfer, Committing, Prepared
  <2>2. member' \in [User -> [status : Status, role : Role]]
    BY <1>1, <1>8, <2>1, RosterAssumption DEF Transfer
  <2>3. \A u \in Tx \ {t} : tx[u].held => member'[tx[u].who] = member[tx[u].who]
    BY <1>1, <1>2, <1>8 DEF Transfer, RowFree
  <2>4. QED
    BY <1>8, <2>1, <2>2, <2>3, EndKeepsInvariant DEF Transfer
<1>9. QED
  BY <1>3, <1>4, <1>5, <1>6, <1>7, <1>8 DEF Commit

----------------------------------------------------------------------------
LEMMA InitInvariant == Init => RosterInvariant
<1> SUFFICES ASSUME Init PROVE RosterInvariant
  OBVIOUS
<1>1. TypeOK
  BY RosterAssumption, IdleTyped DEF Init, TypeOK, Status
<1>2. RowMutex /\ \A t \in Tx : Prepared(t)
  BY DEF Init, RowMutex, Prepared, Committing, Idle
<1>3. QED
  BY <1>1, <1>2 DEF RosterInvariant

LEMMA NextInvariant == RosterInvariant /\ [Next]_vars => RosterInvariant'
<1> SUFFICES ASSUME RosterInvariant, [Next]_vars PROVE RosterInvariant'
  OBVIOUS
<1>1. CASE Next
  BY <1>1, StartKeepsInvariant, LockKeepsInvariant, CommitKeepsInvariant, AbortKeepsInvariant
     DEF Next, Fail
<1>2. CASE UNCHANGED vars
  BY <1>2 DEF vars, RosterInvariant, TypeOK, RowMutex, Prepared, Committing, Suspendable,
              ActiveMembers, ActiveOwners
<1>3. QED
  BY <1>1, <1>2

(* Member rows are locked by one transaction at a time, and what it read   *)
(* under the lock is still so when it commits.                             *)
THEOREM RosterSafety == Spec => []RosterInvariant
<1>1. QED
  BY InitInvariant, NextInvariant, PTL DEF Spec

(* Each step changes a status in one of the ways its operation allows. *)
LEMMA StatusMoves ==
  ASSUME RosterInvariant, [Next]_vars, NEW u \in User,
         member'[u].status # member[u].status
  PROVE  \E t \in Tx :
           /\ tx[t].who = u
           /\ \/ Committing(t, "add") /\ member'[u].status = "ACTIVE"
              \/ Committing(t, "remove") /\ member'[u].status = "REMOVED"
              \/ Committing(t, "deactivate") /\ member'[u].status = "DEACTIVATED"
              \/ Committing(t, "reactivate") /\ member'[u].status = "ACTIVE"
<1>1. PICK t \in Tx : Start(t) \/ LockMember(t) \/ Commit(t) \/ Fail(t)
  BY DEF Next, vars
<1>2. /\ member \in [User -> [status : Status, role : Role]]
      /\ tx[t].op # "none" => tx[t].who \in User
      /\ tx[t].op = "transfer" => tx[t].owner \in User
  BY DEF RosterInvariant, TypeOK, Prepared
<1>3. member' # member
  OBVIOUS
<1>4. ~Start(t) /\ ~LockMember(t) /\ ~Fail(t)
  BY <1>3 DEF Start, BeginAdd, BeginRemove, BeginDeactivate, BeginReactivate,
              BeginChangeRole, BeginTransfer, Begin, LockMember, Fail, Abort
<1>5. CASE Add(t)
  BY <1>2, <1>3, <1>5 DEF Add, Abort, Committing
<1>6. CASE Remove(t) \/ Deactivate(t) \/ Reactivate(t)
  BY <1>2, <1>6 DEF Remove, Deactivate, Reactivate, SetStatus, Committing
<1>7. ~ChangeRole(t) /\ ~Transfer(t)
  BY <1>2 DEF ChangeRole, Transfer, Committing
<1>8. QED
  BY <1>1, <1>4, <1>5, <1>6, <1>7 DEF Commit

(* deactivateOrganisationMember refuses an owner by the role the row has   *)
(* when the status changes, whatever ran between its two reads.            *)
THEOREM DeactivationSparesOwners == Spec => OwnersAreNotSuspended
<1> DEFINE A == \A u \in User : member[u].status = "ACTIVE" /\ member'[u].status = "DEACTIVATED"
                                  => member[u].role # "owner"
<1>1. RosterInvariant /\ [Next]_vars => A
  <2> SUFFICES ASSUME RosterInvariant, [Next]_vars, NEW u \in User,
                      member[u].status = "ACTIVE", member'[u].status = "DEACTIVATED"
               PROVE  member[u].role # "owner"
    OBVIOUS
  <2>1. PICK t \in Tx : tx[t].who = u /\ Committing(t, "deactivate")
    BY StatusMoves
  <2>2. QED
    BY <2>1 DEF RosterInvariant, Prepared, Suspendable, ActiveMembers, ActiveOwners
<1>2. QED
  BY <1>1, RosterSafety, PTL DEF Spec, OwnersAreNotSuspended

(* A member removed while a suspension or a reactivation was waiting stays *)
(* removed: only addOrganisationMember brings the row back.                *)
THEOREM RemovalIsFinal == Spec => RemovedStayRemoved
<1> DEFINE A == \A u \in User : member[u].status = "REMOVED" /\ member'[u].status # "REMOVED"
                  => \E t \in Tx : Committing(t, "add") /\ tx[t].who = u
<1>1. RosterInvariant /\ [Next]_vars => A
  <2> SUFFICES ASSUME RosterInvariant, [Next]_vars, NEW u \in User,
                      member[u].status = "REMOVED", member'[u].status # "REMOVED"
               PROVE  \E t \in Tx : Committing(t, "add") /\ tx[t].who = u
    OBVIOUS
  <2>1. PICK t \in Tx :
          /\ tx[t].who = u
          /\ \/ Committing(t, "add")
             \/ Committing(t, "deactivate") \/ Committing(t, "reactivate")
    BY StatusMoves
  <2>2. QED
    BY <2>1 DEF RosterInvariant, Prepared, Suspendable, ActiveMembers, ActiveOwners
<1>2. QED
  BY <1>1, RosterSafety, PTL DEF Spec, RemovedStayRemoved

(* Both together: what is decided about a member's status under the row    *)
(* lock stands, whatever was read before it.                               *)
THEOREM StatusesAreDecidedUnderTheLock == Spec => StatusesStand
BY DeactivationSparesOwners, RemovalIsFinal DEF StatusesStand
----------------------------------------------------------------------------
(* What the runs last_owner, TombstonedOwner and TwoTransfers refute needs  *)
(* a removal or a transfer that another change overtakes.  Where those two  *)
(* are alone, and all else interleaves, the member the organisations row    *)
(* names is always an active owner.                                         *)

Handover(x) == x.op \in {"remove", "transfer"}

(* While a removal or a transfer is on its way, nothing else is. *)
HandoversAlone ==
  \A s, t \in Tx : s # t /\ Handover(tx[s]) => tx[t].op = "none"

(* What a transaction read is still so. *)
StillSo(t) ==
  LET x == tx[t] IN
  /\ Handover(x) => x.owner = ownerId
  /\ x.op = "transfer" => x.who \in ActiveMembers /\ x.who # ownerId
  /\ x.op = "changeRole" /\ x.who = ownerId => x.role = "owner"
  /\ Committing(t, "add") => x.who # ownerId
  /\ Committing(t, "remove") /\ x.who = ownerId => x.heir \in ActiveOwners \ {ownerId}
  /\ Committing(t, "remove") /\ x.who # ownerId => x.heir = None

NamedOwnerStands == ownerId \in ActiveOwners /\ \A t \in Tx : StillSo(t)

(* Somebody is left to inherit whenever the last-owner check passes.       *)
LEMMA AnotherOwner ==
  ASSUME NEW u \in ActiveOwners, Cardinality(ActiveOwners) > 1
  PROVE  ActiveOwners \ {u} # {}
<1>1. CASE ActiveOwners = {u}
  <2>1. Cardinality(ActiveOwners) = 1
    BY <1>1, FS_Singleton
  <2>2. QED
    BY <2>1
<1>2. QED
  BY <1>1

(* Who reads disturbs nobody. *)
LEMMA OthersStillSo ==
  ASSUME NEW u \in Tx, StillSo(u), tx'[u] = tx[u], UNCHANGED <<ownerId, member>>
  PROVE  StillSo(u)'
BY DEF StillSo, Handover, Committing, ActiveMembers, ActiveOwners

LEMMA StartKeepsOwner ==
  ASSUME RosterInvariant, NamedOwnerStands, NEW t \in Tx, Start(t)
  PROVE  NamedOwnerStands'
<1>1. PICK u \in User, a \in Actor :
        \/ \E r \in Role : BeginAdd(t, u, r, a) \/ BeginChangeRole(t, u, r, a)
        \/ BeginRemove(t, u, a) \/ BeginDeactivate(t, u, a) \/ BeginReactivate(t, u, a)
        \/ BeginTransfer(t, u, a)
  BY DEF Start
<1>2. UNCHANGED <<ownerId, member>> /\ DOMAIN tx = Tx /\ ownerId \in User
  BY <1>1 DEF BeginAdd, BeginChangeRole, BeginRemove, BeginDeactivate, BeginReactivate,
              BeginTransfer, Begin, RosterInvariant, TypeOK
<1>3. ownerId' \in ActiveOwners'
  BY <1>2 DEF NamedOwnerStands, ActiveOwners, ActiveMembers
<1>4. StillSo(t)'
  <2>1. CASE \E r \in Role : BeginAdd(t, u, r, a)
    BY <1>2, <2>1 DEF BeginAdd, Begin, StillSo, Handover, Committing, Idle
  <2>2. CASE \E r \in Role : BeginChangeRole(t, u, r, a)
    BY <1>2, <2>2 DEF BeginChangeRole, Begin, StillSo, Handover, Committing, Idle
  <2>3. CASE BeginRemove(t, u, a)
    BY <1>2, <2>3 DEF BeginRemove, Begin, StillSo, Handover, Committing, Idle
  <2>4. CASE BeginDeactivate(t, u, a)
    BY <1>2, <2>4 DEF BeginDeactivate, Begin, StillSo, Handover, Committing, Idle
  <2>5. CASE BeginReactivate(t, u, a)
    BY <1>2, <2>5 DEF BeginReactivate, Begin, StillSo, Handover, Committing, Idle
  <2>6. CASE BeginTransfer(t, u, a)
    BY <1>2, <2>6 DEF BeginTransfer, Begin, StillSo, Handover, Committing, Idle, ActiveMembers
  <2>7. QED
    BY <1>1, <2>1, <2>2, <2>3, <2>4, <2>5, <2>6
<1>5. \A v \in Tx : v # t => tx'[v] = tx[v]
  BY <1>1, <1>2 DEF BeginAdd, BeginChangeRole, BeginRemove, BeginDeactivate, BeginReactivate,
                    BeginTransfer, Begin
<1>6. QED
  BY <1>2, <1>3, <1>4, <1>5, OthersStillSo DEF NamedOwnerStands

LEMMA LockKeepsOwner ==
  ASSUME RosterInvariant, NamedOwnerStands, NEW t \in Tx, LockMember(t)
  PROVE  NamedOwnerStands'
<1>1. UNCHANGED <<ownerId, member>> /\ tx \in [Tx -> TxRecord] /\ StillSo(t)
  BY DEF LockMember, Abort, RosterInvariant, TypeOK, NamedOwnerStands
<1>2. ownerId' \in ActiveOwners' /\ ActiveMembers' = ActiveMembers /\ ActiveOwners' = ActiveOwners
  BY <1>1 DEF NamedOwnerStands, ActiveOwners, ActiveMembers
<1>3. StillSo(t)'
  <2>1. CASE ~Rechecked(t)
    BY <1>1, <2>1 DEF LockMember, Abort, End, StillSo, Handover, Committing, Idle
  <2>2. CASE Rechecked(t)
    <3>1. PICK h \in Heirs(t) :
            tx' = [tx EXCEPT ![t].pc = "commit", ![t].heir = h,
                             ![t].held = member[tx[t].who].status # "NONE"]
      BY <2>2 DEF LockMember
    <3>2. /\ tx'[t].op = tx[t].op /\ tx'[t].who = tx[t].who /\ tx'[t].owner = tx[t].owner
          /\ tx'[t].role = tx[t].role /\ tx'[t].heir = h
      BY <1>1, <3>1 DEF TxRecord
    <3>3. tx[t].op = "add" => tx[t].who # ownerId
      BY <2>2 DEF Rechecked, NamedOwnerStands, ActiveOwners
    <3>4. ASSUME tx[t].op = "remove", tx[t].who = ownerId PROVE h \in ActiveOwners \ {ownerId}
      <4>1. ownerId \in ActiveOwners /\ Removable(ownerId)
        BY <2>2, <3>4 DEF Rechecked, NamedOwnerStands
      <4>2. ActiveOwners \ {ownerId} # {}
        BY <4>1, AnotherOwner DEF Removable, ActiveOwners
      <4>3. QED
        BY <1>1, <3>1, <3>4, <4>2 DEF Heirs, StillSo, Handover
    <3>5. ASSUME tx[t].op = "remove", tx[t].who # ownerId PROVE h = None
      BY <1>1, <3>1, <3>5 DEF Heirs, StillSo, Handover
    <3>6. QED
      BY <1>1, <1>2, <3>2, <3>3, <3>4, <3>5 DEF StillSo, Handover, Committing
  <2>3. QED
    BY <2>1, <2>2
<1>4. \A v \in Tx : v # t => tx'[v] = tx[v]
  BY <1>1 DEF LockMember, Abort, End
<1>5. QED
  BY <1>1, <1>2, <1>3, <1>4, OthersStillSo DEF NamedOwnerStands

(* A commit that leaves the named owner an active owner leaves it at that, *)
(* and what others on their way read as well: if it hands the organisation *)
(* over there are none.                                                    *)
LEMMA EndKeepsOwner ==
  ASSUME RosterInvariant, HandoversAlone, NamedOwnerStands, NEW t \in Tx, End(t),
         ownerId' \in ActiveOwners',
         Handover(tx[t]) \/ ownerId' = ownerId,
         tx[t].op # "none" \/ UNCHANGED <<ownerId, member>>
  PROVE  NamedOwnerStands'
<1>1. tx'[t] = Idle /\ \A u \in Tx : u # t => tx'[u] = tx[u]
  BY DEF End, RosterInvariant, TypeOK
<1>2. StillSo(t)'
  BY <1>1 DEF StillSo, Handover, Committing, Idle
<1>3. ASSUME NEW u \in Tx, u # t PROVE StillSo(u)'
  <2>1. StillSo(u) /\ tx'[u] = tx[u]
    BY <1>1, <1>3 DEF NamedOwnerStands
  <2>2. CASE UNCHANGED <<ownerId, member>>
    BY <2>1, <2>2, OthersStillSo
  <2>3. CASE Handover(tx[t])
    <3>1. tx'[u].op = "none"
      BY <1>3, <2>1, <2>3 DEF HandoversAlone
    <3>2. QED
      BY <3>1 DEF StillSo, Handover, Committing
  <2>4. CASE ~Handover(tx[t]) /\ tx[t].op # "none"
    <3>1. ~Handover(tx[u]) /\ ownerId' = ownerId
      BY <1>3, <2>4 DEF HandoversAlone
    <3>2. QED
      BY <2>1, <3>1 DEF StillSo, Handover, Committing
  <2>5. QED
    BY <2>2, <2>3, <2>4
<1>4. QED
  BY <1>2, <1>3 DEF NamedOwnerStands

LEMMA CommitKeepsOwner ==
  ASSUME RosterInvariant, HandoversAlone, NamedOwnerStands, NEW t \in Tx, Commit(t)
  PROVE  NamedOwnerStands'
<1>1. /\ ownerId \in ActiveOwners /\ StillSo(t) /\ Prepared(t) /\ ownerId \in User
      /\ member \in [User -> [status : Status, role : Role]] /\ tx[t] \in TxRecord
  BY DEF NamedOwnerStands, RosterInvariant, TypeOK
<1>2. End(t)
  BY DEF Commit, Add, Remove, Deactivate, Reactivate, ChangeRole, Transfer, Abort
<1>3. ownerId \in ActiveMembers /\ member[ownerId].status = "ACTIVE" /\ member[ownerId].role = "owner"
  BY <1>1 DEF ActiveOwners, ActiveMembers
<1>4. ownerId' \in User /\ member'[ownerId'].status = "ACTIVE" /\ member'[ownerId'].role = "owner"
  <2>1. CASE Add(t)
    BY <1>1, <1>3, <2>1 DEF Add, Abort, StillSo
  <2>2. CASE Remove(t)
    <3>1. CASE tx[t].who = ownerId
      <4>1. ownerId' \in ActiveOwners /\ ownerId' # ownerId
        BY <1>1, <2>2, <3>1, RosterAssumption
           DEF Remove, PassOwnership, StillSo, ActiveOwners, ActiveMembers
      <4>2. QED
        BY <1>1, <2>2, <3>1, <4>1 DEF Remove, SetStatus, ActiveOwners, ActiveMembers
    <3>2. CASE tx[t].who # ownerId
      <4>1. ownerId' = ownerId
        BY <1>1, <2>2, <3>2 DEF Remove, PassOwnership, StillSo
      <4>2. QED
        BY <1>1, <1>3, <2>2, <3>2, <4>1 DEF Remove, SetStatus
    <3>3. QED
      BY <3>1, <3>2
  <2>3. CASE Deactivate(t)
    BY <1>1, <1>3, <2>3 DEF Deactivate, SetStatus, Prepared, Suspendable, Committing
  <2>4. CASE Reactivate(t)
    BY <1>1, <1>3, <2>4 DEF Reactivate, SetStatus, Prepared, Committing
  <2>5. CASE ChangeRole(t)
    BY <1>1, <1>3, <2>5 DEF ChangeRole, StillSo, Committing
  <2>6. CASE Transfer(t)
    <3>1. tx[t].who \in ActiveMembers /\ tx[t].who # ownerId /\ tx[t].owner = ownerId
      BY <1>1, <2>6 DEF Transfer, Committing, StillSo, Handover
    <3>2. QED
      BY <1>1, <3>1, <2>6, RosterAssumption DEF Transfer, ActiveMembers
  <2>7. QED
    BY <2>1, <2>2, <2>3, <2>4, <2>5, <2>6 DEF Commit
<1>5. ownerId' \in ActiveOwners'
  BY <1>4 DEF ActiveOwners, ActiveMembers
<1>6. tx[t].op # "none" /\ (Handover(tx[t]) \/ ownerId' = ownerId)
  BY DEF Commit, Add, Remove, Deactivate, Reactivate, ChangeRole, Transfer, Abort, Committing, Handover
<1>7. QED
  BY <1>2, <1>5, <1>6, EndKeepsOwner

LEMMA NextKeepsOwner ==
  ASSUME RosterInvariant, HandoversAlone, NamedOwnerStands, [Next]_vars
  PROVE  NamedOwnerStands'
<1>1. CASE Next
  <2>1. PICK t \in Tx : Start(t) \/ LockMember(t) \/ Commit(t) \/ Fail(t)
    BY <1>1 DEF Next
  <2>2. CASE Fail(t)
    <3>1. End(t) /\ ownerId' \in ActiveOwners' /\ UNCHANGED <<ownerId, member>>
      BY <2>2 DEF Fail, Abort, NamedOwnerStands, ActiveOwners, ActiveMembers
    <3>2. QED
      BY <3>1, EndKeepsOwner
  <2>3. QED
    BY <2>1, <2>2, StartKeepsOwner, LockKeepsOwner, CommitKeepsOwner
<1>2. CASE UNCHANGED vars
  BY <1>2 DEF vars, NamedOwnerStands, StillSo, Handover, Committing, ActiveOwners, ActiveMembers
<1>3. QED
  BY <1>1, <1>2

(* The organisations row names an active owner, so that an owner remains   *)
(* (Docs/brief.md:1697, organisation.service.ownership.ts:95), in every    *)
(* behaviour in which no other change is on its way during a removal or a  *)
(* transfer: additions, changes of role, suspensions and reactivations may *)
(* interleave as they like.                                                *)
THEOREM OnlyRacesLoseOwners == Spec /\ []HandoversAlone => [](AnOwnerRemains /\ OwnerIsActive)
<1>1. Init => NamedOwnerStands
  BY DEF Init, NamedOwnerStands, StillSo, Handover, Committing, Idle, ActiveOwners, ActiveMembers
<1>2. RosterInvariant /\ NamedOwnerStands => AnOwnerRemains /\ OwnerIsActive
  BY DEF NamedOwnerStands, AnOwnerRemains, OwnerIsActive, ActiveOwners
<1>3. RosterInvariant /\ HandoversAlone /\ NamedOwnerStands /\ [Next]_vars => NamedOwnerStands'
  BY NextKeepsOwner
<1>4. QED
  BY <1>1, <1>2, <1>3, RosterSafety, PTL DEF Spec

(* There a transfer also demotes whom it replaces (Docs/brief.md:1256).    *)
THEOREM OnlyRacesSpareOldOwners == Spec /\ []HandoversAlone => TransferDemotes
<1> DEFINE A == \A t \in Tx : Transfer(t) /\ ownerId' # ownerId => member'[ownerId].role # "owner"
<1>1. Init => NamedOwnerStands
  BY DEF Init, NamedOwnerStands, StillSo, Handover, Committing, Idle, ActiveOwners, ActiveMembers
<1>2. RosterInvariant /\ NamedOwnerStands /\ [Next]_vars => A
  <2> SUFFICES ASSUME RosterInvariant, NamedOwnerStands, NEW t \in Tx, Transfer(t)
               PROVE  member'[ownerId].role # "owner"
    OBVIOUS
  <2>1. tx[t].owner = ownerId /\ ownerId \in User /\ member \in [User -> [status : Status, role : Role]]
    BY DEF Transfer, Committing, NamedOwnerStands, StillSo, Handover, RosterInvariant, TypeOK
  <2>2. QED
    BY <2>1, RosterAssumption DEF Transfer
<1>3. RosterInvariant /\ HandoversAlone /\ NamedOwnerStands /\ [Next]_vars => NamedOwnerStands'
  BY NextKeepsOwner
<1>4. QED
  BY <1>1, <1>2, <1>3, RosterSafety, PTL DEF Spec, TransferDemotes
=============================================================================
