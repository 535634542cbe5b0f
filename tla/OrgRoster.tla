----------------------------- MODULE OrgRoster -----------------------------
(***************************************************************************)
(* The members of ONE organisation: their status and role, and the owner   *)
(* the organisations row names.  RefreshSessions follows one user through  *)
(* these operations; here several users are changed at once.               *)
(*                                                                         *)
(* Every operation reads first and writes later in the same READ COMMITTED *)
(* transaction.  Four of them lock the member's row and look again; a role *)
(* change and an ownership transfer write by id what they decided before.  *)
(***************************************************************************)
EXTENDS Integers, FiniteSets

CONSTANTS
  User,
  Actor,        \* who calls: users, and None for a product backend
  None,         \* no acting user, no owner to name
  Role,         \* org_roles
  Managers,     \* the roles granted members.manage
  DemotedRole,  \* what an outgoing owner becomes
  MaxMembers,   \* max_members_per_org
  Tx,           \* connections: how many transactions run at once
  Operations    \* which operations callers invoke in this instance

Status == {"NONE", "ACTIVE", "DEACTIVATED", "REMOVED"}
Rowwise == {"add", "remove", "deactivate", "reactivate"}
Blind == {"changeRole", "transfer"}

ASSUME RosterAssumption ==
  /\ None \notin User
  /\ Actor \subseteq User \cup {None}
  /\ "owner" \in Role /\ "owner" \in Managers /\ Managers \subseteq Role
  /\ DemotedRole \in Role \ {"owner"}
  /\ MaxMembers \in Nat
  /\ Operations \subseteq Rowwise \cup Blind

VARIABLES
  ownerId,  \* Organisation.ownerId
  member,   \* per user: the org_members row, NONE without one
  tx        \* what each connection is doing

vars == <<ownerId, member, tx>>

Idle == [op |-> "none", pc |-> "idle", who |-> None, role |-> DemotedRole,
         owner |-> None, heir |-> None, held |-> FALSE]

----------------------------------------------------------------------------
ActiveMembers == {u \in User : member[u].status = "ACTIVE"}
ActiveOwners  == {u \in ActiveMembers : member[u].role = "owner"}

(* lockWorkspaceMembershipRows locks the row, where there is one. *)
RowFree(u) == \A t \in Tx : ~(tx[t].held /\ tx[t].who = u)

(* The acting user's standing; a backend has none and needs none. *)
Manages(a)   == a = None \/ (a \in ActiveMembers /\ member[a].role \in Managers)
ActsOwner(a) == a = None \/ (a \in ActiveMembers /\ member[a].role = "owner")
IsOwner(a)   == a = None \/ a = ownerId

End(t)   == tx' = [tx EXCEPT ![t] = Idle]
Abort(t) == End(t) /\ UNCHANGED <<ownerId, member>>

Begin(t, new) ==
  /\ new.op \in Operations
  /\ tx[t].pc = "idle"
  /\ tx' = [tx EXCEPT ![t] = new]
  /\ UNCHANGED <<ownerId, member>>

----------------------------------------------------------------------------
(* The reads and checks before any lock. *)

Suspendable(u) == u \in ActiveMembers \ ActiveOwners

BeginAdd(t, u, r, a) ==
  /\ Manages(a) /\ (r = "owner" => ActsOwner(a))
  /\ Begin(t, [Idle EXCEPT !.op = "add", !.pc = "lock", !.who = u, !.role = r])

BeginRemove(t, u, a) ==
  /\ Manages(a) /\ member[u].status # "NONE"
  /\ member[u].role = "owner" => ActsOwner(a) /\ Cardinality(ActiveOwners) > 1
  /\ Begin(t, [Idle EXCEPT !.op = "remove", !.pc = "lock", !.who = u, !.owner = ownerId])

BeginDeactivate(t, u, a) ==
  /\ Manages(a) /\ Suspendable(u)
  /\ Begin(t, [Idle EXCEPT !.op = "deactivate", !.pc = "lock", !.who = u])

BeginReactivate(t, u, a) ==
  /\ Manages(a) /\ member[u].status = "DEACTIVATED"
  /\ Begin(t, [Idle EXCEPT !.op = "reactivate", !.pc = "lock", !.who = u])

BeginChangeRole(t, u, r, a) ==
  /\ IsOwner(a) /\ u \in ActiveMembers /\ (u = ownerId => r = "owner")
  /\ Begin(t, [Idle EXCEPT !.op = "changeRole", !.pc = "commit", !.who = u, !.role = r])

BeginTransfer(t, u, a) ==
  /\ IsOwner(a) /\ u \in ActiveMembers \ {ownerId}
  /\ Begin(t, [Idle EXCEPT !.op = "transfer", !.pc = "commit", !.who = u, !.owner = ownerId])

----------------------------------------------------------------------------
(* Under the row lock the member, and what it is counted with, is read     *)
(* again.                                                                  *)

(* The last owner stays: only ACTIVE owners count. *)
Removable(u) == member[u].role = "owner" => Cardinality(ActiveOwners) > 1

(* Mutation: nothing is looked at again. *)
CheckedBefore(t) == TRUE

Rechecked(t) ==
  LET u == tx[t].who IN
  /\ tx[t].op = "add" => u \notin ActiveMembers /\ Cardinality(ActiveMembers) < MaxMembers
  /\ tx[t].op = "remove" => member[u].status # "NONE" /\ Removable(u)
  /\ tx[t].op = "deactivate" => Suspendable(u)
  /\ tx[t].op = "reactivate" => member[u].status = "DEACTIVATED"

(* Removing the member the organisations row names passes it to another    *)
(* active owner, in no particular order.                                   *)
Heirs(t) ==
  LET others == ActiveOwners \ {tx[t].who} IN
  IF tx[t].op = "remove" /\ tx[t].who = tx[t].owner /\ others # {} THEN others ELSE {None}

LockMember(t) ==
  LET u == tx[t].who IN
  /\ tx[t].pc = "lock" /\ RowFree(u)
  /\ IF ~Rechecked(t) THEN Abort(t)
     ELSE /\ \E h \in Heirs(t) :
               tx' = [tx EXCEPT ![t].pc = "commit", ![t].heir = h,
                                ![t].held = member[u].status # "NONE"]
          /\ UNCHANGED <<ownerId, member>>

----------------------------------------------------------------------------
(* Commits. *)

Committing(t, op) == tx[t].op = op /\ tx[t].pc = "commit"
SetStatus(u, s)   == member' = [member EXCEPT ![u].status = s]

(* A row that was not there to be locked is inserted: the unique index     *)
(* refuses a second one.                                                   *)
Add(t) ==
  LET u == tx[t].who IN
  /\ Committing(t, "add")
  /\ IF ~tx[t].held /\ member[u].status # "NONE" THEN Abort(t)
     ELSE /\ member' = [member EXCEPT ![u] = [status |-> "ACTIVE", role |-> tx[t].role]]
          /\ End(t) /\ UNCHANGED ownerId

(* Mutation: whether there is an heir is not asked. *)
PassToHeir(t) == ownerId' = tx[t].heir

PassOwnership(t) == ownerId' = IF tx[t].heir = None THEN ownerId ELSE tx[t].heir

Remove(t) ==
  /\ Committing(t, "remove")
  /\ SetStatus(tx[t].who, "REMOVED") /\ PassOwnership(t) /\ End(t)

Deactivate(t) ==
  /\ Committing(t, "deactivate")
  /\ SetStatus(tx[t].who, "DEACTIVATED") /\ End(t) /\ UNCHANGED ownerId

Reactivate(t) ==
  /\ Committing(t, "reactivate")
  /\ SetStatus(tx[t].who, "ACTIVE") /\ End(t) /\ UNCHANGED ownerId

(* Updates by id: they wait for the row and ask nothing more of it. *)
ChangeRole(t) ==
  /\ Committing(t, "changeRole") /\ RowFree(tx[t].who)
  /\ member' = [member EXCEPT ![tx[t].who].role = tx[t].role]
  /\ End(t) /\ UNCHANGED ownerId

Transfer(t) ==
  LET new == tx[t].who  old == tx[t].owner IN
  /\ Committing(t, "transfer") /\ RowFree(new) /\ RowFree(old)
  /\ ownerId' = new
  /\ member' = [member EXCEPT ![new].role = "owner", ![old].role = DemotedRole]
  /\ End(t)

(* A check outside this module refuses, a deadlock is broken, or the       *)
(* connection dies.                                                        *)
Fail(t) == tx[t].pc # "idle" /\ Abort(t)

(* createOrganisation: the creator is the owner and the only member. *)
Init ==
  \E u \in User :
    /\ ownerId = u
    /\ member = [v \in User |->
         IF v = u THEN [status |-> "ACTIVE", role |-> "owner"]
                  ELSE [status |-> "NONE", role |-> DemotedRole]]
    /\ tx = [t \in Tx |-> Idle]

Start(t) ==
  \E u \in User, a \in Actor :
    \/ \E r \in Role : BeginAdd(t, u, r, a) \/ BeginChangeRole(t, u, r, a)
    \/ BeginRemove(t, u, a) \/ BeginDeactivate(t, u, a) \/ BeginReactivate(t, u, a)
    \/ BeginTransfer(t, u, a)

Commit(t) ==
  \/ Add(t) \/ Remove(t) \/ Deactivate(t) \/ Reactivate(t)
  \/ ChangeRole(t) \/ Transfer(t)

Next == \E t \in Tx : Start(t) \/ LockMember(t) \/ Commit(t) \/ Fail(t)

Spec == Init /\ [][Next]_vars

----------------------------------------------------------------------------
TxRecord ==
  [op : Rowwise \cup Blind \cup {"none"}, pc : {"idle", "lock", "commit"},
   who : User \cup {None}, role : Role, owner : User \cup {None},
   heir : User \cup {None}, held : BOOLEAN]

TypeOK ==
  /\ ownerId \in User
  /\ member \in [User -> [status : Status, role : Role]]
  /\ tx \in [Tx -> TxRecord]

(* Whatever else commits while it waits, a deactivation never takes an     *)
(* owner: the role it refuses is the one the row has at that moment.       *)
OwnersAreNotSuspended ==
  [][\A u \in User : member[u].status = "ACTIVE" /\ member'[u].status = "DEACTIVATED"
                       => member[u].role # "owner"]_vars

(* A removal is final for whoever was about to suspend or reactivate the   *)
(* member: only adding the user again brings the membership back.          *)
RemovedStayRemoved ==
  [][\A u \in User : member[u].status = "REMOVED" /\ member'[u].status # "REMOVED"
       => \E t \in Tx : Committing(t, "add") /\ tx[t].who = u]_vars

(* What a transaction decided before it waited for a row it decides again  *)
(* under the lock, so that no suspension and no reactivation acts on a     *)
(* member who was promoted or removed meanwhile.                           *)
StatusesStand == OwnersAreNotSuspended /\ RemovedStayRemoved

(* Docs/brief.md:1697: the last owner cannot be removed. *)
AnOwnerRemains == ActiveOwners # {}

(* organisation.service.ownership.ts:95: ownership is not handed to a      *)
(* tombstoned row.                                                         *)
OwnerIsActive == ownerId \in ActiveMembers

(* Docs/brief.md:1256: a transfer demotes the old owner. *)
TransferDemotes ==
  [][\A t \in Tx : Transfer(t) /\ ownerId' # ownerId => member'[ownerId].role # "owner"]_vars

(* Docs/brief.md:898: the maximum of members per organisation. *)
SeatsAreLimited == Cardinality(ActiveMembers) <= MaxMembers

----------------------------------------------------------------------------
(* What the proofs carry from step to step. *)

(* A transaction at work names members, and one that looked again under a  *)
(* row lock still holds it and still sees what it saw.                     *)
Prepared(t) ==
  LET x == tx[t] IN
  /\ x.pc = "idle" <=> x.op = "none"
  /\ x.op # "none" => x.who \in User
  /\ x.op = "transfer" => x.owner \in User
  /\ x.pc = "lock" => x.op \in Rowwise /\ ~x.held
  /\ x.held => x.pc = "commit" /\ member[x.who].status # "NONE"
  /\ Committing(t, "remove") => x.held
  /\ Committing(t, "deactivate") => x.held /\ Suspendable(x.who)
  /\ Committing(t, "reactivate") => x.held /\ member[x.who].status = "DEACTIVATED"

(* A member row is locked by one transaction at a time. *)
RowMutex ==
  \A t, u \in Tx : tx[t].held /\ tx[u].held /\ tx[t].who = tx[u].who => t = u

RosterInvariant == TypeOK /\ RowMutex /\ \A t \in Tx : Prepared(t)
=============================================================================
