------------------------------ MODULE Joining ------------------------------
(***************************************************************************)
(* The ways into ONE organisation, Home, and its team: e-mailed            *)
(* invitations, the shareable link, access requests, self-join, and the    *)
(* placement of a user who has no workspace yet.  What they share are the  *)
(* membership tables and a unique index on them, so they meet there.       *)
(*                                                                         *)
(* A transaction reads an invitation without locking it and writes it by   *)
(* id.  What it decided may no longer hold then: CHECK constraints and     *)
(* unique indexes refuse some of these writes, and roll all of it back.    *)
(***************************************************************************)
EXTENDS Integers, FiniteSets

CONSTANTS
  User, None,
  Home,           \* the organisation, and its default team
  Fresh,          \* organisations and teams that do not exist yet
  MaxInvites, MaxRequests,  \* bounds: rows created
  Lifetime,       \* of an invitation and of the link
  MaxTime,        \* bound: the clock
  LinkUses,       \* max_uses of the link
  MemberInvites,  \* the organisation's member-invite setting
  AutoGrant,      \* users with an address in auto_grant_domains
  Tx,             \* connections
  Callers         \* bounds: the operations a behaviour is about, and how many
                  \* invitations it may create

Slot    == {Home} \cup Fresh
Invite  == 1..MaxInvites
Request == 1..MaxRequests
Operation ==
  {"invite", "resend", "approve", "deny", "revoke", "accept", "acceptToken", "decline",
   "declineToken", "redeem", "selfJoin", "requestAccess", "autoGrant", "approveRequest",
   "reject", "placeMapped", "placeOwn", "requiredTeam", "remove"}
Policy  == {"INVITE_ONLY", "OPEN_TO_ORG", "HIDDEN"}

ASSUME JoiningAssumption ==
  /\ None \notin User \cup Slot
  /\ Home \notin Fresh /\ IsFiniteSet(Fresh) /\ IsFiniteSet(User)
  /\ MaxInvites \in Nat /\ MaxRequests \in Nat /\ MaxTime \in Nat
  /\ Lifetime \in Nat \ {0} /\ LinkUses \in Nat \ {0}
  /\ MemberInvites \in {"allowed", "admin_approval", "disabled"}
  /\ AutoGrant \subseteq User
  /\ Callers \subseteq [ops : SUBSET Operation, invites : 0..MaxInvites]

VARIABLES
  db,   \* the tables; callers bounds the behaviour and is no table
  tx,   \* what each connection is doing
  now

vars == <<db, tx, now>>

(* who = None: no such row.  An invitation has at most one unused token.   *)
NoInvite == [who |-> None, approval |-> "NOT_REQUIRED", accepted |-> None,
             declined |-> FALSE, revoked |-> "NO", expires |-> 0, token |-> "none"]
NoRequest == [who |-> None, status |-> "PENDING"]

(* via is history: what made the user's row in Home's team ACTIVE.         *)
NoCause == [how |-> "none", ref |-> 0]

Idle == [op |-> "none", pc |-> "idle", who |-> None, ref |-> 0, at |-> 0,
         approval |-> "NOT_REQUIRED", found |-> FALSE, org |-> None,
         addOrg |-> FALSE, addTeam |-> FALSE, wake |-> FALSE, held |-> {}]

----------------------------------------------------------------------------
(* Invitations: the shared decisions of team-invite-state-machine.ts.      *)

Exists(row)     == row.who # None
IsTerminal(row) == row.accepted # None \/ row.declined \/ row.revoked # "NO"
IsResolved(row) == IsTerminal(row) \/ row.approval = "DENIED"
IsActionable(row)  == Exists(row) /\ ~IsResolved(row)
IsExpired(row, at) == row.expires <= at
Unreviewed(row)    == row.approval \in {"NOT_REQUIRED", "APPROVED"}

MayAccept(row, at)  == IsActionable(row) /\ ~IsExpired(row, at) /\ Unreviewed(row)
MayDecline(row)     == IsActionable(row)
MayResend(row)      == IsActionable(row) /\ Unreviewed(row)
MayRevoke(row)      == Exists(row) /\ ~IsTerminal(row)
MayApprove(row, at) == IsActionable(row) /\ row.approval = "PENDING" /\ ~IsExpired(row, at)
MayDeny(row)        == IsActionable(row) /\ row.approval = "PENDING"

(* What the database refuses: the CHECK constraints on team_invites, one   *)
(* actionable invitation per address, and one ACTIVE organisation per user *)
(* on a domain (all organisations here are on one).                        *)
AnyTerminalState(row) == TRUE
OneTerminalState(row) ==
  /\ row.accepted # None => ~row.declined
  /\ row.accepted # None \/ row.declined => row.revoked = "NO"
AcceptedIsApproved(row) == row.accepted # None => Unreviewed(row)
OneActionable(inv) ==
  \A i, j \in Invite : IsActionable(inv[i]) /\ IsActionable(inv[j]) /\ inv[i].who = inv[j].who
                         => i = j
OneActiveOrg(om) ==
  \A u \in User : \A o, p \in Slot : om[o][u] = "ACTIVE" /\ om[p][u] = "ACTIVE" => o = p

Allowed(new) ==
  /\ \A i \in Invite : OneTerminalState(new.inv[i]) /\ AcceptedIsApproved(new.inv[i])
  /\ OneActionable(new.inv)
  /\ OneActiveOrg(new.om)

----------------------------------------------------------------------------
(* Locks.  Selection, token and login transactions hold the user's         *)
(* advisory lock, a required-team placement its own; both until the end.   *)

HoldsUser(t) == tx[t].op \in {"accept", "acceptToken", "decline", "declineToken",
                              "redeem", "requestAccess", "autoGrant"}
                /\ tx[t].pc \notin {"idle", "lock"}
UserLockMissing(u) == TRUE
UserFree(u)  == \A t \in Tx : ~(HoldsUser(t) /\ tx[t].who = u)
PlaceFree(u) == \A t \in Tx : ~(tx[t].op = "requiredTeam" /\ tx[t].who = u)

(* The FOR UPDATE locks on the user's two rows in Home, where they exist.  *)
RowsFree(u)  == \A t \in Tx : tx[t].who = u => tx[t].held = {}
RowsOf(u)    == {k \in {"org", "team"} :
                   IF k = "org" THEN db.om[Home][u] # "NONE" ELSE db.tm[Home][u] # "NONE"}

Begin(t, new) ==
  /\ new.op \in db.callers.ops
  /\ tx[t] = Idle
  /\ tx' = [tx EXCEPT ![t] = new]
  /\ UNCHANGED <<db, now>>
Step(t, new)  == tx' = [tx EXCEPT ![t] = new] /\ UNCHANGED <<db, now>>
Abort(t)      == Step(t, Idle)

(* The end of a transaction whose writes are new, if they can be made.     *)
CommitInTwo(t, ok, new) ==
  /\ tx' = [tx EXCEPT ![t] = Idle]
  /\ db' = IF ok /\ Allowed(new) THEN new
           ELSE IF ok THEN [new EXCEPT !.inv = db.inv] ELSE db
  /\ UNCHANGED now
Commit(t, ok, new) ==
  /\ tx' = [tx EXCEPT ![t] = Idle]
  /\ db' = IF ok /\ Allowed(new) THEN new ELSE db
  /\ UNCHANGED now

At(t, op, pc) == tx[t].op = op /\ tx[t].pc = pc

----------------------------------------------------------------------------
(* Memberships.                                                            *)

Memberships(u) == {o \in Slot : db.om[o][u] # "NONE"}

(* findFirst without an order: any of the rows, tombstones included.       *)
SeenOrg(u) == IF Memberships(u) = {} THEN {None} ELSE Memberships(u)

MemberOf(o, u) == db.om[o][u] = "ACTIVE" /\ db.tm[o][u] = "ACTIVE"

(* The rows a transaction adds to Home, or makes ACTIVE again.             *)
Enrolled(t, how) ==
  LET x == tx[t]  u == x.who IN
  [db EXCEPT !.om[Home][u] = IF x.addOrg THEN "ACTIVE" ELSE @,
             !.tm[Home][u] = IF x.addTeam \/ x.wake THEN "ACTIVE" ELSE @,
             !.via[u] = IF x.addTeam \/ x.wake THEN [how |-> how, ref |-> x.ref] ELSE @]

(* Inserting a row that someone else inserted meanwhile is refused.        *)
CanEnrol(t) ==
  /\ tx[t].addOrg => db.om[Home][tx[t].who] = "NONE"
  /\ tx[t].addTeam => db.tm[Home][tx[t].who] = "NONE"

(* What a joining transaction decides from the memberships it sees; the    *)
(* organisation row found is o.                                            *)
Decided(t, o) ==
  LET x == tx[t]  team == db.tm[Home][x.who] IN
  [x EXCEPT !.pc = "commit",
            !.addOrg = o = None,
            !.addTeam = team = "NONE",
            !.wake = x.op \in {"redeem", "selfJoin"} /\ team = "GONE"]

(* accept and redeem lock the user's rows in Home before they look.        *)
LockAnyRows(t) ==
  LET u == tx[t].who IN
  /\ tx[t].op \in {"accept", "acceptToken", "redeem"} /\ tx[t].pc = "rows"
  /\ RowsFree(u)
  /\ \E o \in SeenOrg(u) :
       IF o \in {None, Home}
       THEN Step(t, [Decided(t, o) EXCEPT !.held = RowsOf(u)])
       ELSE Abort(t)
LockRows(t) ==
  LET u == tx[t].who IN
  /\ tx[t].op \in {"accept", "acceptToken", "redeem"} /\ tx[t].pc = "rows"
  /\ RowsFree(u)
  /\ \E o \in SeenOrg(u) :
       IF o \in {None, Home} /\ (tx[t].op = "redeem" /\ o = Home => db.om[Home][u] = "ACTIVE")
       THEN Step(t, [Decided(t, o) EXCEPT !.held = RowsOf(u)])
       ELSE Abort(t)

(* selfJoin locks them too, and asks only about the team row then.         *)
LockOwnRows(t) ==
  LET u == tx[t].who IN
  /\ At(t, "selfJoin", "rows") /\ RowsFree(u)
  /\ IF db.tm[Home][u] = "ACTIVE" THEN Abort(t)
     ELSE Step(t, [Decided(t, Home) EXCEPT !.held = RowsOf(u)])

(* A granted access request looks without locking.                         *)
LookForRows(t) ==
  LET u == tx[t].who IN
  /\ tx[t].op \in {"approveRequest", "autoGrant"} /\ tx[t].pc = "rows"
  /\ \E o \in SeenOrg(u) :
       IF o \in {None, Home} THEN Step(t, Decided(t, o)) ELSE Abort(t)

----------------------------------------------------------------------------
(* Inviting.                                                               *)

Rows(table) == {i \in DOMAIN table : table[i].who # None}
NextRow(table) == CHOOSE i \in DOMAIN table : table[i].who = None

(* Creating replaces the actionable invitation that was seen, resending    *)
(* the one there is.  Someone on the team, or in another organisation, is  *)
(* not invited.                                                            *)
BeginInvite(t, u, approval) ==
  /\ Cardinality(Rows(db.inv)) < db.callers.invites
  /\ db.tm[Home][u] = "NONE"
  /\ \E o \in SeenOrg(u) : o \in {None, Home}
  /\ Begin(t, [Idle EXCEPT !.op = "invite", !.pc = "commit", !.who = u, !.at = now,
                 !.approval = approval,
                 !.found = \E i \in Invite : IsActionable(db.inv[i]) /\ db.inv[i].who = u])

InviteAsManager(t, u) == BeginInvite(t, u, "NOT_REQUIRED")

InviteAsMember(t, u, by) ==
  /\ MemberOf(Home, by) /\ MemberInvites # "disabled"
  /\ BeginInvite(t, u, IF MemberInvites = "allowed" THEN "NOT_REQUIRED" ELSE "PENDING")

Resend(t, i) ==
  /\ Cardinality(Rows(db.inv)) < db.callers.invites
  /\ "resend" \in db.callers.ops /\ MayResend(db.inv[i])
  /\ Begin(t, [Idle EXCEPT !.op = "invite", !.pc = "commit", !.who = db.inv[i].who,
                 !.at = now, !.found = TRUE])

Replaced(u) ==
  [i \in Invite |-> IF IsActionable(db.inv[i]) /\ db.inv[i].who = u
                    THEN [db.inv[i] EXCEPT !.revoked = "REPLACED"] ELSE db.inv[i]]

(* The row is created last; its token is e-mailed unless it must be        *)
(* approved first.                                                         *)
IssueInvite(t) ==
  LET x == tx[t]
      old == IF x.found THEN Replaced(x.who) ELSE db.inv
      row == [NoInvite EXCEPT !.who = x.who, !.approval = x.approval,
                !.expires = x.at + Lifetime,
                !.token = IF x.approval = "PENDING" THEN "none" ELSE "live"]
  IN /\ At(t, "invite", "commit")
     /\ Cardinality(Rows(db.inv)) < db.callers.invites
     /\ Commit(t, TRUE, [db EXCEPT !.inv = [old EXCEPT ![NextRow(old)] = row]])

----------------------------------------------------------------------------
(* Reviewing: decided on the row as it was read, then written by id.       *)

Consume(token) == IF token = "live" THEN "used" ELSE token

BeginReview(t, op, i) ==
  /\ CASE op = "approve" -> MayApprove(db.inv[i], now)
       [] op = "deny"    -> MayDeny(db.inv[i])
       [] op = "revoke"  -> MayRevoke(db.inv[i])
  /\ Begin(t, [Idle EXCEPT !.op = op, !.pc = "commit", !.ref = i])

Approve(t) ==
  /\ At(t, "approve", "commit")
  /\ Commit(t, TRUE, [db EXCEPT !.inv[tx[t].ref] =
                        [@ EXCEPT !.approval = "APPROVED", !.token = "live"]])

RejectInstead(t) ==
  /\ At(t, "deny", "commit")
  /\ Commit(t, TRUE, [db EXCEPT !.inv[tx[t].ref].approval = "REJECTED"])
Deny(t) ==
  /\ At(t, "deny", "commit")
  /\ Commit(t, TRUE, [db EXCEPT !.inv[tx[t].ref].approval = "DENIED"])

Revoke(t) ==
  LET row == db.inv[tx[t].ref] IN
  /\ At(t, "revoke", "commit")
  /\ Commit(t, TRUE, [db EXCEPT !.inv[tx[t].ref] =
                        [row EXCEPT !.revoked = "REVOKED", !.token = Consume(row.token)]])

----------------------------------------------------------------------------
(* Answering, from the workspace chooser or from the e-mail.               *)

(* The chooser's transaction takes the user lock before it reads.          *)
BeginAccept(t, i) ==
  /\ MayAccept(db.inv[i], now) /\ UserFree(db.inv[i].who)
  /\ Begin(t, [Idle EXCEPT !.op = "accept", !.pc = "rows", !.who = db.inv[i].who, !.ref = i])

BeginDecline(t, i) ==
  /\ MayDecline(db.inv[i]) /\ UserFree(db.inv[i].who)
  /\ Begin(t, [Idle EXCEPT !.op = "decline", !.pc = "commit", !.who = db.inv[i].who, !.ref = i])

(* The e-mailed token names its user, so it is read before the lock.       *)
PresentToken(t, op, i) ==
  /\ op \in {"acceptToken", "declineToken"}
  /\ db.inv[i].token = "live"
  /\ op = "declineToken" => IsActionable(db.inv[i])
  /\ Begin(t, [Idle EXCEPT !.op = op, !.pc = "lock", !.who = db.inv[i].who, !.ref = i])

(* Accepting reads the invitation again then; declining keeps what it read.*)
LockUser(t) ==
  LET x == tx[t] IN
  /\ x.pc = "lock" /\ UserFree(x.who)
  /\ IF x.op = "declineToken" THEN Step(t, [x EXCEPT !.pc = "commit"])
     ELSE IF MayAccept(db.inv[x.ref], now) THEN Step(t, [x EXCEPT !.pc = "rows"])
     ELSE Abort(t)

(* The membership, the invitation and, from the e-mail, the token in one   *)
(* commit.  Both rows of the membership must be ACTIVE in the end.         *)
Accept(t) ==
  LET x == tx[t]  u == x.who  row == db.inv[x.ref]  new == Enrolled(t, "invite") IN
  /\ x.op \in {"accept", "acceptToken"} /\ x.pc = "commit"
  /\ Commit(t,
       /\ CanEnrol(t) /\ new.om[Home][u] = "ACTIVE" /\ new.tm[Home][u] = "ACTIVE"
       /\ x.op = "acceptToken" => row.token = "live",
       [new EXCEPT !.inv[x.ref] =
          [row EXCEPT !.accepted = u,
                      !.token = IF x.op = "acceptToken" THEN "used" ELSE row.token]])

Decline(t) ==
  LET x == tx[t]  row == db.inv[x.ref] IN
  /\ x.op \in {"decline", "declineToken"} /\ x.pc = "commit"
  /\ Commit(t, TRUE, [db EXCEPT !.inv[x.ref] =
       [row EXCEPT !.declined = TRUE,
                   !.token = IF x.op = "declineToken" THEN Consume(row.token) ELSE row.token]])

----------------------------------------------------------------------------
(* The shareable link, and joining an open team.                           *)

LinkValid(at) ==
  db.link.made /\ ~db.link.revoked /\ at < db.link.expires /\ db.link.uses < LinkUses

CreateLink ==
  /\ "redeem" \in db.callers.ops /\ ~db.link.made /\ db.policy # "HIDDEN"
  /\ db' = [db EXCEPT !.link.made = TRUE, !.link.expires = now + Lifetime]
  /\ UNCHANGED <<tx, now>>

RevokeLink ==
  /\ db.link.made /\ ~db.link.revoked
  /\ db' = [db EXCEPT !.link.revoked = TRUE]
  /\ UNCHANGED <<tx, now>>

BeginRedeem(t, u) ==
  /\ LinkValid(now) /\ db.policy # "HIDDEN" /\ UserFree(u)
  /\ Begin(t, [Idle EXCEPT !.op = "redeem", !.pc = "rows", !.who = u, !.at = now])

(* updateMany asks the link again, so a use is counted only while it is    *)
(* valid; an ACTIVE member's redemption is counted too.                    *)
RedeemUncounted(t) ==
  LET x == tx[t]  new == Enrolled(t, "link") IN
  /\ At(t, "redeem", "commit")
  /\ Commit(t, ~db.link.revoked /\ CanEnrol(t), [new EXCEPT !.link.uses = @ + 1])
Redeem(t) ==
  LET x == tx[t]  new == Enrolled(t, "link") IN
  /\ At(t, "redeem", "commit")
  /\ Commit(t, LinkValid(x.at) /\ CanEnrol(t), [new EXCEPT !.link.uses = @ + 1])

BeginSelfJoin(t, u) ==
  /\ db.om[Home][u] = "ACTIVE" /\ db.policy = "OPEN_TO_ORG"
  /\ Begin(t, [Idle EXCEPT !.op = "selfJoin", !.pc = "rows", !.who = u])

SelfJoin(t) ==
  /\ At(t, "selfJoin", "commit")
  /\ Commit(t, CanEnrol(t), Enrolled(t, "selfJoin"))

SetPolicy(p) ==
  /\ {"redeem", "selfJoin"} \cap db.callers.ops # {} /\ p # db.policy
  /\ db' = [db EXCEPT !.policy = p] /\ UNCHANGED <<tx, now>>

----------------------------------------------------------------------------
(* Access requests to Home's team.                                         *)

PendingOf(u) == {r \in Request : db.req[r] = [who |-> u, status |-> "PENDING"]}

(* A login that asks for access, under the user lock: granted to an        *)
(* address of an auto-grant domain, else written down to be reviewed.      *)
BeginRequestAccess(t, u) ==
  /\ UserFree(u) /\ db.tm[Home][u] = "NONE" /\ u \notin AutoGrant
  /\ Cardinality(Rows(db.req)) < MaxRequests
  /\ Begin(t, [Idle EXCEPT !.op = "requestAccess", !.pc = "commit", !.who = u,
                 !.found = PendingOf(u) # {}])

BeginAutoGrant(t, u) ==
  /\ UserFree(u) /\ db.tm[Home][u] = "NONE" /\ u \in AutoGrant
  /\ Begin(t, [Idle EXCEPT !.op = "autoGrant", !.pc = "rows", !.who = u])

RequestAccess(t) ==
  /\ At(t, "requestAccess", "commit")
  /\ Cardinality(Rows(db.req)) < MaxRequests
  /\ Commit(t, TRUE,
       IF tx[t].found THEN db
       ELSE [db EXCEPT !.req[NextRow(db.req)] = [who |-> tx[t].who, status |-> "PENDING"]])

BeginApproveRequest(t, r) ==
  /\ r \in Rows(db.req) /\ db.req[r].status # "APPROVED"
  /\ Begin(t, [Idle EXCEPT !.op = "approveRequest", !.pc = "rows", !.who = db.req[r].who,
                 !.ref = r])

ApproveRequest(t) ==
  /\ At(t, "approveRequest", "commit")
  /\ Commit(t, CanEnrol(t),
       [Enrolled(t, "request") EXCEPT !.req[tx[t].ref].status = "APPROVED"])

GrantAutomatically(t) ==
  /\ At(t, "autoGrant", "commit")
  /\ Commit(t, CanEnrol(t), Enrolled(t, "grant"))

(* Written by id whatever the status is.                                   *)
RejectRequest(r) ==
  /\ "reject" \in db.callers.ops
  /\ r \in Rows(db.req) /\ db.req[r].status # "REJECTED"
  /\ db' = [db EXCEPT !.req[r].status = "REJECTED"]
  /\ UNCHANGED <<tx, now>>

----------------------------------------------------------------------------
(* First placement of a user without an organisation: into Home by the     *)
(* domain mapping, into an organisation of their own, or, when a token     *)
(* must name a team, into a team of their own.                             *)

FreeSlots == {s \in Fresh : db.orgOf[s] = None}

BeginPlacement(t, op, u) ==
  /\ op \in {"placeMapped", "placeOwn"} /\ Memberships(u) = {}
  /\ Begin(t, [Idle EXCEPT !.op = op, !.pc = "commit", !.who = u,
                 !.addOrg = op = "placeMapped", !.addTeam = op = "placeMapped"])

PlaceMapped(t) ==
  /\ At(t, "placeMapped", "commit")
  /\ Commit(t, CanEnrol(t), Enrolled(t, "mapping"))

(* The placement lock orders these among themselves; a tombstone is not    *)
(* healed around.                                                          *)
BeginRequiredTeam(t, u) ==
  /\ PlaceFree(u)
  /\ \E o \in SeenOrg(u) :
       /\ o # None => /\ db.om[o][u] = "ACTIVE"
                      /\ \A w \in Slot : db.orgOf[w] = o => db.tm[w][u] = "NONE"
       /\ Begin(t, [Idle EXCEPT !.op = "requiredTeam", !.pc = "commit", !.who = u,
                      !.org = o])

(* A new team of the organisation found, or of a new one.                  *)
PlaceApart(t) ==
  LET x == tx[t]  s == CHOOSE f \in FreeSlots : TRUE IN
  /\ x.op \in {"placeOwn", "requiredTeam"} /\ x.pc = "commit"
  /\ FreeSlots # {}
  /\ Commit(t, TRUE,
       [db EXCEPT !.orgOf[s] = IF x.org = None THEN s ELSE x.org,
                  !.om[s][x.who] = IF x.org = None THEN "ACTIVE" ELSE @,
                  !.tm[s][x.who] = "ACTIVE"])

----------------------------------------------------------------------------
(* Removal holds the user lock and the row locks and looks at nothing else *)
(* it could lose: one step.  It takes every team row of the organisation.  *)
Remove(u) ==
  /\ "remove" \in db.callers.ops
  /\ db.om[Home][u] = "ACTIVE" /\ UserFree(u) /\ RowsFree(u)
  /\ db' = [db EXCEPT
       !.om[Home][u] = "GONE",
       !.tm = [s \in Slot |-> IF db.orgOf[s] = Home /\ @[s][u] # "NONE"
                              THEN [@[s] EXCEPT ![u] = "GONE"] ELSE @[s]]]
  /\ UNCHANGED <<tx, now>>

(* A check outside this module refuses (a limit, a role, a token that      *)
(* expired), a deadlock is broken, or the connection dies.                 *)
Fail(t) == tx[t] # Idle /\ Abort(t)

Tick == now < MaxTime /\ now' = now + 1 /\ UNCHANGED <<db, tx>>

(* Home exists; some of the users are in it.                               *)
Init ==
  \E in \in SUBSET User, callers \in Callers :
    LET Row(o, u) == IF o = Home /\ u \in in THEN "ACTIVE" ELSE "NONE" IN
    /\ db = [callers |-> callers,
             inv    |-> [i \in Invite |-> NoInvite],
             req    |-> [r \in Request |-> NoRequest],
             link   |-> [made |-> FALSE, revoked |-> FALSE, uses |-> 0, expires |-> 0],
             policy |-> "INVITE_ONLY",
             orgOf  |-> [s \in Slot |-> IF s = Home THEN Home ELSE None],
             om     |-> [o \in Slot |-> [u \in User |-> Row(o, u)]],
             tm     |-> [o \in Slot |-> [u \in User |-> Row(o, u)]],
             via    |-> [u \in User |-> NoCause]]
    /\ tx = [t \in Tx |-> Idle]
    /\ now = 0

Inviting(t) ==
  \/ \E u \in User : InviteAsManager(t, u) \/ \E by \in User : InviteAsMember(t, u, by)
  \/ \E i \in Invite :
       \/ Resend(t, i)
       \/ \E op \in {"approve", "deny", "revoke"} : BeginReview(t, op, i)
  \/ IssueInvite(t) \/ Approve(t) \/ Deny(t) \/ Revoke(t)

Answering(t) ==
  \/ \E i \in Invite :
       \/ BeginAccept(t, i) \/ BeginDecline(t, i)
       \/ \E op \in {"acceptToken", "declineToken"} : PresentToken(t, op, i)
  \/ LockUser(t) \/ Accept(t) \/ Decline(t)

JoiningOpenly(t) ==
  \/ \E u \in User : BeginRedeem(t, u) \/ BeginSelfJoin(t, u)
  \/ LockOwnRows(t) \/ Redeem(t) \/ SelfJoin(t)

Requesting(t) ==
  \/ \E u \in User : BeginRequestAccess(t, u) \/ BeginAutoGrant(t, u)
  \/ \E r \in Request : BeginApproveRequest(t, r)
  \/ LookForRows(t) \/ RequestAccess(t) \/ ApproveRequest(t) \/ GrantAutomatically(t)

Placing(t) ==
  \/ \E u \in User :
       BeginRequiredTeam(t, u) \/ \E op \in {"placeMapped", "placeOwn"} : BeginPlacement(t, op, u)
  \/ PlaceMapped(t) \/ PlaceApart(t)

Next ==
  \/ \E t \in Tx : \/ Inviting(t) \/ Answering(t) \/ JoiningOpenly(t) \/ Requesting(t)
                   \/ Placing(t) \/ LockRows(t) \/ Fail(t)
  \/ CreateLink \/ RevokeLink \/ \E p \in Policy : SetPolicy(p)
  \/ \E r \in Request : RejectRequest(r)
  \/ \E u \in User : Remove(u)
  \/ Tick

Spec == Init /\ [][Next]_vars

----------------------------------------------------------------------------
Standing == {"NONE", "ACTIVE", "GONE"}
Approval == {"NOT_REQUIRED", "PENDING", "APPROVED", "DENIED"}
Entry    == {"none", "invite", "link", "selfJoin", "request", "grant", "mapping"}

InviteRow == [who : User \cup {None}, approval : Approval, accepted : User \cup {None},
              declined : BOOLEAN, revoked : {"NO", "REVOKED", "REPLACED"},
              expires : Nat, token : {"none", "live", "used"}]
Tables ==
  [callers : Callers,
   inv : [Invite -> InviteRow],
   req : [Request -> [who : User \cup {None}, status : {"PENDING", "APPROVED", "REJECTED"}]],
   link : [made : BOOLEAN, revoked : BOOLEAN, uses : Nat, expires : Nat],
   policy : Policy,
   orgOf : [Slot -> Slot \cup {None}],
   om : [Slot -> [User -> Standing]],
   tm : [Slot -> [User -> Standing]],
   via : [User -> [how : Entry, ref : Nat]]]
TxRecord ==
  [op : Operation \cup {"none"}, pc : {"idle", "lock", "rows", "commit"}, who : User \cup {None}, ref : Nat,
   at : Nat, approval : Approval, found : BOOLEAN, org : Slot \cup {None},
   addOrg : BOOLEAN, addTeam : BOOLEAN, wake : BOOLEAN, held : SUBSET {"org", "team"}]

TypeOK == db \in Tables /\ tx \in [Tx -> TxRecord] /\ now \in Nat

(* An accepted, declined or revoked invitation keeps that state for good   *)
(* (team-invite-state-machine.ts:85), although every answer and review is  *)
(* written by id on the strength of an older read.  Only why it is revoked *)
(* may be overwritten: a revocation racing a replacement does.             *)
ResolvedOnce ==
  [][\A i \in Invite : IsTerminal(db.inv[i]) =>
       LET old == db.inv[i]  new == db'.inv[i] IN
       /\ new.accepted = old.accepted /\ new.declined = old.declined
       /\ new.revoked = "NO" <=> old.revoked = "NO"]_vars

(* However often an address is invited at the same time, invited again or  *)
(* sent the invitation again, one e-mailed link at most works for it.      *)
Usable(i) == db.inv[i].token = "live" /\ IsActionable(db.inv[i]) /\ Unreviewed(db.inv[i])
OneUsableInvite ==
  \A i, j \in Invite : Usable(i) /\ Usable(j) /\ db.inv[i].who = db.inv[j].who => i = j

(* A membership made from an invitation has that invitation accepted by    *)
(* the same user: one revoked or declined meanwhile leaves none behind.    *)
InvitesExplainMembers ==
  \A u \in User :
    db.via[u].how = "invite" =>
      \E i \in Invite : i = db.via[u].ref /\ db.inv[i].accepted = u

(* Whoever came by an invitation or the link is ACTIVE on the team only    *)
(* together with the organisation, removal included.                       *)
GuestsAreMembers ==
  \A u \in User :
    db.via[u].how \in {"invite", "link"} /\ db.tm[Home][u] = "ACTIVE"
      => db.om[Home][u] = "ACTIVE"

(* Racing first logins, placements and acceptances leave one organisation  *)
(* per user, and no organisation that lost its founder to the race.        *)
PlacementsAreWhole ==
  /\ OneActiveOrg(db.om)
  /\ \A s \in Fresh : db.orgOf[s] = s => \E u \in User : MemberOf(s, u)

(* The link admits no more users than it has uses, at most LinkUses.       *)
LinkAdmitsFew ==
  /\ db.link.uses <= LinkUses
  /\ Cardinality({u \in User : db.via[u].how = "link"}) <= db.link.uses

(* Nobody enters by a revoked link, whoever was on the way.                *)
RevokedLinkIsDead ==
  [][db.link.revoked => \A u \in User : db'.via[u].how = "link" => db.via[u].how = "link"]_vars

(* No way in brings back a member the organisation removed.                *)
TombstonesStay ==
  [][\A u \in User : db.om[Home][u] = "GONE" => db'.om[Home][u] = "GONE"]_vars

(* Logins that ask for access again and again leave one pending request.   *)
OnePendingRequest == \A u \in User : Cardinality(PendingOf(u)) <= 1

(* One invitation and one request to join at a time.                       *)
OneOpenOffer == OneUsableInvite /\ OnePendingRequest

(* A membership by invitation, link or placement is whole, whichever other *)
(* ways in its user tried at once.  Self-join and granted requests do not  *)
(* look at the organisation row again and are no part of this.             *)
MembershipsAreWhole == GuestsAreMembers /\ PlacementsAreWhole

(* What was decided stands: an answer to an invitation, the revocation of  *)
(* the link, the removal of a member.                                      *)
DecisionsStand == ResolvedOnce /\ RevokedLinkIsDead /\ TombstonesStay

(* team-invite-state-machine.ts:96: "A DENIED invite carries no terminal   *)
(* timestamp but can never be accepted or resent."                         *)
DeniedStaysDenied ==
  [][\A i \in Invite : db.inv[i].approval = "DENIED" => db'.inv[i].approval = "DENIED"]_vars
=============================================================================
