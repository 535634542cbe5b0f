-------------------------- MODULE RefreshSessions --------------------------
(***************************************************************************)
(* The refresh sessions of ONE user: authorization codes, refresh-token    *)
(* rows and their families, the global credential epoch                    *)
(* (User.tokenVersion), the memberships a session may be scoped to, and    *)
(* the database transactions that read and write them.                     *)
(*                                                                         *)
(* A transaction is split where another one can interleave: at the reads   *)
(* made before a lock is held, at each lock it waits for, at the decision  *)
(* taken under the lock, and at its commit, where all its writes become    *)
(* visible.  Locks last until commit or rollback, so they are derived from *)
(* the place a transaction has reached.  Users share no row, lock or epoch *)
(* here, so one user is the general case.                                  *)
(***************************************************************************)
EXTENDS Integers, FiniteSets

CONSTANTS
  RowId,          \* refresh_tokens ids, a bound on the rows ever created
  CodeId,         \* authorization_codes ids, a bound on the codes ever issued
  Tx,             \* connections: how many transactions run at once
  None,           \* the SQL NULL of every reference
  Domain,         \* client domains
  Org, OrgDomain, \* organisations and the domain each belongs to
  Workspace,      \* teams
  OrgOf,          \* the organisation of a team
  DefaultTeam,    \* the default team of an organisation
  CrossProduct,   \* domains whose product policy is all_active_memberships
  MfaRequired,    \* scopes whose 2FA policy demands a completed second factor
  MfaProofs,      \* whether interactive logins complete a second factor
  SessionTtls,    \* refresh lifetimes a configuration may choose
  MinTtl,         \* MIN_INHERITED_REFRESH_TTL_SECONDS
  CodeTtl,        \* AUTHORIZATION_CODE_TTL_MS
  Grace,          \* REFRESH_TOKEN_REPLAY_GRACE_MS
  Retention,      \* TOKEN_PRUNE_RETENTION_DAYS
  MaxDepth,       \* MAX_REFRESH_REPLAY_CHAIN_DEPTH
  Operations,     \* which operations callers invoke in this instance
  MaxTime,        \* bound on the clock
  MaxEpoch        \* bound on the credential resets callers ask for

Never  == -1
Scope  == Workspace \cup {None}
Status == {"NONE", "ACTIVE", "DEACTIVATED", "REMOVED", "DELETED"}
Time   == 0 .. MaxTime

Rotations  == {"refresh", "switch"}
Issuing    == {"exchange"} \cup Rotations
Revoking   == {"deactivate", "removeMember", "removeTeamMember"}
Memberwise ==
  {"reactivate", "addMember", "addTeamMember", "deleteTeam", "deleteOrg"}
AllOperations ==
  Issuing \cup Revoking \cup Memberwise
    \cup {"issueCode", "logout", "reset", "setDomainStatus"}

ASSUME ConstantsAssumption ==
  /\ None \notin RowId \cup CodeId \cup Workspace \cup Domain
  /\ OrgDomain \in [Org -> Domain]
  /\ OrgOf \in [Workspace -> Org]
  /\ DefaultTeam \in [Org -> Workspace]
  /\ CrossProduct \subseteq Domain
  /\ MfaRequired \subseteq Scope /\ MfaProofs \subseteq BOOLEAN
  /\ Operations \subseteq AllOperations
  /\ SessionTtls \subseteq Nat \ {0}
  /\ MinTtl \in Nat /\ CodeTtl \in Nat /\ Grace \in Nat /\ Retention \in Nat
  /\ MaxDepth \in Nat /\ MaxTime \in Nat /\ MaxEpoch \in Nat

(* An organisation's default team is one of its teams. *)
ASSUME DefaultTeamAssumption == \A o \in Org : OrgOf[DefaultTeam[o]] = o

VARIABLES
  now,       \* the clock every transaction reads
  epoch,     \* User.tokenVersion
  row,       \* the refresh_tokens table
  code,      \* the authorization_codes table
  orgSt,     \* OrgMember.status of the user, by organisation
  teamSt,    \* TeamMember.status of the user, by team
  disabled,  \* client domains whose status is not active
  tx,        \* what each connection is doing
  resetAt,   \* history: the epoch the last credential reset opened
  minted,    \* history: the tv claim last signed for each family
  bumps      \* history: the epoch bumps each family caused

store == <<row, code, epoch>>
history == <<resetAt, minted, bumps>>
members == <<orgSt, teamSt>>
vars == <<now, store, members, disabled, tx, history>>

----------------------------------------------------------------------------
(* Rows, codes and transactions.  A family is named by its first row.  The *)
(* fields auth (the credential epoch the family authenticated under) and   *)
(* code (what it was exchanged for) are history: the table has neither.    *)

BlankRow ==
  [st |-> "none", fam |-> None, parent |-> None, next |-> None,
   dom |-> None, ws |-> None, mfa |-> FALSE, created |-> 0, expires |-> 0,
   revoked |-> Never, sec |-> FALSE, auth |-> 0, code |-> None]

BlankCode ==
  [st |-> "none", dom |-> None, ws |-> None, mfa |-> FALSE, epoch |-> 0,
   expires |-> 0, used |-> FALSE]

Idle ==
  [op |-> "none", pc |-> "idle", ref |-> None, tip |-> None, dom |-> None,
   src |-> None, dst |-> None, mfa |-> FALSE, at |-> 0, epoch |-> 0,
   orgs |-> {}]

Exists(r) == row[r].st = "row"
Live(r)   == Exists(r) /\ row[r].revoked = Never
Family(r) == {s \in RowId : row[s].st # "none" /\ row[s].fam = row[r].fam}

----------------------------------------------------------------------------
(* Locks.  "user" is the user advisory lock (the user+domain one is only   *)
(* ever taken by a holder of it); the product-policy lock is held shared   *)
(* by every issuing transaction from its first statement; orgs is the set  *)
(* of organisations whose membership rows are locked FOR UPDATE.           *)

UserLocked == {"decide", "source", "target", "commit"}

(* Mutations: one kind of transaction does not take the user lock. *)
ResetUnlocked(t)   == tx[t].op \notin Memberwise \cup {"reset"}
RefreshUnlocked(t) == tx[t].op \notin Memberwise \cup {"refresh"}
SwitchUnlocked(t)  == tx[t].op \notin Memberwise \cup {"switch"}

TakesUserLock(t) == tx[t].op \notin Memberwise
HoldsUser(t)     == TakesUserLock(t) /\ tx[t].pc \in UserLocked

(* Mutation: code exchange does not take the product-policy lock. *)
ExchangeUnlocked(t) == tx[t].op \in Rotations

HoldsProduct(t)    == \/ tx[t].op \in Issuing
                      \/ tx[t].op = "issueCode" /\ tx[t].pc \in UserLocked

OrgFree(t, o) == \A u \in Tx \ {t} : o \notin tx[u].orgs

(* Mutation: membership row locks survive the transaction. *)
EndKeepingLocks(t) == tx' = [tx EXCEPT ![t] = [Idle EXCEPT !.orgs = tx[t].orgs]]

End(t)     == tx' = [tx EXCEPT ![t] = Idle]
Goto(t, p) == tx' = [tx EXCEPT ![t].pc = p]

(* Rollback: the transaction leaves nothing behind. *)
Abort(t) == End(t) /\ UNCHANGED <<now, store, members, disabled, history>>

----------------------------------------------------------------------------
(* Queries and updates on the tables. *)

(* The two ACTIVE memberships, in this client's domain or, where the       *)
(* product policy allows it, in any.                                       *)
ActiveScope(d, w) ==
  \/ w = None
  \/ /\ orgSt[OrgOf[w]] = "ACTIVE" /\ teamSt[w] = "ACTIVE"
     /\ OrgDomain[OrgOf[w]] = d \/ d \in CrossProduct

(* Mutation: the policy is resolved without the scope asked for. *)
MfaUnscoped(w, mfa) == None \in MfaRequired => mfa

MfaSufficient(w, mfa) == w \in MfaRequired => mfa

(* updateMany(... revokedAt: null) *)
RevokeIn(rows, S) ==
  [r \in RowId |-> IF r \in S /\ rows[r].st = "row" /\ rows[r].revoked = Never
                   THEN [rows[r] EXCEPT !.revoked = now] ELSE rows[r]]

(* updateMany(... securityRevokedAt: null): also re-dates rows revoked     *)
(* earlier.                                                                *)
CondemnIn(rows, S) ==
  [r \in RowId |-> IF r \in S /\ rows[r].st = "row" /\ ~rows[r].sec
                   THEN [rows[r] EXCEPT !.revoked = now, !.sec = TRUE]
                   ELSE rows[r]]

(* Mutations: the epoch moves on every presentation, or never. *)
CondemnAgain(rows, r, S) ==
  /\ row' = CondemnIn(rows, S \cup {r})
  /\ epoch' = epoch + 1
  /\ bumps' = [bumps EXCEPT ![rows[r].fam] = @ + 1]

CondemnSilently(rows, r, S) ==
  row' = CondemnIn(rows, S \cup {r}) /\ UNCHANGED <<epoch, bumps>>

(* The presented row is classified once; only then are the rows of S       *)
(* marked and the epoch moved.                                             *)
Condemn(rows, r, S) ==
  IF rows[r].st = "row" /\ ~rows[r].sec
  THEN /\ row' = CondemnIn(rows, S \cup {r})
       /\ epoch' = epoch + 1
       /\ bumps' = [bumps EXCEPT ![rows[r].fam] = @ + 1]
  ELSE row' = rows /\ UNCHANGED <<epoch, bumps>>

----------------------------------------------------------------------------
(* The chain of deterministic successors, walked from a presented row. *)

(* The k-th successor of r, None past the end. *)
Path(r) ==
  LET p[k \in 0 .. MaxDepth + 1] ==
        IF k = 0 THEN r
        ELSE IF p[k-1] = None \/ row[p[k-1]].st # "row" THEN None
        ELSE row[p[k-1]].next
  IN p

(* n ends the chain of a row r that was rotated. *)
IsTip(r, n) == row[n].next = None /\ \E k \in 1 .. MaxDepth : Path(r)[k] = n

(* A successor the walk meets is missing, was met before, or is not the    *)
(* child its predecessor must have.                                        *)
Broken(r) ==
  LET p == Path(r) IN
  \E k \in 1 .. MaxDepth :
    /\ p[k] # None
    /\ \/ ~Exists(p[k])
       \/ \E j \in 0 .. k - 1 : p[j] = p[k]
       \/ row[p[k]].parent # p[k-1]
       \/ <<row[p[k]].fam, row[p[k]].dom, row[p[k]].mfa>>
            # <<row[r].fam, row[r].dom, row[r].mfa>>

TooDeep(r) == Path(r)[MaxDepth + 1] # None

(* Some successor already carries another scope than the one asked for. *)
Conflicting(r, w) ==
  LET p == Path(r) IN \E k \in 1 .. MaxDepth : p[k] # None /\ row[p[k]].ws # w

----------------------------------------------------------------------------
(* Beginning a transaction. *)

(* The ids a creating transaction will need are still unused: a bound of   *)
(* the model, not of the code.                                             *)
RoomForRow ==
  Cardinality({r \in RowId : row[r].st = "none"})
    > Cardinality({u \in Tx : tx[u].op \in Issuing})
RoomForCode ==
  Cardinality({c \in CodeId : code[c].st = "none"})
    > Cardinality({u \in Tx : tx[u].op = "issueCode"})

Begin(t, new) ==
  /\ new.op \in Operations
  /\ tx[t].pc = "idle"
  /\ tx' = [tx EXCEPT ![t] = new]
  /\ UNCHANGED <<now, store, members, disabled, history>>

(* Interactive authentication proves a credential under the epoch of this  *)
(* moment; the code is asked for later, after chooser, 2FA, signatures.    *)
Authenticate(t, d, w, mfa) ==
  /\ RoomForCode
  /\ Begin(t, [Idle EXCEPT !.op = "issueCode", !.pc = "login", !.dom = d,
                            !.src = w, !.mfa = mfa, !.epoch = epoch])

BeginIssueCode(t) ==
  /\ tx[t].pc = "login"
  /\ Goto(t, "user")
  /\ UNCHANGED <<now, store, members, disabled, history>>

(* consumeAuthorizationCode reads the row and checks it before any lock;   *)
(* the instant it read is the one the final update compares with.          *)
BeginExchange(t, c) ==
  /\ RoomForRow
  /\ code[c].st = "code" /\ ~code[c].used /\ code[c].expires > now
  /\ code[c].dom \notin disabled
  /\ Begin(t, [Idle EXCEPT !.op = "exchange", !.pc = "user", !.ref = c,
                  !.dom = code[c].dom, !.src = code[c].ws, !.mfa = code[c].mfa,
                  !.at = now, !.epoch = code[c].epoch])

(* Anyone holding the token of r presents it, for its own scope ... *)
BeginRefresh(t, r) ==
  /\ RoomForRow /\ Exists(r) /\ row[r].dom \notin disabled
  /\ Begin(t, [Idle EXCEPT !.op = "refresh", !.pc = "user", !.ref = r,
                            !.dom = row[r].dom, !.src = row[r].ws])

(* ... or to move the session to workspace w. *)
BeginSwitch(t, r, w) ==
  /\ RoomForRow /\ Exists(r) /\ row[r].dom \notin disabled
  /\ Begin(t, [Idle EXCEPT !.op = "switch", !.pc = "user", !.ref = r,
                            !.dom = row[r].dom, !.src = row[r].ws, !.dst = w])

BeginLogout(t, r) ==
  /\ Exists(r)
  /\ Begin(t, [Idle EXCEPT !.op = "logout", !.pc = "user", !.ref = r,
                            !.dom = row[r].dom])

BeginReset(t) ==
  /\ epoch < MaxEpoch
  /\ Begin(t, [Idle EXCEPT !.op = "reset", !.pc = "user"])

(* Membership changes: those that revoke sessions take the user lock first. *)
BeginRevoking(t, op, w) ==
  Begin(t, [Idle EXCEPT !.op = op, !.pc = "user", !.src = w])
BeginMemberwise(t, op, w) ==
  Begin(t, [Idle EXCEPT !.op = op, !.pc = "source", !.src = w])

----------------------------------------------------------------------------
(* Locks, in the order every path takes them: user, organisation rows of   *)
(* the source scope, organisation rows of the switch target.               *)

LockUser(t) ==
  /\ tx[t].pc = "user"
  /\ \A u \in Tx : ~HoldsUser(u)
  /\ Goto(t, IF tx[t].op \in Revoking THEN "source" ELSE "decide")
  /\ UNCHANGED <<now, store, members, disabled, history>>

(* Where a decided transaction goes: a null scope has no rows to lock. *)
FirstLock(src, dst) ==
  IF src # None THEN "source" ELSE IF dst # None THEN "target" ELSE "commit"

(* A scope check that fails, or a policy that refuses, after the decision  *)
(* to rotate simply rolls back.  On a replay the clock is read again: past *)
(* the grace the use is reuse after all, and a switch whose edge already   *)
(* committed retires the family it cannot enter.                           *)
Refuse(t) ==
  LET r == tx[t].ref IN
  IF tx[t].tip = None THEN Abort(t)
  ELSE IF now - tx[t].at > Grace
  THEN /\ Condemn(row, r, Family(r)) /\ End(t)
       /\ UNCHANGED <<now, code, members, disabled, resetAt, minted>>
  ELSE IF tx[t].op = "switch"
  THEN /\ row' = RevokeIn(row, Family(r)) /\ End(t)
       /\ UNCHANGED <<now, code, epoch, members, disabled, history>>
  ELSE Abort(t)

(* The scope is read once without locks: no membership, no waiting. *)
RefuseScope(t) ==
  /\ tx[t].op \in Issuing \cup {"issueCode"}
  /\ \/ tx[t].pc = "source" /\ ~ActiveScope(tx[t].dom, tx[t].src)
     \/ tx[t].pc = "target" /\ ~ActiveScope(tx[t].dom, tx[t].dst)
  /\ Refuse(t)

LockSource(t) ==
  LET o == OrgOf[tx[t].src] IN
  /\ tx[t].pc = "source" /\ OrgFree(t, o)
  /\ tx[t].op \in Issuing \cup {"issueCode"} => ActiveScope(tx[t].dom, tx[t].src)
  /\ tx' = [tx EXCEPT ![t].orgs = @ \cup {o},
                      ![t].pc = IF tx[t].dst = None THEN "commit" ELSE "target"]
  /\ UNCHANGED <<now, store, members, disabled, history>>

LockTarget(t) ==
  LET o == OrgOf[tx[t].dst] IN
  /\ tx[t].pc = "target" /\ OrgFree(t, o)
  /\ ActiveScope(tx[t].dom, tx[t].dst)
  /\ tx' = [tx EXCEPT ![t].orgs = @ \cup {o}, ![t].pc = "commit"]
  /\ UNCHANGED <<now, store, members, disabled, history>>

----------------------------------------------------------------------------
(* Decisions taken under the user lock. *)

(* A code without a scope may settle on a workspace when it is exchanged,  *)
(* as the client's configuration asks; for a recognized product the scope  *)
(* must have been bound before.                                            *)
Resolvable(t) ==
  IF tx[t].op = "exchange" /\ tx[t].src = None /\ tx[t].dom \notin CrossProduct
  THEN {w \in Scope : ActiveScope(tx[t].dom, w)} ELSE {None}
Unbound(t) == tx[t].src = None /\ tx[t].dom \in CrossProduct

(* lockAndAssertAuthenticationEpoch: the credential the code stands for    *)
(* must still be the current one.                                          *)
DecideCredential(t) ==
  /\ tx[t].op \in {"issueCode", "exchange"} /\ tx[t].pc = "decide"
  /\ IF tx[t].epoch # epoch THEN Abort(t)
     ELSE \E w \in Resolvable(t) :
            /\ tx' = [tx EXCEPT ![t].dst = w, ![t].pc = FirstLock(tx[t].src, w)]
            /\ UNCHANGED <<now, store, members, disabled, history>>

Target(t) == IF tx[t].op = "switch" THEN tx[t].dst ELSE row[tx[t].ref].ws
SameScope(t) == tx[t].op = "switch" /\ tx[t].dst = row[tx[t].ref].ws

(* The row is read again.  Never rotated: it must be live and unexpired,   *)
(* and a switch must lead somewhere else.                                  *)
DecideRotation(t) ==
  LET r == tx[t].ref IN
  /\ tx[t].op \in Rotations /\ tx[t].pc = "decide"
  /\ row[r].next = None \/ ~Exists(r)
  /\ IF ~Live(r) \/ row[r].expires <= now \/ SameScope(t)
     THEN Abort(t)
     ELSE /\ Goto(t, FirstLock(tx[t].src, tx[t].dst))
          /\ UNCHANGED <<now, store, members, disabled, history>>

(* Already rotated, and the walk or the clock shows theft or corruption: a *)
(* broken chain cannot name one family, so every row of the user goes.     *)
RejectReplay(t) ==
  LET r == tx[t].ref IN
  /\ tx[t].op \in Rotations /\ tx[t].pc = "decide"
  /\ Exists(r) /\ row[r].next # None
  /\ Broken(r) \/ TooDeep(r) \/ now - row[r].revoked > Grace
  /\ Condemn(row, r, IF Broken(r) THEN RowId ELSE Family(r))
  /\ End(t)
  /\ UNCHANGED <<now, code, members, disabled, resetAt, minted>>

(* Already rotated, within the grace: a response was lost.  The retry is   *)
(* answered with the newest descendant if that one is live and carries the *)
(* scope asked for; a switch checks only its target again.                 *)
DecideReplay(t) ==
  LET r == tx[t].ref IN
  /\ tx[t].op \in Rotations /\ tx[t].pc = "decide"
  /\ Exists(r) /\ row[r].next # None
  /\ ~Broken(r) /\ ~TooDeep(r) /\ now - row[r].revoked <= Grace
  /\ \E tip \in RowId :
       LET src == IF tx[t].op = "switch" THEN None ELSE row[tip].ws IN
       /\ IsTip(r, tip)
       /\ IF ~Live(tip) \/ Conflicting(r, Target(t)) \/ SameScope(t)
          THEN Abort(t)
          ELSE /\ tx' = [tx EXCEPT ![t].tip = tip, ![t].at = row[r].revoked,
                          ![t].src = src, ![t].pc = FirstLock(src, tx[t].dst)]
               /\ UNCHANGED <<now, store, members, disabled, history>>

(* Two-factor or signature policy refuses a rotation or a replay.  The     *)
(* signature verdict comes from another component and may be either.       *)
RefusePolicy(t) ==
  /\ tx[t].op \in Rotations /\ tx[t].pc = "commit"
  /\ Refuse(t)

----------------------------------------------------------------------------
(* Commits: the writes of a transaction, all at once. *)

CommitCode(t) ==
  /\ tx[t].op = "issueCode" /\ tx[t].pc = "commit"
  /\ \E c \in CodeId :
       /\ code[c].st = "none"
       /\ code' = [code EXCEPT ![c] =
            [st |-> "code", dom |-> tx[t].dom, ws |-> tx[t].src,
             mfa |-> tx[t].mfa, epoch |-> tx[t].epoch,
             expires |-> now + CodeTtl, used |-> FALSE]]
  /\ End(t)
  /\ UNCHANGED <<now, row, epoch, members, disabled, history>>

(* Mutation: the update does not ask that usedAt is null. *)
ClaimableAgain(c, at) == code[c].st = "code" /\ code[c].expires > at

Claimable(c, at) == code[c].st = "code" /\ ~code[c].used /\ code[c].expires > at

(* The code is claimed by a compare-and-set against the instant the        *)
(* transaction read, and a new family starts.                              *)
CommitExchange(t) ==
  LET c == tx[t].ref
      w == IF tx[t].dst # None THEN tx[t].dst ELSE tx[t].src IN
  /\ tx[t].op = "exchange" /\ tx[t].pc = "commit"
  /\ IF ~Claimable(c, tx[t].at) \/ Unbound(t) \/ ~MfaSufficient(w, tx[t].mfa)
     THEN Abort(t)
     ELSE \E n \in RowId, ttl \in SessionTtls :
            /\ row[n].st = "none"
            /\ row' = [row EXCEPT ![n] =
                 [BlankRow EXCEPT !.st = "row", !.fam = n, !.dom = tx[t].dom,
                    !.ws = w, !.mfa = tx[t].mfa, !.created = now,
                    !.expires = now + ttl, !.auth = tx[t].epoch, !.code = c]]
            /\ code' = [code EXCEPT ![c].used = TRUE]
            /\ minted' = [minted EXCEPT ![n] = epoch]
            /\ End(t)
            /\ UNCHANGED <<now, epoch, members, disabled, resetAt, bumps>>

Longest(a, b) == IF a >= b THEN a ELSE b

(* What exchangeRefreshToken inserts: same family and assurance, the       *)
(* session's whole lifetime again, the scope asked for.                    *)
Successor(r, w) ==
  [row[r] EXCEPT !.parent = r, !.next = None, !.ws = w, !.created = now,
     !.revoked = Never, !.sec = FALSE,
     !.expires = now + Longest(row[r].expires - row[r].created, MinTtl)]

(* Mutations: the predecessor is linked but stays live, or is revoked as   *)
(* of its expiry.                                                          *)
LinkedOnly(rows, r, n) == [rows EXCEPT ![r].next = n]
SupersededLater(rows, r, n) ==
  [rows EXCEPT ![r].revoked = rows[r].expires, ![r].next = n]

Superseded(rows, r, n) == [rows EXCEPT ![r].revoked = now, ![r].next = n]

(* Insert the successor, then retire r by compare-and-set.  Losing that    *)
(* race would be reuse, and would commit with the successor inserted.      *)
Rotate(t) ==
  LET r == tx[t].ref IN
  /\ tx[t].op \in Rotations /\ tx[t].pc = "commit" /\ tx[t].tip = None
  /\ tx[t].op = "switch" => MfaSufficient(tx[t].dst, row[r].mfa)
  /\ IF row[r].expires <= now \/ \E s \in RowId : Exists(s) /\ row[s].parent = r
     THEN Abort(t)
     ELSE \E n \in RowId :
            LET inserted == [row EXCEPT ![n] = Successor(r, Target(t))] IN
            /\ row[n].st = "none"
            /\ IF Live(r) /\ row[r].next = None
               THEN /\ row' = Superseded(inserted, r, n)
                    /\ minted' = [minted EXCEPT ![row[r].fam] = epoch]
                    /\ UNCHANGED <<epoch, bumps>>
               ELSE Condemn(inserted, r, Family(r) \cup {n}) /\ UNCHANGED minted
            /\ End(t)
            /\ UNCHANGED <<now, code, members, disabled, resetAt>>

(* The replay is answered: nothing is written but an access token is       *)
(* signed with the epoch of this moment.                                   *)
AnswerReplay(t) ==
  LET r == tx[t].ref IN
  /\ tx[t].op \in Rotations /\ tx[t].pc = "commit" /\ tx[t].tip # None
  /\ tx[t].op = "switch" => MfaSufficient(tx[t].dst, row[tx[t].tip].mfa)
  /\ IF now - tx[t].at > Grace THEN Refuse(t)
     ELSE IF row[tx[t].tip].expires <= now THEN Abort(t)
     ELSE /\ minted' = [minted EXCEPT ![row[r].fam] = epoch]
          /\ End(t)
          /\ UNCHANGED <<now, store, members, disabled, resetAt, bumps>>

(* revokeRefreshTokenFamily, on logout *)
Logout(t) ==
  LET r == tx[t].ref IN
  /\ tx[t].op = "logout" /\ tx[t].pc = "decide"
  /\ Condemn(row, r, Family(r))
  /\ End(t)
  /\ UNCHANGED <<now, code, members, disabled, resetAt, minted>>

(* revokeAllRefreshTokensForUser, on every change of a credential *)
Reset(t) ==
  /\ tx[t].op = "reset" /\ tx[t].pc = "decide"
  /\ row' = RevokeIn(row, RowId)
  /\ epoch' = epoch + 1 /\ resetAt' = epoch + 1
  /\ End(t)
  /\ UNCHANGED <<now, code, members, disabled, minted, bumps>>

----------------------------------------------------------------------------
(* Membership changes, under the membership row locks. *)

TeamsOf(o)      == {w \in Workspace : OrgOf[w] = o}
ActiveTeams(o)  == {w \in TeamsOf(o) : teamSt[w] = "ACTIVE"}
Locked(t, op)   == tx[t].op = op /\ tx[t].pc = "commit"
MoveTeams(S, st) == teamSt' = [w \in Workspace |-> IF w \in S THEN st ELSE teamSt[w]]

(* The partial unique index: one ACTIVE organisation per user and domain. *)
SoleActive(o) == \A p \in Org : OrgDomain[p] = OrgDomain[o] => orgSt[p] # "ACTIVE"

(* Mutation: only the sessions of the organisation's own domain. *)
SessionsOfDomain(o) == {r \in RowId : row[r].dom = OrgDomain[o]}

(* Every session of this organisation, on any domain, and every session of *)
(* the organisation's own domain, whatever its scope.                      *)
SessionsOf(o) ==
  {r \in RowId : \/ row[r].ws # None /\ OrgOf[row[r].ws] = o
                 \/ row[r].dom = OrgDomain[o]}

(* A membership transaction that its checks refuse under the locks: the    *)
(* row is not in the status it needs, the team is the user's last, a role  *)
(* or a limit (module-external) forbids it.                                *)
RefuseMembership(t) ==
  /\ tx[t].op \in Revoking \cup Memberwise /\ tx[t].pc = "commit"
  /\ Abort(t)

Deactivate(t) ==
  LET o == OrgOf[tx[t].src] IN
  /\ Locked(t, "deactivate") /\ orgSt[o] = "ACTIVE"
  /\ orgSt' = [orgSt EXCEPT ![o] = "DEACTIVATED"]
  /\ MoveTeams(ActiveTeams(o), "DEACTIVATED")
  /\ row' = RevokeIn(row, SessionsOf(o))
  /\ End(t)
  /\ UNCHANGED <<now, code, epoch, disabled, history>>

RemoveMember(t) ==
  LET o == OrgOf[tx[t].src] IN
  /\ Locked(t, "removeMember") /\ orgSt[o] \notin {"NONE", "DELETED"}
  /\ orgSt' = [orgSt EXCEPT ![o] = "REMOVED"]
  /\ MoveTeams({w \in TeamsOf(o) : teamSt[w] \in {"ACTIVE", "DEACTIVATED"}}, "REMOVED")
  /\ row' = RevokeIn(row, SessionsOf(o))
  /\ End(t)
  /\ UNCHANGED <<now, code, epoch, disabled, history>>

RemoveTeamMember(t) ==
  LET w == tx[t].src IN
  /\ Locked(t, "removeTeamMember") /\ teamSt[w] = "ACTIVE"
  /\ Cardinality(ActiveTeams(OrgOf[w])) > 1
  /\ MoveTeams({w}, "REMOVED")
  /\ row' = RevokeIn(row, {r \in RowId : row[r].ws = w})
  /\ End(t)
  /\ UNCHANGED <<now, code, epoch, orgSt, disabled, history>>

Reactivate(t) ==
  LET o == OrgOf[tx[t].src] IN
  /\ Locked(t, "reactivate") /\ orgSt[o] = "DEACTIVATED" /\ SoleActive(o)
  /\ orgSt' = [orgSt EXCEPT ![o] = "ACTIVE"]
  /\ MoveTeams({w \in TeamsOf(o) : teamSt[w] = "DEACTIVATED"}, "ACTIVE")
  /\ End(t)
  /\ UNCHANGED <<now, store, disabled, history>>

AddMember(t) ==
  LET o == OrgOf[tx[t].src] IN
  /\ Locked(t, "addMember") /\ orgSt[o] \notin {"ACTIVE", "DELETED"} /\ SoleActive(o)
  /\ orgSt' = [orgSt EXCEPT ![o] = "ACTIVE"]
  /\ MoveTeams({DefaultTeam[o]}, "ACTIVE")
  /\ End(t)
  /\ UNCHANGED <<now, store, disabled, history>>

(* addTeamMember and selfJoinTeam: neither looks at the organisation       *)
(* membership again once its rows are locked.                              *)
AddTeamMember(t) ==
  LET w == tx[t].src IN
  /\ Locked(t, "addTeamMember") /\ teamSt[w] \notin {"ACTIVE", "DELETED"}
  /\ orgSt[OrgOf[w]] # "NONE"
  /\ MoveTeams({w}, "ACTIVE")
  /\ End(t)
  /\ UNCHANGED <<now, store, orgSt, disabled, history>>

(* Deleting a team or an organisation takes memberships away and leaves    *)
(* the sessions scoped to it: nothing revokes them.                        *)
DeleteTeam(t) ==
  LET w == tx[t].src  o == OrgOf[w]  last == ActiveTeams(o) = {w} IN
  /\ Locked(t, "deleteTeam") /\ w # DefaultTeam[o] /\ teamSt[w] # "DELETED"
  /\ last => teamSt[DefaultTeam[o]] = "NONE"
  /\ teamSt' = [x \in Workspace |->
                  IF x = w THEN "DELETED"
                  ELSE IF last /\ x = DefaultTeam[o] THEN "ACTIVE" ELSE teamSt[x]]
  /\ End(t)
  /\ UNCHANGED <<now, store, orgSt, disabled, history>>

DeleteOrg(t) ==
  LET o == OrgOf[tx[t].src] IN
  /\ Locked(t, "deleteOrg")
  /\ orgSt' = [orgSt EXCEPT ![o] = "DELETED"]
  /\ MoveTeams(TeamsOf(o), "DELETED")
  /\ End(t)
  /\ UNCHANGED <<now, store, disabled, history>>

----------------------------------------------------------------------------
(* The surroundings. *)

(* The request or its connection dies before the commit. *)
Crash(t) == tx[t].pc # "idle" /\ Abort(t)

(* updateAdminDomain waits for the exclusive product-policy lock. *)
SetDomainStatus(d) ==
  /\ "setDomainStatus" \in Operations
  /\ \A t \in Tx : ~HoldsProduct(t)
  /\ disabled' = IF d \in disabled THEN disabled \ {d} ELSE disabled \cup {d}
  /\ UNCHANGED <<now, store, members, tx, history>>

(* pruneExpiredSecurityData, a background job without locks. *)
Prune ==
  LET old == {r \in RowId : Exists(r) /\ row[r].expires < now - Retention}
      gone == {c \in CodeId : code[c].st = "code" /\ code[c].expires < now} IN
  /\ old # {} \/ gone # {}
  /\ row' = [r \in RowId |-> IF r \in old THEN [row[r] EXCEPT !.st = "pruned"] ELSE row[r]]
  /\ code' = [c \in CodeId |-> IF c \in gone THEN [code[c] EXCEPT !.st = "pruned"] ELSE code[c]]
  /\ UNCHANGED <<now, epoch, members, disabled, tx, history>>

Tick ==
  /\ now < MaxTime
  /\ now' = now + 1
  /\ UNCHANGED <<store, members, disabled, tx, history>>

----------------------------------------------------------------------------
Init ==
  /\ now = 0 /\ epoch = 0
  /\ row = [r \in RowId |-> BlankRow]
  /\ code = [c \in CodeId |-> BlankCode]
  /\ orgSt \in [Org -> {"NONE", "ACTIVE"}]
  /\ teamSt = [w \in Workspace |-> IF orgSt[OrgOf[w]] = "ACTIVE" THEN "ACTIVE" ELSE "NONE"]
  /\ disabled = {}
  /\ tx = [t \in Tx |-> Idle]
  /\ resetAt = 0
  /\ minted = [r \in RowId |-> Never]
  /\ bumps = [r \in RowId |-> 0]

Start(t) ==
  \/ \E d \in Domain, w \in Scope, mfa \in MfaProofs : Authenticate(t, d, w, mfa)
  \/ BeginIssueCode(t)
  \/ \E c \in CodeId : BeginExchange(t, c)
  \/ \E r \in RowId : BeginRefresh(t, r) \/ BeginLogout(t, r)
  \/ \E r \in RowId, w \in Workspace : BeginSwitch(t, r, w)
  \/ BeginReset(t)
  \/ \E op \in Revoking, w \in Workspace : BeginRevoking(t, op, w)
  \/ \E op \in Memberwise, w \in Workspace : BeginMemberwise(t, op, w)

Acquire(t) == LockUser(t) \/ LockSource(t) \/ LockTarget(t)

Finish(t) ==
  \/ RefuseScope(t) \/ RefusePolicy(t) \/ RefuseMembership(t)
  \/ DecideCredential(t) \/ DecideRotation(t) \/ RejectReplay(t) \/ DecideReplay(t)
  \/ CommitCode(t) \/ CommitExchange(t) \/ Rotate(t) \/ AnswerReplay(t)
  \/ Logout(t) \/ Reset(t)
  \/ Deactivate(t) \/ RemoveMember(t) \/ RemoveTeamMember(t)
  \/ Reactivate(t) \/ AddMember(t) \/ AddTeamMember(t)
  \/ DeleteTeam(t) \/ DeleteOrg(t)

Environment == (\E d \in Domain : SetDomainStatus(d)) \/ Prune \/ Tick

Next == Environment \/ \E t \in Tx : Start(t) \/ Acquire(t) \/ Finish(t) \/ Crash(t)

(* PostgreSQL grants a lock in the order of arrival, so a waiting          *)
(* transaction cannot be overtaken for ever; one that waits for nothing    *)
(* runs on.  Nothing obliges a caller to start an operation.               *)
Fairness ==
  \A t \in Tx : /\ WF_vars(Finish(t))
                /\ SF_vars(LockUser(t)) /\ SF_vars(LockSource(t)) /\ SF_vars(LockTarget(t))

Spec == Init /\ [][Next]_vars /\ Fairness

----------------------------------------------------------------------------
(* Types *)

Moment == Time \cup {Never}
Ref == RowId \cup CodeId \cup {None}
RowRecord ==
  [st : {"none", "row", "pruned"}, fam : RowId \cup {None},
   parent : RowId \cup {None}, next : RowId \cup {None},
   dom : Domain \cup {None}, ws : Scope, mfa : BOOLEAN, created : Time,
   expires : Nat, revoked : Moment, sec : BOOLEAN, auth : Nat, code : CodeId \cup {None}]
CodeRecord ==
  [st : {"none", "code", "pruned"}, dom : Domain \cup {None}, ws : Scope,
   mfa : BOOLEAN, epoch : Nat, expires : Nat, used : BOOLEAN]
TxRecord ==
  [op : AllOperations \cup {"none"},
   pc : {"idle", "login", "user", "decide", "source", "target", "commit"},
   ref : Ref, tip : RowId \cup {None}, dom : Domain \cup {None}, src : Scope,
   dst : Scope, mfa : BOOLEAN, at : Moment, epoch : Nat, orgs : SUBSET Org]

TypeOK ==
  /\ now \in Time /\ epoch \in Nat /\ resetAt \in Nat
  /\ row \in [RowId -> RowRecord]
  /\ code \in [CodeId -> CodeRecord]
  /\ orgSt \in [Org -> Status] /\ teamSt \in [Workspace -> Status]
  /\ disabled \subseteq Domain
  /\ tx \in [Tx -> TxRecord]
  /\ minted \in [RowId -> Nat \cup {Never}] /\ bumps \in [RowId -> Nat]

----------------------------------------------------------------------------
(* What must hold. *)

(* A change of credential closes every session: no live refresh token      *)
(* belongs to a login made before the last reset, whatever was in flight   *)
(* when revokeAllRefreshTokensForUser ran.                                 *)
NoSessionOutlivesReset ==
  \A r \in RowId : Live(r) => row[r].auth >= resetAt

(* Rotation never forks: a family has at most one live token, and it is    *)
(* the one no other token replaced.                                        *)
OneLiveTipPerFamily ==
  \A r \in RowId : Live(r) =>
    /\ row[r].next = None
    /\ \A s \in Family(r) : Live(s) => s = r

(* Once any token of a family is marked securityRevokedAt, by a logout or  *)
(* by detected reuse, the family has no live token, not even one that a    *)
(* concurrent rotation was creating.                                       *)
CondemnedFamilyIsDead ==
  \A r \in RowId : row[r].sec => \A s \in Family(r) : ~Live(s)

(* Retried logouts and repeated use of old tokens move the user's global   *)
(* epoch, and so end sessions on other devices, at most once per family.   *)
OneEpochBumpPerFamily == \A f \in RowId : bumps[f] <= 1

(* A family is condemned once and for all: nothing of it comes back, and   *)
(* nothing more comes of condemning it again.                              *)
CondemnedForGood == CondemnedFamilyIsDead /\ OneEpochBumpPerFamily

(* No access token outlives what ended its session: after a logout, a      *)
(* detected reuse or a credential reset, every token minted for the family *)
(* carries a tv below the current epoch and fails verifyAccessToken.       *)
NoTokenOutlivesItsFamily ==
  \A r \in RowId :
    row[r].st # "none" /\ (row[r].sec \/ row[r].auth < resetAt)
      => minted[row[r].fam] < epoch

(* The chain a replay walks is always sound, also after pruning and with   *)
(* rotations in flight: an honest retry is never taken for corruption,     *)
(* which would close every session of the user.                            *)
ChainsAreSound == \A r \in RowId : Exists(r) => ~Broken(r)

(* A replay about to be answered still returns an unrevoked token of the   *)
(* same family that nothing replaced, however long it waited for locks.    *)
ReplayReturnsLiveTip ==
  \A t \in Tx : tx[t].pc = "commit" /\ tx[t].tip # None =>
    LET n == row[tx[t].tip] IN
    /\ n.revoked = Never /\ n.next = None
    /\ n.fam = row[tx[t].ref].fam
    /\ n.ws = Target(t)

(* A client that retries a rotation it lost the answer of gets the newest  *)
(* token, whatever was pruned, rotated or waited for meanwhile.            *)
RetriesFindTheTip == ChainsAreSound /\ ReplayReturnsLiveTip

(* An authorization code opens at most one session. *)
CodeOpensOneSession ==
  \A r, s \in RowId : row[r].code # None /\ row[r].code = row[s].code
                        => row[r].fam = row[s].fam

(* A live session is scoped to a workspace whose two memberships are       *)
(* ACTIVE, unless the workspace itself was deleted: removal, deactivation  *)
(* and every issuing path are serialised.                                  *)
ScopedSessionsHaveMembership ==
  \A r \in RowId : Live(r) /\ row[r].ws # None =>
    LET w == row[r].ws IN
    \/ orgSt[OrgOf[w]] = "ACTIVE" /\ teamSt[w] = "ACTIVE"
    \/ teamSt[w] = "DELETED"

(* Docs/brief.md:1347: every org member must belong to at least one team. *)
EveryMemberHasTeam ==
  \A o \in Org : orgSt[o] = "ACTIVE" => ActiveTeams(o) # {}

(* A session that moved by workspace switches into a scope that demands a  *)
(* second factor completed one when it logged in.                          *)
AssuranceFollowsScope ==
  \A r \in RowId : Live(r) /\ row[r].ws \in MfaRequired => row[r].mfa

(* No two transactions wait for each other's locks. *)
WaitsFor(t, u) ==
  \/ tx[t].pc = "user" /\ HoldsUser(u)
  \/ tx[t].pc = "source" /\ OrgOf[tx[t].src] \in tx[u].orgs
  \/ tx[t].pc = "target" /\ OrgOf[tx[t].dst] \in tx[u].orgs
NoWaitCycle ==
  \A t, u \in Tx : t # u => ~(WaitsFor(t, u) /\ WaitsFor(u, t))

(* Disabling a client domain is a clean cut: no refresh token is created   *)
(* for it from the moment the change commits.                              *)
NoIssueForDisabledDomain ==
  [][\A r \in RowId : row[r].st = "none" /\ row'[r].st = "row"
                        => row'[r].dom \notin disabled]_vars

(* Every transaction that was begun ends and gives its locks back. *)
TransactionsEnd ==
  \A t \in Tx : tx[t].pc \notin {"idle", "login"} ~> tx[t].pc = "idle"

----------------------------------------------------------------------------
(* What holds beneath the properties above: the strengthening that makes   *)
(* them inductive.                                                         *)

(* A transaction at work names rows, codes and scopes that exist. *)
WellFormed(t) ==
  LET x == tx[t] IN
  /\ x.op = "none" <=> x.pc = "idle"
  /\ x.pc = "login" => x.op = "issueCode"
  /\ x.op \in Rotations \cup {"logout"} => x.ref \in RowId /\ row[x.ref].st # "none"
  /\ x.tip # None => x.op \in Rotations
  /\ x.op = "exchange" => x.ref \in CodeId
  /\ x.op = "switch" => x.dst \in Workspace
  /\ x.pc = "source" \/ x.op \in Revoking \cup Memberwise => x.src \in Workspace
  /\ x.pc = "target" => x.dst \in Workspace

(* The user lock is exclusive. *)
UserMutex == \A t, u \in Tx : HoldsUser(t) /\ HoldsUser(u) => t = u

Decided(t) == tx[t].pc \in {"source", "target", "commit"}

(* What a transaction decided on under the user lock is still so while it  *)
(* waits for other locks: the epoch, the row it rotates, the row it        *)
(* answers a replay with.  Only pruning can touch an expired row.          *)
DecisionHolds(t) ==
  LET r == tx[t].ref  n == tx[t].tip IN
  /\ tx[t].op = "exchange" /\ Decided(t) => tx[t].epoch = epoch
  /\ tx[t].op \in Rotations /\ Decided(t) /\ n = None =>
       row[r].revoked = Never /\ row[r].next = None /\ (Exists(r) \/ row[r].expires < now)
  /\ tx[t].op \in Rotations /\ n # None =>
       /\ Decided(t)
       /\ row[n].st # "none" /\ row[n].fam = row[r].fam
       /\ row[n].revoked = Never /\ row[n].next = None
       /\ Exists(n) \/ row[n].expires < now

(* An id not yet used is blank. *)
UnusedRowsBlank == \A r \in RowId : row[r].st = "none" => row[r] = BlankRow

(* A family is named by a row that was created, and all its rows descend   *)
(* from one login.                                                         *)
FamiliesNamed ==
  \A r \in RowId : row[r].st # "none" =>
    /\ row[r].fam \in RowId /\ row[row[r].fam].st # "none"
    /\ \A s \in Family(r) : row[s].auth = row[r].auth /\ row[s].code = row[r].code
    /\ row[r].code \in CodeId
    /\ code[row[r].code].used /\ code[row[r].code].st # "none"

(* A family that moved the epoch is condemned; a family not yet opened     *)
(* never did.                                                              *)
BumpsCondemn ==
  \A r \in RowId :
    /\ Exists(r) /\ bumps[row[r].fam] > 0 => row[r].sec
    /\ row[r].st = "none" => bumps[r] = 0

(* No token is minted ahead of the epoch, nor a reset dated ahead of it. *)
EpochLeads == resetAt <= epoch /\ \A f \in RowId : minted[f] <= epoch

(* The invariant the proofs carry from step to step. *)
SessionInvariant ==
  /\ TypeOK
  /\ \A t \in Tx : WellFormed(t) /\ DecisionHolds(t)
  /\ UserMutex
  /\ UnusedRowsBlank /\ FamiliesNamed /\ BumpsCondemn /\ EpochLeads
  /\ NoSessionOutlivesReset /\ OneLiveTipPerFamily /\ CondemnedFamilyIsDead
  /\ OneEpochBumpPerFamily /\ NoTokenOutlivesItsFamily /\ CodeOpensOneSession

----------------------------------------------------------------------------
(* RefreshSessions implements SessionFamilies.                             *)

(* A family is named by its first row.  It is open while an unrevoked row  *)
(* of it is in the table, condemned once a row carries securityRevokedAt.  *)
Phase ==
  [f \in RowId |->
     IF row[f].st = "none" \/ row[f].fam # f THEN "none"
     ELSE IF \E r \in Family(f) : row[r].sec THEN "condemned"
     ELSE IF \E r \in Family(f) : Live(r) THEN "open"
     ELSE "closed"]

Families == INSTANCE SessionFamilies WITH FamilyId <- RowId, phase <- Phase

(* Every transaction on the tables, in any interleaving, is one step of    *)
(* the promise or none: no family reopens, a family is condemned once and  *)
(* alone, and the epoch moves with a condemnation or a reset and never     *)
(* otherwise.                                                              *)
ImplementsFamilies == Families!Spec
=============================================================================
