# A verification project for UnlikeOtherAuthenticator

UnlikeOtherAuthenticator is a central OAuth and authentication service: products
send their users to it, it authenticates them, lets them choose a workspace
(an organisation and a team), and hands out authorization codes, refresh tokens
and short-lived access tokens. It also keeps the organisations and teams, and a
billing ledger. This directory holds TLA+ models of the parts of it where steps
of different requests interleave, the TLC configurations that check them on
small instances, and TLAPS proofs of the properties that matter most.

All paths below are relative to the repository root, which the project file
calls `src/`. Most code named here is in `API/src/services`.

## 1. The system

### Parts, their state and operations

| Part | State | Operations | Modelled in |
|---|---|---|---|
| Refresh sessions (`refresh-token*.service.ts`, `authentication-epoch.service.ts`) | `refresh_tokens` (family, parent, replaced-by, scope, assurance, expiry, revoked, security-revoked), `users.tokenVersion` | exchange a code, rotate, answer a replay, switch workspace, logout, revoke all, revoke by membership | `RefreshSessions` |
| Authorization codes (`authorization-code.service.ts`, `token.service.ts`) | `authorization_codes` | issue, redeem once | `RefreshSessions` (partly) |
| Workspace scope and locks (`workspace-scope.service.ts`, `product-workspace-policy-lock`, `refresh-session-lock`) | advisory locks, row locks | resolve a scope, lock its membership rows | `RefreshSessions` |
| Organisations (`organisation.service.*.ts`) | `organisations.ownerId`, `org_members` (status, role) | add, remove, deactivate, reactivate, change role, transfer ownership, delete | `RefreshSessions` for one user against sessions, `OrgRoster` for several users against each other (partly) |
| Teams (`team.service.*.ts`) | `teams`, `team_members` | add, remove, self-join, delete | `RefreshSessions`, `Joining` (partly) |
| Login and recovery (`auth-*.service.ts`, `login-code`, `verification-token-epoch`, `social/*`) | `users` (password), `verification_tokens` | send a token, redeem it, password and social login, register, reset | `Credentials` (partly) |
| Second factor (`twofactor-*.service.ts`) | `users.twoFaSecret`, last accepted step | set up, enrol, verify, disable, reset | `Credentials` (partly) |
| Workspace chooser (`login-session*.service.ts`) | signed login tokens, `login_session_uses` | sign, select once | `Credentials` (partly) |
| Retention (`retention-pruning.service.ts`) | none of its own | delete expired rows | in both (partly) |
| Domains (`domain-secret.service.ts`, `client-jwk.service.ts`) | `client_domains`, their secrets and keys | register, disable, enable, rotate a secret, register a key | `ClientDomains`; the status as issuance sees it in `RefreshSessions` |
| Invitations and links (`team-invite*.ts`) | `team_invites`, `team_invite_links`, membership rows | create, resend, review, revoke, accept, decline, redeem a link | `Joining` |
| Access requests (`access-request*.ts`) | `access_requests` | request, grant automatically, approve, reject | `Joining` |
| First placement (`org-placement.service.ts`, `user-team-requirement.service.ts`, `first-login.service.ts`) | `organisations`, `teams`, membership rows | place by mapping, in an own organisation, in a required team | `Joining` (partly) |
| Confidential exchange (`confidential-*.service.ts`) | `confidential_assertion_uses`, delegation mappings | exchange an assertion once, change a mapping | `ClientDomains` (partly) |
| Signatures (`signature-*.service.ts`, `signing-continuation-capability.service.ts`) | settings and revision of the policy, agreements, versions, continuations, claims, signatures, revocations; source files and receipts in an object store | draft, replace, publish, withdraw, require, switch on, sign, revoke, decide on access | `Signatures`; its verdict is a free choice in `RefreshSessions` |
| Automatic top-ups (`billing-credit-auto-top-up-*.ts`, `billing-credit-funding-webhook-*.ts`) | credit account, attempts, setup checkouts, webhook events; PaymentIntents at Stripe | claim, dispatch, apply webhooks, consent, recover | `AutoTopUp` |
| Credit balance (`billing-credit-settlement*.ts`, `billing-credit-rating.service.ts`, `billing-credit-payment-adjustment-*.ts`) | balance, settlements, allocations, adjustments; portfolios of the metering Ledger | settle a portfolio, top up, refund, dispute | `CreditLedger` |
| The rest of billing | tariffs, invoices, contracts, subscriptions, add-ons | administer, invoice, subscribe | not modelled |
| Onboarding, integration (`auto-onboarding`, `integration-*.service.ts`) | integration requests, claim tokens | discover, accept, decline, delete, resend, rotate, claim once, sweep | `ClientDomains` |
| Client configuration, e-mail, i18n, avatars, audit, logs | none that other parts read back | | not modelled: input and output |
| Admin console, login pages, statement protocol | none that is authoritative | | not modelled |

`PROJECT.json` repeats this list with the exact boundary of every part, maps
every definition to the lines it stands for, and lists the hazards.

### How the parts interact

Nothing is shared in memory: requests meet in PostgreSQL. A request runs one
READ COMMITTED transaction (`db/tenant-context.ts`, `runInTransaction`), or
several when it sends a token by e-mail. They are ordered by

1. the *product-policy* lock, shared by everything that issues for a domain and
   exclusive for `updateAdminDomain`;
2. the *user* advisory lock (`refresh-session-lock.service.ts`), taken by
   every transaction that issues or revokes sessions of a user or changes a
   credential;
3. the *membership row locks* (`FOR UPDATE` on the organisation and team rows of
   one user), first of the scope a session has, then of the scope it moves to;

and by compare-and-set updates (`updateMany` with a condition and a count),
unique indexes, and, in billing, triggers that compute again what a handler
computed and roll its transaction back when the two disagree. The *credential epoch* (`users.tokenVersion`) ties the
parts together: it moves with every change of a credential and with every
condemned token family, is written into codes, login, setup and access tokens,
and is compared under the user lock (`lockAndAssertAuthenticationEpoch`).

### What is hard

- state read before a lock and used after it: a token row, a password hash, a
  membership, an owner;
- a client that lost a response retries with a token that was already rotated;
  the retry must be told apart from theft by a clock, a chain of rows, and locks
  that are waited for in between;
- a transaction that throws after it wrote: the write is rolled back with it;
- two transactions that lock different rows and each rely on a count over both;
- pruning, which deletes rows by expiry alone and takes no locks;
- the order of locks across two organisations and a user lock;
- an invitation is read without a lock and written by id: what refuses a stale
  write are CHECK constraints and unique indexes, at the commit;
- a payment of unknown outcome: the request timed out, the row lock is gone, and
  the webhook may arrive before, after, twice or out of order;
- a portfolio is fetched before the transaction that settles it, and a refund
  moves the balance in between.

### What makes each part correct

- *Sessions*: rotation never forks; a condemned family stays dead; a credential
  change ends every session opened before it; an honest retry gets the live
  tip; the global epoch moves once per family; no access token outlives its
  family.
- *Codes*: one code opens one session, under the credential it was issued for,
  for a domain that is enabled.
- *Scopes*: a live scoped session has its memberships; a switch cannot gain
  assurance; no two transactions wait for each other; each one ends.
- *Organisations and teams*: an owner remains, is active, is not suspended;
  removal is final; a seat limit holds; each member has a team.
- *Login*: a token is honoured once, one of many recovery or registration
  e-mails wins; what a login proved is still what the account has.
- *Joining*: an invitation is resolved once, and a membership it made is explained
  by it; a link admits as many as it has uses and none once revoked; nobody
  removed comes back by a side door; a user has one organisation of a domain.
- *Top-ups*: an attempt is charged once and credited once; nothing is charged
  without the consent it was claimed under; what was collected is credited.
- *Balance*: every credit comes from a payment and goes to usage or back; what a
  handler computes is what the triggers accept, so no refund is stuck.
- *Signatures*: access is granted only while everything required is signed; a signature
  says what its version says for good, has its file and its receipt, and never undoes
  a revocation.
- *Second factor, chooser*: a TOTP step, a setup secret, a chooser token is
  accepted once.
- *Domains*: one request of a domain is ever accepted; a claim link shows its secret
  once, and the old secrets end only when the new one works; an assertion buys one
  token, for a domain that is enabled and a user whose credential it names.

## 2. Modules

| Module | What it is |
|---|---|
| `RefreshSessions` | sessions, codes, memberships and locks of one user; the mapping (`Phase`) and `ImplementsFamilies`, by `INSTANCE ... WITH` |
| `SessionFamilies` | what sessions promise: families are opened once, closed, condemned once, and never reopen |
| `RefreshSessionsProofs` | theorems about `RefreshSessions`: tables, decisions, replay; then scopes, locks, chains; then the refinement |
| `Credentials` | tokens, password, second factor, chooser of one account |
| `CredentialsProofs` | theorems about `Credentials` |
| `OrgRoster` | several members of one organisation |
| `OrgRosterProofs` | theorems about `OrgRoster` |
| `Joining` | invitations, links, requests and placement around one organisation |
| `JoiningProofs` | theorems about `Joining` |
| `AutoTopUp` | automatic top-ups of one credit account, with Stripe |
| `AutoTopUpProofs` | theorems about `AutoTopUp` |
| `CreditLedger` | usage, payments and adjustments of one credit account |
| `CreditLedgerProofs` | finite sums, the division of credits, theorems about `CreditLedger` |
| `Signatures` | the agreements of one domain and the signatures of one user, with the object store |
| `SignatureProofs` | theorems about `Signatures` |
| `ClientDomains` | requests, claim links, secrets and keys of client domains, and the confidential exchange |
| `ClientDomainsProofs` | theorems about `ClientDomains` |
| `MC*` | finite instances: model values, symmetry, scenarios |

**How transactions are modelled.** `tx[t]` says what connection `t` is doing
and where it stands (`pc`). A transaction is cut where another one may run in
between: at what it reads before a lock, at each lock it waits for, at the
decision under the lock, and at its commit, where all its writes appear at
once. READ COMMITTED allows exactly this: a statement sees what was committed
before it, and no one sees uncommitted writes. Locks last until the end of the
transaction, so they need no variables: `HoldsUser`, `HoldsProduct` and
`tx[t].orgs` derive them from the position. `Crash` and `Fail` roll back from
any position.

**Why one user.** In `RefreshSessions` and `Credentials` users share no row, no
lock and no epoch, so a second one would only multiply the states. What does
couple users (counting owners and seats, `ownerId`) is `OrgRoster`.

### RefreshSessions

`row`, `code`, `epoch`, `orgSt`, `teamSt` and `disabled` are the tables. A presented
token names its row (hashing and token text are abstracted). A row keeps, as
history, the epoch its family authenticated under (`auth`) and the code it came
from (`code`); `resetAt`, `minted` and `bumps` are history as well. No guard
depends on any of these.

| Action | Code |
|---|---|
| `Authenticate`, `BeginIssueCode`, `CommitCode` | interactive login, then issue of the code, possibly much later |
| `BeginExchange` → `LockUser` → `DecideCredential` → `LockSource`/`LockTarget` → `CommitExchange` | `consumeAuthorizationCode`, `issueRefreshToken` |
| `BeginRefresh`/`BeginSwitch` → `LockUser` → `DecideRotation` → locks → `Rotate` | `exchangeRefreshToken`, `switchWorkspace…` |
| … → `DecideReplay` → locks → `AnswerReplay`; `RejectReplay` | `refresh-token-replay.service.ts` |
| `RefuseScope`, `RefusePolicy` with `Refuse` | failing scope, 2FA or signature checks, after which a replay is timed again |
| `Logout`, `Reset` | `revokeRefreshTokenFamily`, `revokeAllRefreshTokensForUser` |
| `Deactivate`, `RemoveMember`, `RemoveTeamMember` | membership changes that revoke sessions |
| `Reactivate`, `AddMember`, `AddTeamMember`, `DeleteTeam`, `DeleteOrg` | membership changes that do not |
| `SetDomainStatus`, `Prune`, `Tick`, `Crash` | surroundings |

`ConstantsAssumption` and `DefaultTeamAssumption` (the default team of an organisation
is one of its own) are all that is assumed of the constants. `RoomForRow` and
`RoomForCode` are bounds of the model: a creating transaction starts only when
an unused id is left for it.

Choices worth knowing: `deleteTeam` moves a member to the default team by a
create, which the unique index refuses when the default-team row is a tombstone;
the model aborts there. `addTeamMember` may make a team row ACTIVE under a
deactivated organisation member; harmless, since access needs both. A signature
verdict, and roles or limits that forbid a membership change, are free choices
(`RefusePolicy`, `RefuseMembership`).

### Credentials

`user` is the `users` row, which need not exist yet; `tok` the
`verification_tokens` table; `logins` the proofs of authentication handed out
(access tokens, 2FA challenges, finished logins), each with the epoch it was
granted under. Issuing a token is three separate statements (`BeginIssue`,
`Supersede`, `CreateToken`), as in the code. Everything else presents something
(`Begin…`), waits for the user lock and checks the epoch (`LockUser`), and
commits. Whoever creates an account has no user to lock: the unique `userKey`
orders registrations (`CreateAccount`).

`WrongCode` leaves `attemptCount` as it was: the code increments it and throws in
the callback of `runInTransaction`, so the increment is rolled back (section 5).
A `VERIFY_EMAIL_SET_PASSWORD` token is only sent while no user exists, and
the epoch check refuses it once one does; the branch of `verifyEmailToken` that
sets a password of an existing user is not reached and not modelled. The
lifetimes of setup and challenge tokens are left out: the model accepts late
ones too, a superset. The clock's unit is one TOTP period, and it may pass anywhere: also
between the statement that reads it and the insert of a chooser token's use, which
`consumeLoginSession` awaits. A use whose token expires in that window is `RecordedLate`;
the record of an earlier use may be pruned by then (`UseExpired`), and `ProofsCountOnce`
says that only so can a token count again.

### OrgRoster

Adding, removing, deactivating and reactivating read, lock the member's row and
look again (`LockMember`, `Rechecked`); a role change and a transfer decide on
what they read and write by id (`ChangeRole`, `Transfer`). `Prepared` says what a
transaction still knows when it commits. The three updates of a transfer are one
step, since they hold each row they wrote until the commit. Deadlocks that
PostgreSQL breaks are `Fail`. A product backend acts as `None` and needs no
standing.

### Joining

`db` holds the tables: invitations, requests, the link, the policy of the team,
which organisation each team slot belongs to (`orgOf`), the membership rows
(`om`, `tm`: `NONE`, `ACTIVE`, `GONE` for a tombstone). `via` is history: what made
a user's team row ACTIVE. A commit that a constraint or index refuses is the
`ELSE` of `Commit`: nothing of it remains.

| Action | Code |
|---|---|
| `InviteAsManager`, `InviteAsMember`, `Resend` → `IssueInvite` | `createTeamInvites`, the member invites, `resendTeamInvite` |
| `BeginReview` → `Approve`, `Deny`, `Revoke` | `team-invite.service.management.ts`, `…revoke.ts` |
| `BeginAccept`, `BeginDecline` | the chooser's answers: the user lock comes first |
| `PresentToken` → `LockUser` | the e-mail's: the token is read first |
| `LockRows`, `LockOwnRows`, `LookForRows` | the membership rows, locked or only read |
| `Accept`, `Decline`, `Redeem`, `SelfJoin`, `ApproveRequest`, `GrantAutomatically`, `RequestAccess` | the commits |
| `BeginPlacement` → `PlaceMapped`, `PlaceApart`; `BeginRequiredTeam` → `PlaceApart` | `org-placement`, `user-team-requirement` |
| `CreateLink`, `RevokeLink`, `SetPolicy`, `RejectRequest`, `Remove` | single statements, or transactions that wait for nothing they could lose |

Choices worth knowing: a revocation that races a replacement overwrites only why
the invitation is revoked. Self-join and granted requests do not look at the
organisation row again, so they may leave an ACTIVE team row under a removed
organisation row; `GuestsAreMembers` is about invitations and links only, which
do. `rejectAccessRequest` has no guard on the status. Limits, bans, an expired token
and a failing role check are `Fail`; addresses belong to users that exist; one
transaction creates one invitation.

### AutoTopUp

`acct`, `att`, `chk` are the tables; `pi` and `sent` are Stripe's (external);
`recorded` the webhook events that were answered. A replica is a process of the API
which does one thing at a time; a dispatch holds the locks over the call of Stripe,
and `Abort` releases them at any point while the request stays on its way (`late`).
Idempotency keys make a repeated call return the same intent; that Stripe forgets
keys after a day is not modelled. `AttemptAllowed` is what the schema's triggers
and constraints let an update of an attempt do. `scope.frozen` says whether the
identity guard refuses `state_webhook_event_id`, as the schema of the repository
does (section 5); the scenarios about recovery run on the schema the handlers
are written for, because under the other one nothing to recover from is ever
recorded. A handler that throws, and a deadlock PostgreSQL breaks, are `Abort`.

| Action | Code |
|---|---|
| `Claim`, `DispatchBegin`, `DispatchCall`, `DispatchStore`, `LateCall` | `billing-credit-auto-top-up-attempt.service.ts`, `…-runtime…` |
| `Prepare` → `Receive` → `PaymentSucceeded`, `PaymentFailed`, `PaymentStateChanged`, `SetupSucceeded`, `CheckoutExpired` | the funding webhook: prepared outside, recorded and applied inside a transaction |
| `SetupRead`, `Reconcile`, `SetupCreate`, `SessionCreate`, `SessionAttach` | `…-setup.service.ts`, `billing-credit-checkout-recovery.service.ts` |
| `UpdateRead`, `UpdateCommit`, `Disable` | `…-consent.service.ts` |
| `RecoverRead`, `RecoverRetrieve`, `RecoverCancel`, `RecoverTerminalize` | `…-recovery.service.ts` |
| `PaymentMoves`, `AuthenticationFails`, `SessionEnds` | Stripe and the customer |

### CreditLedger

One account and one billing month. Usage arrives rated (the tariff is pinned when a
service is first settled), in units of which a credit buys `Unit`; a bucket is a
service and a user; sums are `Total`. `Shares` is the proportional division with largest
remainders, `SettlementAdmitted` and `AdjustmentAdmitted` what the triggers accept.
What a settlement leaves unpaid (`remaining`) is `rated - consumed` and is derived.
A user who is no member any more makes the code refuse the portfolio; that, and any
other validity error, is `Abort`. Only full reinstatements of a dispute are modelled.

| Action | Code |
|---|---|
| `Capture` | the metering service (external) |
| `FetchPortfolio` → `Settle`, `SettleNothing` | `billing-credits.service.ts`, `billing-credit-settlement.service.ts` |
| `TopUp` | the funding webhook, reduced to its entry |
| `PrepareAdjustment` → `BeginAdjustment` → `LockBalance` → `CommitAdjustment`; `AlreadyAdjusted`, `IgnoreEvent` | `billing-credit-payment-adjustment-*.ts` |
| `StripeMoves` | refunds and disputes (external) |

### Signatures

`settings` is the row whose lock (`FOR UPDATE`) orders decisions on access with
changes of the policy, `ag` and `ver` the agreements and their versions, `cont` the
continuations, `claim` and `sig` the claims and signatures of one continuation and
version, `files` and `receipts` the object store, which no transaction covers.
`codes` counts what was granted and is history.

| Action | Code |
|---|---|
| `CreateAgreement`, `BeginEdit` → `CommitEdit` | `createAgreement`, `updateAgreement` |
| `BeginUpload` → `CommitUpload`, `ChangeText`, `BeginReplace` → `CommitReplace` → `CleanUp`, `BeginDelete` → `CommitDelete` → `CleanUp`, `FailFile` | `signature-agreement-lifecycle.service.ts` |
| `BeginPublish` → `CommitPublish`, `BeginWithdraw` → `CommitWithdraw` | `signature-agreement-publication.service.ts` |
| `BeginSwitch` → `CommitSwitch`, `Revoke` | `updateSignatureSettings`, `revokeAgreementSignature` |
| `BeginAccess` or `BeginComplete` → `Evaluate` → `Grant` or `Continue` | the gate at a login, a refresh, the end of a continuation |
| `BeginSubmit` → `Refuse`, `AlreadySigned`, `Resume` or `Reserve` | `reserveSignatureClaimIntent` |
| `MakeReceipt` → `MarkReady` → `Review` → `Append` or `Void` | `createSignatureEvidence`, `markSignatureClaimEvidenceReady`, `finalizeSignatureClaimIntent` |
| `Reset`, `Tick`, `Crash` | surroundings |

Choices worth knowing: a workspace scope that fails, a scan or a storage error
ends an operation as `Crash` does. A text stands for the statement, the method and
the title of a version. The triggers of
`20260715220000_harden_domain_signature_evidence` are `MayWriteDraft` and
`MayWithdraw`; where one refuses, the transaction can only `Crash`. Creating an
agreement waits for the settings row since its foreign key does. Reads (the signing
page, searches, downloads) change nothing and are left out.
Any number of administrators may edit one agreement at once. `updateAgreement` compares
with what it read first, so an edit that was overtaken (`StaleEdit`) may change the requirement
beside the settings lock; `AccessFollowsPolicy` says that nothing else does (section 5).

### ClientDomains

`dom`, `sec`, `jwk`, `req`, `clm`, `map` and `use` are the tables; `asr` the assertions
a product signed (external), with the credential epoch they name. A secret is its
number: what is abstracted is its text, so that a resent link may wrap the same
one. `accepted`, `shown` and `bought` are history.

| Action | Code |
|---|---|
| `BeginDiscover` → `LookPending` → `WriteRequest` | `tryAutoOnboard`, `upsertPendingIntegrationRequest`: three statements without a transaction |
| `BeginAccept` → `CommitAccept`; `BeginDecline` → `CommitDecline`; `DeleteRequest` | the decisions on a request |
| `BeginResend`, `BeginRotate` → `DeleteUnused` → `CommitReplace` | `resendIntegrationClaim`, `rotateAdminDomainSecret` |
| `BeginClaim` → `TakeClaim` → `CommitClaim`; `SweepClaims` | `consumeClaim`, cut after the read and after the conditional update |
| `DirectRotate`, `CreateDomain`, `UpdateDomain`, `AddJwk`, `DeactivateJwk`, `ChangeMapping` | administration |
| `SignAssertion` | the product (external) |
| `BeginExchange` → `LockExchange` → `CommitExchange` | `exchangeConfidentialSubjectToken`, `consumeConfidentialAssertion` |
| `PruneUses`, `ResetUser`, `Tick`, `Crash` | surroundings |

Choices worth knowing: secrets and claims are numbered in the order they are created.
A consumer of a rotation claim reads the secrets to retire when it takes the claim,
and one that is added before it commits stays active, as in the code. Mappings
take no policy lock, and the model gives them none (section 5). One user, one
product and one scope are told apart; what a mapping binds beyond "on" and "off" is
not. The clock may pass between the statement that reads it and the insert of a use, which come
after each other with a delete between them; an exchange to which the record of an earlier use
expires in that window `InsertsLate`, and `ExchangesFollowPolicy` says that only so can an
assertion buy again. A resend takes any unused link of the request: of several, which overlapping
replacements leave behind, the code takes the one with the latest `createdAt`, and that need not be the
order in which they commit. A claim that was taken shows its secret or does not: the request may be
deleted before the page is made, and then the answer is "missing" (`CommitClaim`).
Unique indexes that refuse a write show as a guard (`jwk[k].of = None`) or as the
`ELSE` of the write; what a refusal leaves behind is the `Crash` of its transaction.

## 3. What is checked

Every property has at least one *mutation*: a definition in the module, beside
the one it replaces, that changes it the way a plausible bug would. With the
mutation in place TLC reports the property violated. `PROJECT.json` pairs them.

| Run | Instance | Shows |
|---|---|---|
| `sessions` | 3 rows, 2 codes, 2 connections, 3 ticks, grace 1, chain depth 1, a reset, a domain toggled | rotation, replay, reuse, logout, reset, pruning: `TypeOK`, six invariants, the action property `NoIssueForDisabledDomain`, and that all of it implements `SessionFamilies` |
| `scopes` | 3 workspaces of 2 organisations on 2 domains, one scope demanding 2FA, 4 rows | `AssuranceFollowsScope`, `NoWaitCycle`, and `ScopedSessionsHaveMembership` against every membership change |
| `progress` | 2 rows, 2 connections | `TransactionsEnd` under fairness |
| `credentials` | 2 tokens, 2 passwords, 2 secrets, one chooser token | registration, recovery, links, logins, second factor, chooser: `TypeOK`, four properties, among them `ProofsCountOnce` |
| `roster` | 3 users, every actor, 2 connections, all operations | `RosterInvariant` and the action property `StatusesStand` (owners are not suspended, removed members stay removed) |
| `joining` | 2 users, 2 connections, 3 invitations, 2 requests, a link with one use | `OneOpenOffer`, `InvitesExplainMembers`, `MembershipsAreWhole`, `LinkAdmitsFew`, `DecisionsStand` |
| `top_ups` | 2 replicas, 2 attempts, 2 intents, 2 checkouts, 2 months | `TypeOK`, `OneChargeOneCredit`, `ConsentGoverns`, and `ChargesAreCredited` under fairness |
| `ledger` | 2 replicas, 2 services, 2 users, 3 portfolios, 2 payments, 2 refunds or disputes | `TypeOK`, `CreditsAreAccounted`, `TriggersAgree`, `SettlementsAreCurrent` |
| `signatures` | 2 connections, 2 continuations, 2 versions, 2 agreements, one replaced file | `TypeOK`, `EvidenceStands`, `SignaturesFollowRevocations`, `AccessFollowsPolicy` |
| `client_domains` | 2 domains, keys, requests and connections, 3 claims and secrets, one assertion, clock to 3 | `TypeOK`, `RequestsAreOrderly`, `ClaimsAreSpentOnce`, `ExchangesFollowPolicy` |
| `last_owner`, `declines` | | the disagreements of section 5 |

`ImplementsFamilies` deserves a word: it is the statement that no interleaving
of transactions on rows, chains and locks shows anything but families opening,
closing, being condemned one at a time, and an epoch that moves exactly then. A
condemnation that moves the epoch on every presentation breaks it.

### Bounds, and why they are enough

- *Two connections.* Each property relates one transaction to what another one
  committed between two of its steps, and a lock has two sides; a third
  connection could only interpose a further commit, which the second one can do
  by starting again: the number of transactions over time is not bounded by the
  number of connections.
- *Three rows* give a login, a rotation and either a second rotation (a chain
  of two, one longer than `MaxDepth = 1`) or another family. `scopes` has four
  since a switch there and back needs them.
- *Two codes* give two families for one user, which the cross-family revocations
  need.
- *Time.* Lifetimes, grace and code lifetime of one or two units reach before,
  at and after each boundary within `MaxTime`; lifetime 2 with `MaxTime = 3` lets
  a predecessor expire and be pruned before its successor.
- *Two TOTP steps* and a window of one reach every overlap of two windows.
- *Three users* give an owner, an heir and a bystander.
- `MaxTime`, `MaxEpoch` and `MaxWrong` bound the clock, the resets callers ask for and
  the wrong codes they try. `RowId`, `CodeId`, `TokenId`, `Jti`, `Secret` bound what is ever
  created.

- *Three invitations* give an original, one that replaces it and one created
  meanwhile; *two users* an invited one and another who competes for the link's
  only use; *two fresh slots* both racing placements.
- *Two attempts and two intents* give a charge and its successor, or an attempt
  that would be charged twice; *three consent generations* a setup, a change and
  its withdrawal.
- *Two continuations and two versions* give two tabs signing the same, and a
  version signed beside the draft that supersedes it; one wrong attempt, one reset,
  one revocation and two further revisions reach each boundary of a claim.
  An edit that was overtaken by another one and ends while somebody decides takes two connections
  only, since the one that overtook it goes on to decide.
- *Two requests and two domains* give a rediscovery beside an open request and
  a conflict of keys; *three claims and secrets* the first link, the one that replaces it
  and a competitor, each able to wrap a secret of its own.
- *Three portfolios* give one that grows, one that takes usage back and one that
  was overtaken; *two objects on one payment* refunds beyond its price.

*Scenarios.* Some configurations check several questions at once and say with a
constraint or a constant what a behaviour is about, so that unrelated operations
do not multiply each other. `FamiliesExplored` takes in turn the long life of
one family (one login, clock and pruning, with a second reset in the first half of
the clock), two families side by side (clock at
0, one reset) and a domain that is disabled. `ScopesExplored` takes switches between
the organisations after logins that run alone, then every membership change of one
for as long as there is a session it could affect. `CredentialsExplored` takes
the links that open an account, those of an account that exists, the second
factor with either way to take it away, login codes, and the chooser, the last two
beside password resets. `SignaturesExplored` lets the user sign in once, not twice,
while a text changes or the settings change a second time. They bound
what is *explored*, each scenario being closed under every interleaving of
its own operations; the regions overlap in what they share. `Joining!Callers`,
`AutoTopUp!Scopes`, `CreditLedger!Scopes`, `Signatures!Scopes` and `ClientDomains!Scopes` do the same in
the initial state.
The proofs need none of these bounds.

Connections, replicas, users and passwords are symmetric. Rows and codes are used
in a fixed order (`InOrder`), which takes the place of their symmetry. `progress`,
`top_ups` and `declines` use no symmetry, since it is not sound for liveness.

`CHECK_DEADLOCK FALSE` is set throughout: clocks, ids and bounds run out, and
callers may stop asking. That no transaction is stuck is what `NoWaitCycle` and
`TransactionsEnd` say.

### Fairness

`RefreshSessions!Fairness` has weak fairness on `Finish(t)`, since a transaction
that waits for nothing runs on, and strong fairness on `LockUser`,
`LockSource` and `LockTarget`, since PostgreSQL queues waiters and grants a lock in
order of arrival, so a waiter is not overtaken for ever. Nothing is assumed of
callers: no `Begin` is fair, a login need never ask for its code, and a crash may
always happen.

`AutoTopUp!Fairness`: a request ends, by success or by `Abort` (weak fairness of
each replica's steps while it has a task); Stripe delivers an event again until it
is answered, and a handler or a dispatch that could commit again and again is not
aborted every time (strong fairness). No payment is ever obliged to move, no
customer to act and nobody to recover. `Credentials`, `OrgRoster`, `Joining`,
`CreditLedger`, `Signatures` and `ClientDomains` have no fairness and no liveness property.

## 4. What is proved

TLAPS checks these for every value of the constants that satisfies the named
assumptions, any number of rows, codes, users and connections, any lifetimes,
and any bound on the clock.

| Theorem | Says |
|---|---|
| `SessionSafety` | `Spec => []SessionInvariant` |
| `TypeCorrect` | `[]TypeOK` |
| `ResetClosesEverySession` | `[]NoSessionOutlivesReset` |
| `RotationNeverForks` | `[]OneLiveTipPerFamily` |
| `CondemnationIsFinal` | `[]CondemnedForGood`: no live token, one step of the epoch |
| `AccessTokensDieWithTheirFamily` | `[]NoTokenOutlivesItsFamily` |
| `CodesAreSingleUse` | `[]CodeOpensOneSession` |
| `OnlyRacesLoseOwners` | `[](AnOwnerRemains /\ OwnerIsActive)`, where `[]HandoversAlone` |
| `OnlyRacesSpareOldOwners` | `TransferDemotes`, where `[]HandoversAlone` |
| `RosterSafety` | `[]RosterInvariant` |
| `DeactivationSparesOwners` | `OwnersAreNotSuspended` |
| `RemovalIsFinal` | `RemovedStayRemoved` |
| `StatusesAreDecidedUnderTheLock` | `StatusesStand`: the two above together |
| `JoiningProofs!TypeCorrect` | `[]TypeOK` of `Joining` |
| `DecisionsAreFinal` | `DecisionsStand`: `ResolvedOnce`, `RevokedLinkIsDead`, `TombstonesStay` |
| `OneOfferAtATime` | `[]OneOpenOffer` |
| `EveryMembershipIsWhole` | `[]MembershipsAreWhole` |
| `InvitationsExplainThem` | `[]InvitesExplainMembers` |
| `TheLinkAdmitsFew` | `[]LinkAdmitsFew` |
| `OnlyRacesUndoDenials` | `DeniedStaysDenied`, where `[]DenialsApart` |
| `SignatureProofs!TypeCorrect` | `[]TypeOK` of `Signatures` |
| `SignedEvidenceStands` | `[]EvidenceStands` |
| `RevocationsAreNotOvertaken` | `[]SignaturesFollowRevocations` |
| `AccessIsUpToDate` | `AccessFollowsPolicy`: decisions are right and stay right, unless a stale edit commits |
| `OnlyRacesOutdateAccess` | `AccessIsCurrent`, where `[]EditorsApart` |
| `OnlyRacesHideChanges` | `RevisionsCountChanges`, where `[]EditorsApart` |
| `OnlyRacesUncoverRequirements` | `RequirementsStay`, where `[]PolicyApart` |
| `ClientDomainsProofs!TypeCorrect` | `[]TypeOK` of `ClientDomains` |
| `RequestsStayOrderly` | `[]RequestsAreOrderly` |
| `ClaimsShowOnce` | `ClaimsAreSpentOnce` |
| `ExchangesAreGoverned` | `ExchangesFollowPolicy` |
| `OnlyLateInsertsBuyTwice` | `[]AssertionsAreSingleUse`, where `[]InsertsInTime` |
| `OnlyRacesRedecide` | `DecisionsAreFinal`, where `[]DecisionsApart` |
| `OnlyRacesMakeTwoLinks` | `[]OneLinkInFlight`, where `[]ReplacementsApart` |
| `OnlyRacesShowTwice` | `[]SecretsAreShownOnce`, where `[]ResendsApart` |
| `CredentialsProofs!TypeCorrect` | `[]TypeOK` of `Credentials` |
| `OneLinkIsEnough` | `[]OneLinkWins` |
| `LoginsAreCurrent` | `[]LoginsProveCurrentCredentials` |
| `EveryProofCountsOnce` | `ProofsCountOnce`: links and codes, TOTP steps, setup secrets; chooser tokens unless recorded late |
| `OnlyLateRecordsReuseChoosers` | `[]ChooserIsSingleUse`, where `[]UsesInTime` |
| `OnlyRacesLeaveTwoCodes` | `[]AtMostOneActiveCode`, where `[]InsertsApart` |
| `AutoTopUpProofs!TypeCorrect` | `[]TypeOK` of `AutoTopUp` |
| `ChargesAreCreditedOnce` | `[]OneChargeOneCredit` |
| `ConsentGovernsCharges` | `ConsentGoverns`: five parts, of which one is about steps |
| `CreditLedgerProofs!TypeCorrect` | `[]TypeOK` of `CreditLedger` |
| `SharesAddUp` | the division of credits leaves nothing over and gives no bucket more than it has room for |
| `LedgerIsSound` | `[]LedgerInvariant` |
| `CreditsAccounted` | `[]CreditsAreAccounted`: `BalanceExplained`, `CreditsAreAttributed`, `RefundsReachTheBalance` |
| `TriggersAgreeWithHandlers` | `[]TriggersAgree` |
| `CreditsPayFirst` | `[][CreditsAreUsedFirst]_vars` |
| `UsageIsSound` | `[]UsageInvariant` |
| `SettlementsKeepUp` | `SettlementsAreCurrent`, if there is one team |
| `ScopeSafety` | `[](SessionInvariant /\ ScopeInvariant)` |
| `SessionsKeepTheirMembership` | `[]ScopedSessionsHaveMembership` |
| `AssuranceIsInherited` | `[]AssuranceFollowsScope` |
| `LocksAreOrdered` | `[]NoWaitCycle` |
| `DisabledDomainsIssueNothing` | `NoIssueForDisabledDomain` |
| `RetriesAreAnswered` | `[]RetriesFindTheTip` |
| `SessionsImplementFamilies` | `ImplementsFamilies`, the refinement of `SessionFamilies` |

**Sessions.** None of the properties is inductive alone. That a rotation does
not fork, for one, depends on the row still being live and unreplaced when the
transaction commits, which was read before up to two further locks. The
invariant therefore adds: `UserMutex`, the user lock is exclusive;
`DecisionHolds`, what a transaction decided under it (the epoch, the row it
rotates, the tip it answers with) is still so until it commits, except that
pruning may take a row that expired; `FamiliesNamed`, the rows of a family
descend from one login and one spent code; `BumpsCondemn`, a family that moved
the epoch is condemned, which needs that pruning cannot bring a row back;
`EpochLeads`, no token carries an epoch ahead of the current one;
`UnusedRowsBlank`. It rests on `ConstantsAssumption` only.

The proof goes table by table before it goes action by action: a lemma for
each kind of write (`RevokedKeepsTables`, `CondemnedKeepsTables`,
`AllRevokedKeepsTables`, `OpenedKeepsTables`, `RotatedKeepsTables`,
`AnsweredKeepsTables`, `CodeIssuedKeepsTables`, `PrunedKeepsTables`) says that it
preserves what the tables promise, and one lemma per action combines it with
what happens to the transactions (`EndKeepsInvariant`, `MoveKeepsInvariant`).
`NextInvariant` collects them.

**Scopes and locks.** The module's second part keeps `SessionInvariant` and adds
`ScopeInvariant`: what a transaction is about fits the rows it works on (`TxScoped`: an
issuing one works for an enabled domain, a rotation for the domain and workspace of its
row, a tip that is to be answered is in the scope asked for); what it found under a
membership lock stands until it commits (`TxHolds`); and these locks are exclusive (`OrgMutex`).
Every way a transaction may go on or end is first shown to have one of four *shapes*: it closes
rows and opens none (`Quiet`), appends a row (`Issues`: `Opens` or `Replaces`), decides
(`Decides`), or changes memberships (`ChangesMembers`). Everything after argues over
the shapes. `NoWaitCycle` then needs no induction of its own: who waits for the user
lock holds no membership row, and who waits for a second one has the user lock, which is exclusive.
The proof uses `DefaultTeamAssumption` where `deleteTeam` moves a member to the default team.

**Chains.** `ChainInvariant` says that a replaced row is linked to a child of the same family,
domain and assurance which is kept at least as long (`ChainsLinked`; this is why pruning
cannot tear a chain), that the first row of a family is its own root (`FamiliesRooted`), that a row
condemned by reuse has moved the epoch (`SecBumped`), and that there is a rank along
which successors rise (`ChainsRise`). The rank exists for every chain a behaviour can build,
and with it the walk of `refresh-token-replay.service.ts` ends. The walk is a
recursive *function* of the number of steps; a proof by induction on them uses the library's
theorem that the order on the naturals is well founded, in its form about sets
(`LeastNatural`, `NaturalsByInduction`), since the induction rules with an operator parameter
cannot be instantiated. `ChainsNeverBreak` is the result, `RetriesAreAnswered` adds what a
transaction decided about the tip it answers with.

**Refinement.** `StepImplementsFamilies` maps each shape: a rotation, a prune or a step of a
transaction leaves `Phase` alone, a login opens one family, a revocation closes some,
a reset closes all, and detected reuse condemns one with one step of the epoch. That a family is
condemned *once* is where `SecBumped` and `BumpsCondemn` are needed, and that a rotation
leaves the phase alone is where `CondemnedFamilyIsDead` is.

**Credentials.** `IInv` is types, what the tables promise of proofs that were used
(`TokensSound`, `FactorSound`, `ChooserSound`, `LoginsSound`), that one connection at a
time is past the user lock (`OneHolder`), and `Stands`: what a connection found under that
lock is so until it commits. All of it hangs on the epoch. A link, a setup or a
chooser token carries the epoch it was signed under, it is compared under the lock, and
every change of a credential moves the epoch under the same lock; so two recovery links of one
epoch cannot both win, a setup cannot bring back a secret that was removed, and a login that verified
a password which is being changed is one of an earlier epoch. Registration takes no user lock,
since there is no user: there the unique `userKey` decides, and `Stands` says nothing of it.
Chooser tokens alone may count twice: their use is recorded, the record is pruned once the token
has expired, and the clock is read one statement before the insert. `EveryProofCountsOnce` is about
steps there: a token that selected a workspace still has its record as long as it has not
expired, so a second use is refused unless it is late.

**Client domains.** `IInv` is types; that rows refer to rows that exist (`RowsSound`); that a
claim has shown its secret once at most, and only if it was used (`Spending`); that a rotation claim wraps a secret of its
own that is not in use yet (`Rotation`); that what was accepted is registered
(`Requests`); that the record of a use outlives the assertion (`Uses`); that no two connections are
past the lock of the same row (`Apart`); and what each of them found (`Stands`).
`ExchangesAreGoverned` assumes nothing: an assertion that bought a token has its record until the
record expires, so whoever buys with it again read the clock before that and inserts after.

**Automatic top-ups.** `IInv` is types, `Books` and `Consents`. `Books` relates rows, Stripe and the
tasks of the replicas: an attempt has one intent, the one its row names (`StripeSound`,
`AttemptSound`); what an event reports is still so where it is final (`Agrees`); an attempt is SUCCEEDED
only if the event of its success is recorded, and a replica that has *received* an event of success
knows that it is not recorded, which is why the second of two deliveries cannot credit again; and an attempt
about to be given up is canceled at Stripe (`TaskSound`). None of this mentions the lock
of a dispatch: a second request, late or from a replica that lost its locks, is answered by the
idempotency key, and a handler that judged an attempt earlier is stopped by the trigger that
keeps resolved rows as they are. `Consents` says that attempts are made one after the
other, each under a later or equal consent and, after one was given up, under a later one
(`AttemptsInTurn`); that an account under consent revision 0 is not ACTIVE (`AccountSound`); and that
what precedes an attempt in its month leaves room for it under the cap it was claimed under
(`CapLeaves`), which is inductive where the cap itself, compared with what had succeeded
*by then*, is not. As for sessions, every action is first shown to be one of a few kinds of step
(`NextAdvances`: `Steady`, `Troubles`, `Charges`, `Writes`, `Renews`, `StartsSetup`, `GoesOn` for the
rows, `StripeMoves` and `TasksMove` beside them), and each kind keeps the invariant
(`AdvanceKeepsInvariant`). The theorems hold of both schemas (`scope.frozen`), and are about `Spec`
without fairness.

**Credit ledger.** Amounts are sums, so the module begins with them. The community
modules define a sum over a function by a fold along a chosen order of its domain, and no theorem about folds
can be used; but the fold is a recursive *function* on the subsets of the
domain, so that its equation, its independence of the order (`PartialWithout`) and from it
additivity, monotonicity, splitting and summing by rows (`TotalOfSum` to `TotalOfPairs`) are proved by
induction on sets in a first-order form (`SetsByInduction`). `SharesAddUp` is the second part: after rounding
down, less is left over than there are buckets with room, because the remainders add up to the capacity times
what is left and each is below the capacity; and exactly that many buckets have a rank below
it, since the order of remainders and then of buckets is total. It makes the `throw` that ends
`allocateAdditionalCredits` dead code.

`LedgerInvariant` adds to the properties what a request knows (`TasksFit`: an adjustment under the payment's lock
still has the delta it computed, one that has locked the account still sees its balance), that rows are of
what Stripe did and of payments recorded (`RowsFit`), that an event answered while it was news left its row
(`AnswersFit`), that a payment's rows add up to what its rows are for (`AppliedIsDesired`, the equation
the trigger tests) and that a service never settled has nothing allocated (`UnsettledIsBlank`). The
trigger's own sums over rows are shown to be the handler's sums over objects (`ActiveBeforeIs`,
`ActiveAfterIs`). A settlement is admitted because services that give back are written first:
what is written up to a service is at most all that moves, which is at most the balance.
`UsageInvariant` adds that the latest known portfolio has settled every service ever settled
(`KnownIsSettled`) and that each service is rated by it (`LatestIsSettled`). The latter does not mention teams,
and that is the disagreement `OrgUsage.cfg` shows; with one team it is `SettledUsageIsCurrent`. That there is
one is true of every account of a team (`billing-credit-settlement.service.ts:137`), so
`SettlementsKeepUp` assumes it.

**Roster.** `RosterInvariant` says that a transaction which looked again under the
row lock still holds the lock and still sees what it saw. The interesting part
is what it does *not* contain: a role change takes no lock before its update, and
waits for the row only at its commit, which is why an owner cannot appear
under a waiting deactivation, while the number of *other* owners may change.

**Joining.** `Base` is types, the constraints of the schema (`Allowed(db)`), that an
accepted invitation was accepted by the user it is for, and that what a
transaction refers to exists (`Sound`). It is inductive because a commit writes only
what is `Allowed`: the proof needs no lock. What the memberships do is then told by
one lemma, `MembershipSteps`: a step changes none of them, enrols one user by one of
the ways in (`Enrols`), founds an organisation or a team (`Founds`) or removes a user
(`Expels`). The theorems about members argue over these four kinds of steps, never over
the actions. Two of them need more than the constraints: `Whole` adds that what a
transaction has read stays true until it writes (`Ready`): a redemption that
found an ACTIVE membership holds its row lock, and one that records a request is alone
with its user (`OneAsks`, from the user lock) and found none; and that a membership is of an
organisation that exists (`Settled`).

**Signatures.** Four invariants, each resting on those before it. `Base` is types, and
that what a connection works on exists. `DraftInv` is about files, which no
transaction covers: a version has its file, except that a transaction about to delete
one (`Sound`) knows that no version refers to it, and of two at work on one version
neither deletes what the other stored (`Apart`); and at most one version of an
agreement is published, which makes "in force" unambiguous. `ClaimInv` ties the states of a
claim to its receipt and signature (`ClaimSound`), says what a transaction that has
decided still finds at its commit (`Decided`), and that there is one such transaction
(`OneDecides`, from the lock on the settings). `AccessIsUpToDate` is about steps: a decision to grant
access or to append a signature is `Right` when it is taken (`DecisionsAreInformed`), and
stays so until it commits. That is
`PolicyStands`: while somebody decides, no step of another changes what is required,
in force or signed. An edit of an agreement is the exception, since it takes
the lock only if it changes the requirement *against what it read before*; the property names it
(`StaleEditEnds`). The fourth invariant, `EditInv`, says that an edit still sees what it read. It holds while
no two edits of one agreement overlap (`EditorsApart`), and under it, by `OnlyRacesOutdateAccess`,
everything required is signed at the commit of a grant too. The
theorems are about `Spec`; `LossySpec`, where the answer to a commit may be lost, violates
`SourcesAreKept` (`LostCommits.cfg`).

**Only the race.** Some of the properties the code violates (section 5) it violates only when
certain transactions overlap. For these the theorems `OnlyRaces...` have the form
`Spec /\ []C => P`, and so have the two `OnlyLate...`: `C` says of every state of a behaviour which
transactions are not under way together, or not too late. They are diagnoses and no guarantee of the code, which nowhere ensures `C`; they show that
it would be enough to make these transactions exclude each other, and that nothing else reaches
the violation. `C` may exclude more than it must: `HandoversAlone` does.

| Disagreement | `C` | What must not overlap |
|---|---|---|
| `last_owner`, `TombstonedOwner.cfg`, `TwoTransfers.cfg` | `HandoversAlone` | a removal or a transfer, and any other change of the roster |
| `ActiveCodes.cfg` | `InsertsApart` | two requests for a login code, between retiring and inserting |
| `Denied.cfg` | `DenialsApart` | denying and approving one invitation |
| `TwoLinks.cfg` | `ReplacementsApart` | two replacements of the links of one request |
| `ShownTwice.cfg` | `ResendsApart` | a resend, and a replacement or a use of a link of the same request |
| `Redecided.cfg` | `DecisionsApart` | accepting and declining one request |
| `Withdrawals.cfg` | `PolicyApart` | withdrawing or publishing, and an edit or a switch |
| `TwoEditors.cfg` | `EditorsApart` | two edits of one agreement |
| `ChooserPruning.cfg` | `UsesInTime` | the use of a token and its expiry, between reading the clock and inserting |
| `LateInsert.cfg` | `InsertsInTime` | an exchange and the expiry of the record, between reading the clock and inserting |

`C` bounds what other transactions do, so each proof first says what a transaction under way
still knows: `NamedOwnerStands` (the owner read is the owner recorded), `NoneDenied` (what is about
to be approved is not denied), `OneUnusedCode` (who is about to insert has left no code unused),
`AllUndecided`, `LinksInOrder` and `SecretsInOrder` (a request about to be decided is open; who replaces
links has marked all there are, so only a link it does not know could survive it) and `Informed` (what a
withdrawal or publication was told of the requirement is still so). The other disagreements
happen to a single request, or need a lost answer, and no such theorem is
claimed of them.

### Only model-checked

`TransactionsEnd`, `ChargesAreCredited` and `DeclinesEndAttempts` stay with TLC: the prover does
not reach liveness under fairness, nor `ENABLED`. Every other property of a passing run is
the subject of a theorem, `SettlementsAreCurrent` under the assumption that the account pays for one
team, as the run's account does. The other theorems about runs assume nothing but what the modules
assume of their constants.
The configurations of section 5 are counterexamples; of eleven of them, and of the run
`last_owner`, a theorem says under which condition the property holds all the same.

## 5. Where the code and its documents disagree

Two runs are expected to find a violation:

- `last_owner`: `Docs/brief.md:1697` says the last owner cannot be removed.
  `removeOrganisationMember` locks the removed member's rows and counts owners,
  so that removals of two owners at once each count the other.
- `declines`: a declined automatic charge never ends its attempt. The identity
  guard on attempts (`20260721120000_add_billing_funding_foundation`) lists the columns
  an update may change, and a later migration added `state_webhook_event_id` without
  adding it there; every handler of a charge that did not succeed writes it and is
  refused. The consent can then be neither changed nor withdrawn. On a schema
  whose guard lists the column the property holds (`DeclinesRepaired.cfg`).

Met while modelling, and not the subject of a run: recovery wants to end an attempt as
CANCELED on the evidence of an event that says otherwise, which the evidence
triggers refuse, while its tests (`billing-credit-auto-top-up-recovery.service.test.ts:216`,
`:326`) expect it to be written; a `canceled` webhook that follows a recovery which wrote
FAILED is answered with an error for ever; a charge that succeeds after it was
reported as processing leaves the account PAUSED until someone recovers it; a
retried older portfolio is an error once a newer one has brought a new service.


Twenty more configurations lie beside the regular ones, each of which TLC finds
violated too:

| Configuration | Property | What happens |
|---|---|---|
| `WrongCodes.cfg` | `WrongCodesAreCounted` | a wrong login code is not counted: `verifyLoginCode` (`login-code.service.ts:202-212`) increments `attemptCount` and throws in the same transaction, which rolls the increment back; its comment (142-144) says each wrong attempt is counted |
| `ActiveCodes.cfg` | `AtMostOneActiveCode` | two requests for a login code interleave between retiring older codes and inserting (`login-code.service.ts:97`): two codes are active |
| `ChooserPruning.cfg` | `ChooserIsSingleUse` | "exactly once" (`login-session-use.service.ts:22`): the clock is read, the token found unexpired, then the record of its first use is pruned as it expires, then the insert succeeds (`login-session-use.service.ts:48`, `retention-pruning.service.ts:77`): a window of one statement, which `ProofsCountOnce` names |
| `TombstonedOwner.cfg` | `OwnerIsActive` | the recipient of a transfer is read before the transaction that writes it (`organisation.service.ownership.ts:96`) and may be deactivated in between |
| `TwoTransfers.cfg` | `TransferDemotes` | two transfers at once each demote the owner they read: the first recipient keeps the role |
| `Teamless.cfg` | `EveryMemberHasTeam` | `Docs/brief.md:1347` says every member belongs to at least one team; `deleteTeam` relocates only ACTIVE members, and one who was deactivated meanwhile comes back by reactivation without any team |
| `Denied.cfg` | `DeniedStaysDenied` | `team-invite-state-machine.ts:96` says a DENIED invitation can never be accepted; an approval decided before the denial and written by id after it makes it APPROVED |
| `OrgUsage.cfg` | `SettledUsageIsCurrent` | on an account that pays for a whole organisation, settling one team's portfolio rates the usage of every other team at nothing, since settlements and allocations of the month are found by account alone and a portfolio names one team (`billing-credit-settlement.service.ts:201`, whose line 120 says "every team's portfolio settles against it") |
| `Receipts.cfg` | `ReceiptsVerify` | an agreement's title may be changed at any time, and the public verification compares the signed title with the present one (`signature-access.service.ts:132`): after a rename no earlier signature verifies, which `Docs/Requirements/domain-signatures.md` promises for good |
| `Withdrawals.cfg` | `RequirementsStay` | withdrawing reads the settings without their lock (`signature-agreement-publication.service.ts:138`) while the requirement is switched on: the enabled domain requires an agreement without a version in force, and every login fails |
| `Lockout.cfg` | `PolicyCanBeMet` | an agreement may be created as required while the domain is enabled, before it has any version (`signature-admin.service.ts:174`); an edit that requires it would be refused (`AGREEMENT_PUBLISHED_VERSION_REQUIRED`) |
| `TwoEditors.cfg` | `RevisionsCountChanges`, `AccessIsCurrent` | two edits of one agreement each compare with what they read before (`signature-admin.service.ts:221-285`): the second one changes the requirement without a new revision, and without the settings lock, where `signature-policy-lock.service.ts:3` says it serializes policy mutation with every decision: a code is issued although something required is not signed. TLC stops at the first of the two; the other is found without it |
| `LostCommits.cfg` | `SourcesAreKept` | the answer to the commit of a replacement is lost, and the handler deletes the file the version now refers to, "not referenced on rollback" (`signature-agreement-lifecycle.service.ts:328`) |
| `LostSecrets.cfg` | `ClaimedSecretsWork` | resending an unclaimed rotation link creates the new claim without `clientDomainId` (`integration-accept.service.ts:254`): the partner is shown a secret that was never activated, where `domain-secret.service.ts:282` says `consumeClaim` activates it |
| `TwoLinks.cfg` | `OneLinkInFlight` | two resends or rotations at once each delete what they saw: two unused links, which `domain-secret.service.ts:328` wants to rule out |
| `ShownTwice.cfg` | `SecretsAreShownOnce` | a resend reads the wrapped secret while the link is being consumed, and wraps it again (`integration-claim.service.ts:169` says it is shown once) |
| `Redecided.cfg` | `DecisionsAreFinal` | refusing a request takes no lock and writes by id (`integration-request.service.ts:175`): an accepted request becomes DECLINED |
| `Mappings.cfg` | `MappingsGovern` | the mutators of mappings do not take the policy lock that `product-workspace-policy-lock.service.ts:26` says they all hold: a token is issued through a mapping that was disabled |
| `LateInsert.cfg` | `AssertionsAreSingleUse` | "one-time use" (`confidential-assertion-use.service.ts:39`): the clock is read, the record of the first use expires and is pruned, then the second use is inserted; a window of two statements, which `ExchangesFollowPolicy` names |
| `SeatLimit.cfg` | `SeatsAreLimited` | reactivation does not count seats (`organisation.service.lifecycle.ts:174-192`, `Docs/brief.md:898`) |

## 6. Running it

    tlc -workers 2 -config Sessions.cfg MCRefreshSessions.tla
    tlc -workers 2 -config Credentials.cfg MCCredentials.tla
    tlc -workers 2 -config Roster.cfg   MCOrgRoster.tla
    tlapm RefreshSessionsProofs.tla
    tlapm OrgRosterProofs.tla
    tlapm JoiningProofs.tla
    tlapm SignatureProofs.tla
    tlapm ClientDomainsProofs.tla
    tlapm CredentialsProofs.tla
    tlapm AutoTopUpProofs.tla
    tlapm CreditLedgerProofs.tla

`PROJECT.json` names the module of each configuration. Every run ends within a minute
on two cores of a current machine and within five on one four times slower; each proof
module takes a few minutes.

## 7. Not modelled, and what is next

Not modelled, and why: the chained confidential exchange (it adds the verification of a second
token to the same single use), tariffs, invoices, contracts, subscriptions and statements
(administered by one person or one scheduler at a time, mostly arithmetic and
projection), client configuration (stateless parsing), e-mail, translations,
avatars, logs, the front ends and the protocol package (no state other parts
read back).

In order of importance to the system:

1. **Checkout and subscriptions**: idempotent checkouts of tariffs and add-ons, and
   the invoices they produce.
2. **Pure algorithms**: the strongest 2FA policy of several, role grants, rating
   of usage in integer money, against reference definitions.
3. **A client with retries** composed with `RefreshSessions`: that it converges on
   the live tip.

Theorems to add: liveness is out of reach; what is left are the parts above, once they
are modelled.
