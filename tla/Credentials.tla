---------------------------- MODULE Credentials ----------------------------
(***************************************************************************)
(* The credentials of ONE account (one userKey): the e-mailed verification *)
(* tokens and login codes, the password, the TOTP second factor, the       *)
(* one-time workspace chooser, and the credential epoch (tokenVersion)     *)
(* that every change of a credential moves.  RefreshSessions says what the *)
(* epoch does to sessions; here it is what ties proofs to credentials.     *)
(*                                                                         *)
(* A transaction reads what it was handed, waits for the user lock, checks *)
(* the epoch and reads the clock, and commits; others run in between.      *)
(* Issuing a token is three statements without a transaction or a lock.    *)
(***************************************************************************)
EXTENDS Integers, FiniteSets

CONSTANTS
  TokenId,     \* verification_tokens ids, a bound on the tokens ever issued
  Jti,         \* chooser login_token ids, a bound on those ever signed
  Secret,      \* TOTP secrets, a bound on those ever generated
  Tx,          \* connections: how many transactions run at once
  None,        \* SQL NULL
  Password,    \* passwords users choose
  TokenTtl,    \* EMAIL_TOKEN_TTL_MS
  CodeTtl,     \* LOGIN_CODE_TTL_MS
  ChooserTtl,  \* lifetime of a login_token
  MaxAttempts, \* LOGIN_CODE_MAX_ATTEMPTS
  Operations,  \* which operations callers invoke in this instance
  MaxTime,     \* bound on the clock, whose unit is the TOTP period
  MaxEpoch,    \* bound on the resets an administrator asks for
  MaxWrong     \* bound on wrong login codes tried

Never == -1
Registration == {"VERIFY_EMAIL", "VERIFY_EMAIL_SET_PASSWORD"}
Recovery     == {"PASSWORD_RESET", "TWOFA_RESET"}
TokenType    == Registration \cup Recovery \cup {"LOGIN_LINK", "LOGIN_CODE"}
Proved       == {"setup", "verify", "disable", "chooser"}
AllOperations ==
  TokenType \cup Proved \cup {"login", "social", "enroll", "select", "adminReset", "prune"}

ASSUME CredentialsAssumption ==
  /\ None \notin TokenId \cup Jti \cup Secret \cup Password
  /\ Operations \subseteq AllOperations
  /\ TokenTtl \in Nat /\ CodeTtl \in Nat /\ ChooserTtl \in Nat
  /\ MaxAttempts \in Nat /\ MaxTime \in Nat /\ MaxEpoch \in Nat /\ MaxWrong \in Nat
  /\ IsFiniteSet(TokenId)

VARIABLES
  now,      \* the clock
  user,     \* the users row of this userKey, which may not exist yet
  tok,      \* the verification_tokens table
  setup,    \* per TOTP secret: the epoch its setup token was signed under
  chooser,  \* per login_token: the epoch and expiry it was signed with
  claimed,  \* the login_session_uses table
  logins,   \* proofs of authentication handed out, by epoch
  tx,       \* what each connection is doing
  uses,     \* history: how often each verification token was honoured
  wrong,    \* history: how often a wrong code was tried against a token
  accepted, \* history: how often each TOTP step of a secret was accepted
  enrolled, \* history: how often each secret was enrolled
  selected  \* history: how often each login_token selected a workspace

signed  == <<setup, chooser, logins>>
history == <<uses, wrong, accepted, enrolled, selected>>
vars == <<now, user, tok, signed, claimed, tx, history>>

Counter == 0 .. MaxTime + 1

BlankToken ==
  [st |-> "none", type |-> "LOGIN_LINK", epoch |-> Never, expires |-> 0,
   used |-> FALSE, attempts |-> 0, born |-> 0]
Idle ==
  [op |-> "none", pc |-> "idle", ref |-> None, epoch |-> Never,
   seen |-> FALSE, given |-> None, at |-> 0]

----------------------------------------------------------------------------
(* The user lock.  Whoever creates the account has no user to lock, and    *)
(* issuing a token takes no lock at all.                                   *)

IsRegistration(t) == tx[t].op \in Registration

(* Mutation: the e-mailed tokens are consumed without the user lock. *)
TokensUnlocked(t) == tx[t].op \notin TokenType

TakesUserLock(t) == ~IsRegistration(t) /\ (tx[t].op = "social" => tx[t].seen)
HoldsUser(t)     == tx[t].pc = "commit" /\ TakesUserLock(t)

End(t)   == tx' = [tx EXCEPT ![t] = Idle]
Abort(t) == End(t) /\ UNCHANGED <<now, user, tok, signed, claimed, history>>

Begin(t, new) ==
  /\ new.op \in Operations
  /\ tx[t].pc = "idle"
  /\ tx' = [tx EXCEPT ![t] = new]
  /\ UNCHANGED <<now, user, tok, signed, claimed, history>>

----------------------------------------------------------------------------
(* Issuing a token: read the user and the clock, for a login code retire   *)
(* the older ones, insert.  Each is a statement of its own.                *)

Exists(k) == tok[k].st = "row"

(* Which kind of token is sent depends on what the account looks like at   *)
(* the first read.                                                         *)
Issuable(type) ==
  /\ IF type \in Registration THEN ~user.exists ELSE user.exists
  /\ type = "TWOFA_RESET" => user.secret # None

BeginIssue(t, type) ==
  /\ Issuable(type)
  /\ Begin(t, [Idle EXCEPT !.op = type,
                 !.pc = IF type = "LOGIN_CODE" THEN "supersede" ELSE "create",
                 !.epoch = IF type \in Registration THEN Never ELSE user.epoch,
                 !.at = now])

Supersede(t) ==
  /\ tx[t].pc = "supersede"
  /\ tok' = [k \in TokenId |->
               IF Exists(k) /\ tok[k].type = "LOGIN_CODE" /\ ~tok[k].used
               THEN [tok[k] EXCEPT !.used = TRUE] ELSE tok[k]]
  /\ tx' = [tx EXCEPT ![t].pc = "create"]
  /\ UNCHANGED <<now, user, signed, claimed, history>>

CreateToken(t) ==
  /\ tx[t].pc = "create"
  /\ \E k \in TokenId :
       /\ tok[k].st = "none"
       /\ tok' = [tok EXCEPT ![k] =
            [st |-> "row", type |-> tx[t].op, epoch |-> tx[t].epoch,
             expires |-> tx[t].at + (IF tx[t].op = "LOGIN_CODE" THEN CodeTtl ELSE TokenTtl),
             used |-> FALSE, attempts |-> 0,
             born |-> Cardinality({j \in TokenId : tok[j].st # "none"})]]
  /\ End(t)
  /\ UNCHANGED <<now, user, signed, claimed, history>>

----------------------------------------------------------------------------
(* Beginning a transaction that presents something. *)

(* An e-mailed link names its token; its row is read before the lock. *)
BeginConsume(t, k) ==
  /\ Exists(k) /\ tok[k].type # "LOGIN_CODE"
  /\ Begin(t, [Idle EXCEPT !.op = tok[k].type, !.pc = "user", !.ref = k,
                  !.epoch = tok[k].epoch, !.seen = tok[k].used])

Candidates == {k \in TokenId : /\ Exists(k) /\ tok[k].type = "LOGIN_CODE"
                               /\ ~tok[k].used /\ tok[k].attempts < MaxAttempts}

(* A login code does not: the newest unused one is what it is compared     *)
(* with.  The user types that code, or another.                            *)
BeginCode(t) ==
  \E k \in Candidates, typed \in TokenId \cup {None} :
    /\ \A j \in Candidates : tok[j].born <= tok[k].born
    /\ typed # k => typed = None /\ wrong[k] < MaxWrong
    /\ Begin(t, [Idle EXCEPT !.op = "LOGIN_CODE", !.pc = "user", !.ref = k,
                    !.epoch = tok[k].epoch, !.given = typed])

(* The password is verified against the hash read before the lock. *)
BeginLogin(t, p) ==
  /\ user.exists /\ user.pw = p
  /\ Begin(t, [Idle EXCEPT !.op = "login", !.pc = "user", !.given = p])

BeginSocial(t) ==
  Begin(t, [Idle EXCEPT !.op = "social", !.pc = "user", !.seen = user.exists])

(* Access tokens, 2FA challenges and finished logins carry the epoch they  *)
(* were granted under.                                                     *)
BeginProved(t, op, l) ==
  Begin(t, [Idle EXCEPT !.op = op, !.pc = "user", !.epoch = l.epoch])

BeginEnroll(t, s) ==
  /\ setup[s] # Never
  /\ Begin(t, [Idle EXCEPT !.op = "enroll", !.pc = "user", !.ref = s, !.epoch = setup[s]])

BeginSelect(t, j) ==
  /\ chooser[j].epoch # Never /\ chooser[j].expires > now
  /\ Begin(t, [Idle EXCEPT !.op = "select", !.pc = "user", !.ref = j,
                  !.epoch = chooser[j].epoch])

BeginAdminReset(t) ==
  /\ user.exists /\ user.epoch < MaxEpoch
  /\ Begin(t, [Idle EXCEPT !.op = "adminReset", !.pc = "user"])

----------------------------------------------------------------------------
(* Under the lock: the epoch proof, then the clock, read once. *)

ChecksEpoch(t) == tx[t].op \in (TokenType \ Registration) \cup Proved \cup {"enroll", "select"}

EpochHolds(t) ==
  /\ ChecksEpoch(t) => user.epoch = tx[t].epoch
  /\ IsRegistration(t) => ~user.exists

LockUser(t) ==
  /\ tx[t].pc = "user"
  /\ TakesUserLock(t) => \A u \in Tx : ~HoldsUser(u)
  /\ IF EpochHolds(t)
     THEN /\ tx' = [tx EXCEPT ![t].pc = "commit", ![t].at = now]
          /\ UNCHANGED <<now, user, tok, signed, claimed, history>>
     ELSE Abort(t)

Committing(t, op) == tx[t].op = op /\ tx[t].pc = "commit"


(* The compare-and-set that spends a token. *)
Claimable(k, at) == Exists(k) /\ ~tok[k].used /\ tok[k].expires > at

(* What the row said before the lock is asserted, then it is claimed. *)
Honoured(t) == ~tx[t].seen /\ Claimable(tx[t].ref, tx[t].at)
Spend(k) ==
  /\ tok' = [tok EXCEPT ![k].used = TRUE]
  /\ uses' = [uses EXCEPT ![k] = @ + 1]
  /\ UNCHANGED <<wrong, accepted, enrolled, selected>>

Grant(how, with) ==
  logins' = logins \cup {[how |-> how, epoch |-> user.epoch, with |-> with]}

----------------------------------------------------------------------------
(* Commits. *)

(* Mutation: the session revocation, and with it the epoch, is forgotten. *)
NewEpochForgotten(u) == u

NewEpoch(u) == [u EXCEPT !.epoch = @ + 1]

ResetPassword(t) ==
  /\ Committing(t, "PASSWORD_RESET")
  /\ IF ~Honoured(t) THEN Abort(t)
     ELSE /\ \E p \in Password : user' = NewEpoch([user EXCEPT !.pw = p])
          /\ Spend(tx[t].ref) /\ End(t)
          /\ UNCHANGED <<now, signed, claimed>>

WithoutFactor(u) == [u EXCEPT !.secret = None, !.last = Never]

ResetTwoFa(t) ==
  /\ Committing(t, "TWOFA_RESET")
  /\ IF ~Honoured(t) THEN Abort(t)
     ELSE /\ user' = NewEpoch(WithoutFactor(user))
          /\ Spend(tx[t].ref) /\ End(t)
          /\ UNCHANGED <<now, signed, claimed>>

LoginByLink(t) ==
  /\ Committing(t, "LOGIN_LINK")
  /\ IF ~Honoured(t) THEN Abort(t)
     ELSE /\ Spend(tx[t].ref) /\ Grant("link", None) /\ End(t)
          /\ UNCHANGED <<now, user, setup, chooser, claimed>>

(* A wrong code increments attemptCount and throws, inside the transaction *)
(* the throw rolls back: nothing of it remains.                            *)
WrongCode(t) ==
  LET k == tx[t].ref IN
  /\ Committing(t, "LOGIN_CODE") /\ tx[t].given # k /\ tok[k].expires > tx[t].at
  /\ wrong' = [wrong EXCEPT ![k] = IF Claimable(k, tx[t].at) THEN @ + 1 ELSE @]
  /\ End(t)
  /\ UNCHANGED <<now, user, tok, signed, claimed, uses, accepted, enrolled, selected>>

LoginByCode(t) ==
  /\ Committing(t, "LOGIN_CODE")
  /\ tx[t].given = tx[t].ref \/ tok[tx[t].ref].expires <= tx[t].at
  /\ IF ~Honoured(t) THEN Abort(t)
     ELSE /\ Spend(tx[t].ref) /\ Grant("code", None) /\ End(t)
          /\ UNCHANGED <<now, user, setup, chooser, claimed>>

(* Mutation: registration upserts the user. *)
UpsertAccount(p) == user' = [user EXCEPT !.exists = TRUE, !.pw = p]

(* user.create: the unique userKey refuses a second account. *)
CreateAccount(p) ==
  ~user.exists /\ user' = [user EXCEPT !.exists = TRUE, !.pw = p]

Register(t) ==
  /\ IsRegistration(t) /\ tx[t].pc = "commit" /\ Honoured(t)
  /\ \E p \in IF tx[t].op = "VERIFY_EMAIL" THEN {None} ELSE Password : CreateAccount(p)
  /\ Spend(tx[t].ref) /\ Grant("link", None) /\ End(t)
  /\ UNCHANGED <<now, setup, chooser, claimed>>

(* The callback saw the account before the lock: it creates what it did    *)
(* not see, and logs in to what it saw.                                    *)
SocialLogin(t) ==
  /\ Committing(t, "social")
  /\ IF tx[t].seen THEN UNCHANGED user ELSE CreateAccount(None)
  /\ Grant("social", None) /\ End(t)
  /\ UNCHANGED <<now, tok, setup, chooser, claimed, history>>

(* Mutation: what was verified before the lock is not verified again. *)
VerifiedBefore(p) == TRUE

VerifiedNow(p) == user.pw = p

LoginByPassword(t) ==
  /\ Committing(t, "login")
  /\ IF ~VerifiedNow(tx[t].given) THEN Abort(t)
     ELSE /\ Grant("password", tx[t].given) /\ End(t)
          /\ UNCHANGED <<now, user, tok, setup, chooser, claimed, history>>

----------------------------------------------------------------------------
(* The second factor. *)

(* Mutation: a window of three steps either way. *)
WiderWindow == {c \in 0 .. MaxTime + 3 : c \in now - 3 .. now + 3}

(* findMatchingTotpCounter: one step of skew either way *)
Window == {c \in Counter : c \in now - 1 .. now + 1}

StartSetup(t) ==
  /\ Committing(t, "setup") /\ user.secret = None
  /\ \E s \in Secret : /\ setup[s] = Never
                       /\ setup' = [setup EXCEPT ![s] = user.epoch]
  /\ End(t)
  /\ UNCHANGED <<now, user, tok, chooser, claimed, logins, history>>

Enrolled(s, c) == [user EXCEPT !.secret = s, !.last = c]

Accept(s, c) == accepted' = [accepted EXCEPT ![s][c] = @ + 1]

Enroll(t) ==
  /\ Committing(t, "enroll") /\ user.secret = None
  /\ \E c \in Window : user' = Enrolled(tx[t].ref, c) /\ Accept(tx[t].ref, c)
  /\ enrolled' = [enrolled EXCEPT ![tx[t].ref] = @ + 1]
  /\ End(t)
  /\ UNCHANGED <<now, tok, signed, claimed, uses, wrong, selected>>

(* verifyTwoFactorForLogin: the step must be newer than the last accepted. *)
Fresh(c) == user.secret # None /\ c > user.last

VerifyTwoFa(t) ==
  /\ Committing(t, "verify")
  /\ \E c \in Window : /\ Fresh(c) /\ Accept(user.secret, c)
                       /\ user' = [user EXCEPT !.last = c]
  /\ Grant("totp", user.secret) /\ End(t)
  /\ UNCHANGED <<now, tok, setup, chooser, claimed, uses, wrong, enrolled, selected>>

DisableTwoFa(t) ==
  /\ Committing(t, "disable")
  /\ \E c \in Window : Fresh(c) /\ Accept(user.secret, c)
  /\ user' = NewEpoch(WithoutFactor(user))
  /\ End(t)
  /\ UNCHANGED <<now, tok, signed, claimed, uses, wrong, enrolled, selected>>

AdminReset(t) ==
  /\ Committing(t, "adminReset")
  /\ user' = NewEpoch(WithoutFactor(user))
  /\ End(t)
  /\ UNCHANGED <<now, tok, signed, claimed, history>>

----------------------------------------------------------------------------
(* The workspace chooser: a signed login_token, spent by a unique insert.  *)

SignChooser(t) ==
  /\ Committing(t, "chooser")
  /\ \E j \in Jti :
       /\ chooser[j].epoch = Never
       /\ chooser' = [chooser EXCEPT ![j] = [epoch |-> user.epoch, expires |-> now + ChooserTtl]]
  /\ End(t)
  /\ UNCHANGED <<now, user, tok, setup, claimed, logins, history>>

Unclaimed(j) == j \notin claimed

SelectTeam(t) ==
  LET j == tx[t].ref IN
  /\ Committing(t, "select")
  /\ IF chooser[j].expires <= tx[t].at \/ ~Unclaimed(j) THEN Abort(t)
     ELSE /\ claimed' = claimed \cup {j}
          /\ selected' = [selected EXCEPT ![j] = @ + 1]
          /\ End(t)
          /\ UNCHANGED <<now, user, tok, signed, uses, wrong, accepted, enrolled>>

----------------------------------------------------------------------------
(* The surroundings. *)

(* A later check of the same transaction refuses, or its connection dies. *)
Fail(t) == tx[t].pc # "idle" /\ Abort(t)

(* Mutation: the record of a use is pruned a step too early. *)
NearlyExpired(j) == chooser[j].expires <= now + 1

(* loginSessionUse.deleteMany *)
UseExpired(j) == chooser[j].expires <= now

(* pruneExpiredSecurityData *)
Prune ==
  LET old  == {k \in TokenId : Exists(k) /\ tok[k].expires < now}
      past == {j \in claimed : UseExpired(j)} IN
  /\ "prune" \in Operations
  /\ old # {} \/ past # {}
  /\ tok' = [k \in TokenId |-> IF k \in old THEN [tok[k] EXCEPT !.st = "pruned"] ELSE tok[k]]
  /\ claimed' = claimed \ past
  /\ UNCHANGED <<now, user, signed, tx, history>>

Tick ==
  /\ now < MaxTime /\ now' = now + 1
  /\ UNCHANGED <<user, tok, signed, claimed, tx, history>>

Init ==
  /\ now = 0
  /\ user \in [exists : {FALSE}, pw : {None}, epoch : {0}, secret : {None}, last : {Never}]
         \cup [exists : {TRUE}, pw : Password \cup {None}, epoch : {0},
               secret : {None}, last : {Never}]
  /\ tok = [k \in TokenId |-> BlankToken]
  /\ setup = [s \in Secret |-> Never]
  /\ chooser = [j \in Jti |-> [epoch |-> Never, expires |-> 0]]
  /\ claimed = {} /\ logins = {}
  /\ tx = [t \in Tx |-> Idle]
  /\ uses = [k \in TokenId |-> 0] /\ wrong = [k \in TokenId |-> 0]
  /\ accepted = [s \in Secret |-> [c \in Counter |-> 0]]
  /\ enrolled = [s \in Secret |-> 0] /\ selected = [j \in Jti |-> 0]

Issue(t) == (\E type \in TokenType : BeginIssue(t, type)) \/ Supersede(t) \/ CreateToken(t)

Present(t) ==
  \/ \E k \in TokenId : BeginConsume(t, k)
  \/ \E p \in Password : BeginLogin(t, p)
  \/ \E op \in Proved, l \in logins : BeginProved(t, op, l)
  \/ \E s \in Secret : BeginEnroll(t, s)
  \/ \E j \in Jti : BeginSelect(t, j)
  \/ BeginCode(t) \/ BeginSocial(t) \/ BeginAdminReset(t)

Commit(t) ==
  \/ ResetPassword(t) \/ ResetTwoFa(t) \/ LoginByLink(t) \/ LoginByCode(t) \/ WrongCode(t)
  \/ Register(t) \/ SocialLogin(t) \/ LoginByPassword(t)
  \/ StartSetup(t) \/ Enroll(t) \/ VerifyTwoFa(t) \/ DisableTwoFa(t) \/ AdminReset(t)
  \/ SignChooser(t) \/ SelectTeam(t)

Next ==
  \/ \E t \in Tx : Issue(t) \/ Present(t) \/ LockUser(t) \/ Commit(t) \/ Fail(t)
  \/ Prune \/ Tick

Spec == Init /\ [][Next]_vars

----------------------------------------------------------------------------
(* Types *)

Moment == 0 .. MaxTime
TypeOK ==
  /\ now \in Moment
  /\ user \in [exists : BOOLEAN, pw : Password \cup {None}, epoch : Nat,
               secret : Secret \cup {None}, last : Counter \cup {Never}]
  /\ tok \in [TokenId -> [st : {"none", "row", "pruned"}, type : TokenType,
                epoch : Nat \cup {Never}, expires : Nat, used : BOOLEAN,
                attempts : Nat, born : Nat]]
  /\ setup \in [Secret -> Nat \cup {Never}]
  /\ chooser \in [Jti -> [epoch : Nat \cup {Never}, expires : Nat]]
  /\ claimed \subseteq Jti
  /\ logins \subseteq [how : {"link", "code", "social", "password", "totp"},
                       epoch : Nat, with : Password \cup Secret \cup {None}]
  /\ tx \in [Tx -> [op : AllOperations \cup {"none"},
               pc : {"idle", "supersede", "create", "user", "commit"},
               ref : TokenId \cup Secret \cup Jti \cup {None}, epoch : Nat \cup {Never},
               seen : BOOLEAN, given : Password \cup TokenId \cup {None}, at : Moment]]
  /\ uses \in [TokenId -> Nat] /\ wrong \in [TokenId -> Nat]
  /\ accepted \in [Secret -> [Counter -> Nat]]
  /\ enrolled \in [Secret -> Nat] /\ selected \in [Jti -> Nat]

----------------------------------------------------------------------------
(* What must hold. *)

(* An e-mailed link or code is honoured at most once, however often and    *)
(* however simultaneously it is clicked.                                   *)
TokensAreSingleUse == \A k \in TokenId : uses[k] <= 1

(* Of all the recovery e-mails a user asked for, the first one used        *)
(* withdraws the others: no two of one epoch are ever honoured.            *)
OneRecoveryPerEpoch ==
  \A j, k \in TokenId :
    /\ tok[j].type \in Recovery /\ tok[k].type \in Recovery
    /\ uses[j] > 0 /\ uses[k] > 0 /\ tok[j].epoch = tok[k].epoch
    => j = k

(* Of all the registration e-mails sent to an address, one opens the       *)
(* account; no later one touches the password it was opened with.          *)
OneRegistrationPerAccount ==
  Cardinality({k \in TokenId : tok[k].type \in Registration /\ uses[k] > 0}) <= 1

(* Of the links that are in an inbox, whether they open the account or     *)
(* recover it, one wins.                                                   *)
OneLinkWins == OneRegistrationPerAccount /\ OneRecoveryPerEpoch

(* A login whose epoch is still current was made with the password, and    *)
(* the second factor, the account still has: a change of either, also one  *)
(* committed while the login was under way, ends what the old one proved.  *)
LoginsProveCurrentCredentials ==
  \A l \in logins : l.epoch = user.epoch =>
    /\ l.how = "password" => l.with = user.pw
    /\ l.how = "totp" => l.with = user.secret

(* No TOTP step of a secret is accepted twice, whichever of enrollment,    *)
(* login and disabling it was typed for.                                   *)
TotpStepsAreSingleUse == \A s \in Secret, c \in Counter : accepted[s][c] <= 1

(* A setup link enrolls its secret once: it does not bring a secret back   *)
(* that was removed from the account since.                                *)
SecretsAreEnrolledOnce == \A s \in Secret : enrolled[s] <= 1

(* A request for a workspace read the clock before its login_token         *)
(* expired, and records the use only after it did.                         *)
RecordedLate(t, j) ==
  /\ Committing(t, "select") /\ tx[t].ref = j
  /\ tx[t].at < chooser[j].expires /\ chooser[j].expires <= now

(* A login_token that already selected a workspace selects another only    *)
(* by a use recorded late, which may find the record of the first one      *)
(* pruned.  Whoever records it before it expires is its only user.         *)
ChoosersCountOnce ==
  [][\A j \in Jti : selected'[j] # selected[j] =>
       \/ selected[j] = 0
       \/ \E t \in Tx : RecordedLate(t, j) /\ tx'[t] # tx[t]]_vars

(* Whatever proves who the user is counts once, through every interleaving *)
(* of requests, changes of credential and pruning: links and codes, TOTP   *)
(* steps and setup secrets always, a chooser token unless its use is       *)
(* recorded after it expired.                                              *)
ProofsCountOnce ==
  /\ [](TokensAreSingleUse /\ TotpStepsAreSingleUse /\ SecretsAreEnrolledOnce)
  /\ ChoosersCountOnce

----------------------------------------------------------------------------
(* What does not hold. *)

(* login-session-use.service.ts:22: "Claim a verified chooser capability   *)
(* exactly once": a chooser login_token selects at most one workspace.     *)
ChooserIsSingleUse == \A j \in Jti : selected[j] <= 1

(* login-code.service.ts:141: each wrong attempt increments attemptCount. *)
WrongCodesAreCounted == \A k \in TokenId : tok[k].attempts = wrong[k]

(* login-code.service.ts:64: at most one active code per account. *)
AtMostOneActiveCode ==
  Cardinality({k \in Candidates : tok[k].expires > now}) <= 1
=============================================================================
