--------------------------- MODULE ClientDomains ---------------------------
(***************************************************************************)
(* How a product becomes a client, and what a client may then exchange:    *)
(* requests found by auto-discovery and decided by an administrator, the   *)
(* claim links that show a client its secret once, the secrets and keys of *)
(* its domain, and confidential assertions that buy an access token once.  *)
(*                                                                         *)
(* Only what decides over a domain's policy takes the policy lock.  The    *)
(* rest reads first and writes by id; unique indexes, foreign keys and     *)
(* conditional updates are what stands between two such transactions.      *)
(***************************************************************************)
EXTENDS Integers

CONSTANTS
  Domain, Kid, Request, Assertion, None,
  MaxClaims, MaxSecrets,  \* bounds: claim tokens and secrets ever created
  ClaimLife,      \* of a claim link
  AssertionLife,  \* from signing until exp plus the clock tolerance
  Margin,         \* by which the record of a use outlives that
  MaxTime, MaxEpoch,      \* bounds: the clock, resets of the user
  Tx,             \* connections
  Scopes          \* bounds: what a behaviour is about, and where it starts

Claim  == 1..MaxClaims
Secret == 1..MaxSecrets
Time   == 0..MaxTime
Operation ==
  {"discover", "accept", "decline", "delete", "resend", "rotate", "direct", "claim", "sweep",
   "register", "status", "keys", "mapping", "sign", "exchange", "prune", "reset"}

ASSUME ClientDomainsAssumption ==
  /\ None \notin Domain \cup Kid \cup Request \cup Assertion
  /\ MaxClaims \in Nat \ {0} /\ MaxSecrets \in Nat \ {0} /\ MaxTime \in Nat /\ MaxEpoch \in Nat
  /\ ClaimLife \in Nat \ {0} /\ AssertionLife \in Nat \ {0} /\ Margin \in Nat \ {0}
  /\ Scopes \subseteq [ops : SUBSET Operation, start : {"empty", "accepted"}]

VARIABLES
  dom,      \* client_domains: the status of a domain, or none
  sec,      \* client_domain_secrets
  jwk,      \* client_domain_jwks, by kid, which is unique
  req,      \* client_domain_integration_requests
  clm,      \* integration_claim_tokens
  map,      \* confidential_delegation_mappings, for one product
  use,      \* confidential_assertion_uses: when the record expires, or 0
  asr,      \* assertions that domains signed for the user (external)
  epoch,    \* the user's tokenVersion
  now,
  tx,       \* what each connection is doing
  scope,    \* bounds the behaviour
  accepted, \* history: the requests that were ever accepted, with their domain
  shown,    \* history: how often a claim showed its secret
  bought,   \* history: how many tokens were issued for an assertion
  drawn     \* secrets drawn so far

tables  == <<dom, sec, jwk, req, clm, map, use>>
others  == <<asr, epoch, now, scope>>
history == <<accepted, shown, bought, drawn>>
vars    == <<tables, others, tx, history>>

NoSecret  == [of |-> None, active |-> FALSE]
NoRequest == [st |-> "none", of |-> None, kid |-> None]
NoClaim   == [st |-> "none", req |-> None, s |-> 0, rot |-> FALSE, blob |-> FALSE, expires |-> 0]
Unsigned  == [of |-> None, ends |-> 0, tv |-> 0]
Idle == [op |-> "none", pc |-> "idle", d |-> None, k |-> None, r |-> None, j |-> None,
         c |-> 0, s |-> 0, seen |-> {}, at |-> 0]

----------------------------------------------------------------------------
(* What the tables say.                                                    *)

Registered(d)    == dom[d] # "none"
NoConflict(d)    == FALSE
Conflict(d)      == Registered(d)
SecretsOf(d)     == {s \in Secret : sec[s].of = d}
ActiveSecrets(d) == {s \in SecretsOf(d) : sec[s].active}
IsOpen(row)      == row.st \in {"PENDING", "DECLINED"}
IsRow(row)       == row.st \notin {"none", "gone"}
Unused(r)        == {c \in Claim : clm[c].st = "unused" /\ clm[c].req = r}
IsNewClaim(c)    == clm[c].st = "none" /\ \A b \in 1..(c - 1) : clm[b].st # "none"
IsNewSecret(s)   == s = drawn + 1

(* The partial unique index on the open requests of a domain.              *)
OneOpenEach(rows) ==
  \A q, r \in Request : IsOpen(rows[q]) /\ IsOpen(rows[r]) /\ rows[q].of = rows[r].of => q = r

(* The policy lock: accepting holds it exclusively, an exchange shares it  *)
(* and holds its user's lock as well, both until the commit.               *)
HoldsPolicy(t)  == tx[t].op = "accept"
HoldsUser(t)    == tx[t].op = "exchange" /\ tx[t].pc = "locked"
SharesPolicy(t) == HoldsUser(t)
PolicyFree      == \A t \in Tx : ~HoldsPolicy(t) /\ ~SharesPolicy(t)
PolicyShareable == \A t \in Tx : ~HoldsPolicy(t)
UserFree        == \A t \in Tx : ~HoldsUser(t)

(* A claim token whose row a consumer has updated and not yet committed.   *)
Taken(c) == \E t \in Tx : tx[t].op = "claim" /\ tx[t].pc = "taken" /\ tx[t].c = c

About(op) == op \in scope.ops
Begin(t, op, new) ==
  /\ About(op) /\ tx[t] = Idle
  /\ tx' = [tx EXCEPT ![t] = new]
  /\ UNCHANGED <<tables, others, history>>
Move(t, new) == tx' = [tx EXCEPT ![t] = new] /\ UNCHANGED <<tables, others, history>>
End(t)       == tx' = [tx EXCEPT ![t] = Idle]
Abort(t)     == Move(t, Idle)
(* A transaction of one step.                                              *)
Alone(op)    == About(op) /\ UNCHANGED <<tx, others>>

----------------------------------------------------------------------------
(* Discovery: three statements, each on its own.  A domain that is already *)
(* registered may be discovered again.                                     *)

BeginDiscover(t, d, k) ==
  /\ ~\E r \in Request : req[r].of = d /\ req[r].st = "DECLINED"
  /\ Begin(t, "discover", [Idle EXCEPT !.op = "discover", !.pc = "fetch", !.d = d, !.k = k])

LookPending(t) ==
  /\ tx[t].op = "discover" /\ tx[t].pc = "fetch"
  /\ LET found == {r \in Request : req[r].of = tx[t].d /\ req[r].st = "PENDING"}
     IN Move(t, [tx[t] EXCEPT !.pc = "write",
                              !.r = IF found = {} THEN None ELSE CHOOSE r \in found : TRUE])

(* The row found is updated by its id, whatever has become of it.          *)
UpdateFound(t) == IF IsRow(req[tx[t].r]) THEN [req EXCEPT ![tx[t].r].kid = tx[t].k] ELSE req
CreateRow(t, r) == [req EXCEPT ![r] = [st |-> "PENDING", of |-> tx[t].d, kid |-> tx[t].k]]

WriteRequest(t) ==
  /\ tx[t].op = "discover" /\ tx[t].pc = "write"
  /\ \/ tx[t].r # None /\ req' = UpdateFound(t)
     \/ /\ tx[t].r = None
        /\ \E r \in Request :
             /\ req[r].st = "none"
             /\ req' = IF OneOpenEach(CreateRow(t, r)) THEN CreateRow(t, r) ELSE req
  /\ End(t)
  /\ UNCHANGED <<dom, sec, jwk, clm, map, use, others, history>>

----------------------------------------------------------------------------
(* The administrator's decision.                                           *)

BeginAccept(t, r) ==
  /\ PolicyFree
  /\ req[r].st = "PENDING" /\ ~Conflict(req[r].of)
  /\ Begin(t, "accept", [Idle EXCEPT !.op = "accept", !.pc = "read", !.r = r,
                                     !.d = req[r].of, !.k = req[r].kid])
NewClaim(r, s, rot) ==
  [st |-> "unused", req |-> r, s |-> s, rot |-> rot, blob |-> TRUE, expires |-> now + ClaimLife]

(* Domain, key, secret, claim, and the request by its id: five rows.       *)
CommitAccept(t) ==
  \E s \in Secret, c \in Claim : LET x == tx[t] IN
    /\ x.op = "accept"
    /\ IsNewSecret(s) /\ IsNewClaim(c)
    /\ IsRow(req[x.r]) /\ jwk[x.k].of = None
    /\ dom' = [dom EXCEPT ![x.d] = "active"]
    /\ jwk' = [jwk EXCEPT ![x.k] = [of |-> x.d, active |-> TRUE]]
    /\ sec' = [sec EXCEPT ![s] = [of |-> x.d, active |-> TRUE]]
    /\ clm' = [clm EXCEPT ![c] = NewClaim(x.r, s, FALSE)]
    /\ req' = [req EXCEPT ![x.r].st = "ACCEPTED"]
    /\ accepted' = accepted \cup {<<x.r, x.d>>} /\ drawn' = s
    /\ End(t)
    /\ UNCHANGED <<map, use, others, shown, bought>>

BeginDecline(t, r) ==
  /\ req[r].st = "PENDING"
  /\ Begin(t, "decline", [Idle EXCEPT !.op = "decline", !.pc = "read", !.r = r])

CommitDecline(t) ==
  LET new == [req EXCEPT ![tx[t].r].st = "DECLINED"]
  IN /\ tx[t].op = "decline"
     /\ IsRow(req[tx[t].r])
     /\ req' = IF OneOpenEach(new) THEN new ELSE req
     /\ End(t)
     /\ UNCHANGED <<dom, sec, jwk, clm, map, use, others, history>>

(* The foreign key takes the request's claims along; a claim that is being *)
(* consumed is waited for.                                                 *)
Cascade(r) == [c \in Claim |-> IF clm[c].req = r THEN [clm[c] EXCEPT !.st = "gone"] ELSE clm[c]]

DeleteRequest(r) ==
  /\ Alone("delete")
  /\ IsRow(req[r]) /\ req[r].st # "PENDING"
  /\ \A c \in Claim : Taken(c) => clm[c].req # r
  /\ req' = [req EXCEPT ![r].st = "gone"]
  /\ clm' = Cascade(r)
  /\ UNCHANGED <<dom, sec, jwk, map, use, history>>

----------------------------------------------------------------------------
(* Replacing a claim link: a resend wraps the secret of the latest unused  *)
(* one again, as a claim of the first kind; a rotation wraps a new secret. *)
(* The deletion sees the claims of its own snapshot only.  Several unused  *)
(* links were made by replacements that overlapped, and were created in    *)
(* any order, whichever committed first.                                   *)

BeginResend(t, r) ==
  /\ req[r].st = "ACCEPTED"
  /\ \E c \in Unused(r) :
       /\ clm[c].blob
       /\ Begin(t, "resend", [Idle EXCEPT !.op = "resend", !.pc = "read", !.r = r, !.s = clm[c].s])

BeginRotate(t, r) ==
  /\ req[r].st = "ACCEPTED" /\ Registered(req[r].of)
  /\ Begin(t, "rotate", [Idle EXCEPT !.op = "rotate", !.pc = "read", !.r = r])

DeleteUnused(t) ==
  /\ tx[t].op \in {"resend", "rotate"} /\ tx[t].pc = "read"
  /\ Move(t, [tx[t] EXCEPT !.pc = "deleted", !.seen = Unused(tx[t].r)])

Replaced(seen, c, new) ==
  [b \in Claim |-> IF b = c THEN new
                   ELSE IF b \in seen /\ clm[b].st = "unused" THEN [clm[b] EXCEPT !.st = "gone"]
                   ELSE clm[b]]

CommitReplace(t) ==
  \E s \in Secret, c \in Claim : LET x == tx[t] IN
    /\ x.op \in {"resend", "rotate"} /\ x.pc = "deleted"
    /\ \A b \in x.seen : ~Taken(b)
    /\ IsRow(req[x.r]) /\ IsNewClaim(c)
    /\ \/ x.op = "resend" /\ s = x.s /\ UNCHANGED drawn
       \/ x.op = "rotate" /\ IsNewSecret(s) /\ drawn' = s
    /\ clm' = Replaced(x.seen, c, NewClaim(x.r, s, x.op = "rotate"))
    /\ End(t)
    /\ UNCHANGED <<dom, sec, jwk, req, map, use, others, accepted, shown, bought>>

(* Rotate and reveal: the older secrets stay active beside the new one.    *)
DirectRotate(d) ==
  \E s \in Secret :
    /\ Alone("direct")
    /\ Registered(d) /\ IsNewSecret(s)
    /\ sec' = [sec EXCEPT ![s] = [of |-> d, active |-> TRUE]]
    /\ drawn' = s
    /\ UNCHANGED <<dom, jwk, req, clm, map, use, accepted, shown, bought>>

----------------------------------------------------------------------------
(* Consuming a claim link: read it, update it if it is still unused (which *)
(* locks its row), then replace the secrets that are active by then.       *)

BeginClaim(t, c) ==
  /\ clm[c].st = "unused" /\ clm[c].blob /\ clm[c].expires > now
  /\ Begin(t, "claim", [Idle EXCEPT !.op = "claim", !.pc = "read", !.c = c, !.s = clm[c].s])

(* A row that another transaction used or deleted is not updated.          *)
AnyRow(c)      == clm[c].st \in {"unused", "used"}
StillUnused(c) == clm[c].st = "unused"
DomainOf(c)    == req[clm[c].req].of

TakeClaim(t) ==
  LET c == tx[t].c
  IN /\ tx[t].op = "claim" /\ tx[t].pc = "read"
     /\ ~Taken(c) /\ StillUnused(c)
     /\ Move(t, [tx[t] EXCEPT !.pc = "taken",
                              !.seen = IF clm[c].rot THEN ActiveSecrets(DomainOf(c)) ELSE {}])

(* The secrets seen are retired, then the new one is added.                *)
RetireThenAdd(x) == [s \in Secret |-> IF s = x.s THEN [of |-> DomainOf(x.c), active |-> TRUE]
                                      ELSE IF s \in x.seen THEN [sec[s] EXCEPT !.active = FALSE]
                                      ELSE sec[s]]

KeptBlob(c) == [clm EXCEPT ![c].st = "used"]
Spent(c)    == [clm EXCEPT ![c].st = "used", ![c].blob = FALSE]

(* The page shows the secret once this is committed, unless the request is *)
(* gone by then or the process ended: then nobody ever sees it.            *)
CommitClaim(t) ==
  LET x == tx[t]
  IN /\ x.op = "claim" /\ x.pc = "taken"
     /\ clm' = Spent(x.c)
     /\ sec' = IF clm[x.c].rot THEN RetireThenAdd(x) ELSE sec
     /\ shown' \in {shown, [shown EXCEPT ![x.c] = @ + 1]}
     /\ End(t)
     /\ UNCHANGED <<dom, jwk, req, map, use, others, accepted, bought, drawn>>

(* The sweep takes the secret out of links that expired.                   *)
SweepClaims ==
  /\ Alone("sweep")
  /\ clm' = [c \in Claim |-> IF IsRow(clm[c]) /\ clm[c].expires < now
                             THEN [clm[c] EXCEPT !.blob = FALSE] ELSE clm[c]]
  /\ UNCHANGED <<dom, sec, jwk, req, map, use, history>>

----------------------------------------------------------------------------
(* Domains and keys, by an administrator.                                  *)

CreateDomain(d) ==
  \E s \in Secret :
    /\ Alone("register") /\ PolicyFree
    /\ ~Conflict(d) /\ IsNewSecret(s)
    /\ dom' = [dom EXCEPT ![d] = "active"]
    /\ sec' = [sec EXCEPT ![s] = [of |-> d, active |-> TRUE]]
    /\ drawn' = s
    /\ UNCHANGED <<jwk, req, clm, map, use, accepted, shown, bought>>

(* An upsert: a domain that does not exist comes without a secret.         *)
UpdateDomain(d, status) ==
  /\ Alone("status") /\ PolicyFree
  /\ dom' = [dom EXCEPT ![d] = status]
  /\ UNCHANGED <<sec, jwk, req, clm, map, use, history>>

AddJwk(d, k) ==
  /\ Alone("keys")
  /\ Registered(d) /\ jwk[k].of \in {None, d}
  /\ jwk' = [jwk EXCEPT ![k] = [of |-> d, active |-> TRUE]]
  /\ UNCHANGED <<dom, sec, req, clm, map, use, history>>

DeactivateJwk(k) ==
  /\ Alone("keys")
  /\ jwk[k].active
  /\ jwk' = [jwk EXCEPT ![k].active = FALSE]
  /\ UNCHANGED <<dom, sec, req, clm, map, use, history>>

(* Mappings take no policy lock.                                           *)
ChangeMapping(d, m) ==
  /\ Alone("mapping")
  /\ map[d] = "none" => dom[d] = "active" /\ m # "none"
  /\ map' = [map EXCEPT ![d] = m]
  /\ UNCHANGED <<dom, sec, jwk, req, clm, use, history>>

----------------------------------------------------------------------------
(* The confidential exchange.                                              *)

(* The product signs an assertion about the user (external).               *)
SignAssertion(j, d) ==
  /\ About("sign")
  /\ asr[j].of = None /\ now + AssertionLife <= MaxTime
  /\ asr' = [asr EXCEPT ![j] = [of |-> d, ends |-> now + AssertionLife, tv |-> epoch]]
  /\ UNCHANGED <<tables, epoch, now, scope, tx, history>>

(* Secret, mapping and assertion are verified before the transaction; the  *)
(* mapping and the domain again in it.                                     *)
MayDelegate(d) == map[d] = "on" /\ dom[d] = "active"

BeginExchange(t, j) ==
  LET d == asr[j].of
  IN /\ d # None
     /\ ActiveSecrets(d) # {} /\ MayDelegate(d) /\ now < asr[j].ends
     /\ Begin(t, "exchange", [Idle EXCEPT !.op = "exchange", !.pc = "verified", !.d = d, !.j = j])

UseExpires(j) == asr[j].ends + Margin

AnyTime(j)       == TRUE
RecordCanLast(j) == UseExpires(j) > now

LockExchange(t) ==
  LET x == tx[t]
  IN /\ x.op = "exchange" /\ x.pc = "verified"
     /\ PolicyShareable /\ UserFree
     /\ MayDelegate(x.d) /\ asr[x.j].tv = epoch /\ RecordCanLast(x.j)
     /\ Move(t, [x EXCEPT !.pc = "locked", !.at = now])

(* A record that expired by the time read is deleted, then the use is      *)
(* recorded, once.                                                         *)
FirstUse(t) == use[tx[t].j] <= tx[t].at

CommitExchange(t) ==
  LET x == tx[t]
  IN /\ x.op = "exchange" /\ x.pc = "locked"
     /\ FirstUse(t)
     /\ use' = [use EXCEPT ![x.j] = UseExpires(x.j)]
     /\ bought' = [bought EXCEPT ![x.j] = @ + 1]
     /\ End(t)
     /\ UNCHANGED <<dom, sec, jwk, req, clm, map, others, accepted, shown, drawn>>

----------------------------------------------------------------------------
(* Surroundings.                                                           *)

PruneUses ==
  /\ Alone("prune")
  /\ use' = [j \in Assertion |-> IF use[j] <= now THEN 0 ELSE use[j]]
  /\ UNCHANGED <<dom, sec, jwk, req, clm, map, history>>

ResetUser ==
  /\ About("reset") /\ UserFree
  /\ epoch < MaxEpoch
  /\ epoch' = epoch + 1
  /\ UNCHANGED <<tables, asr, now, scope, tx, history>>

Tick ==
  /\ now < MaxTime
  /\ now' = now + 1
  /\ UNCHANGED <<tables, asr, epoch, scope, tx, history>>

(* An error, a refusal, or the end of a process: nothing was committed.    *)
Crash(t) == tx[t] # Idle /\ Abort(t)

Accepted(r, d, k) ==
  /\ dom = [e \in Domain |-> IF e = d THEN "active" ELSE "none"]
  /\ sec = [s \in Secret |-> IF s = 1 THEN [of |-> d, active |-> TRUE] ELSE NoSecret]
  /\ jwk = [i \in Kid |-> [of |-> IF i = k THEN d ELSE None, active |-> i = k]]
  /\ req = [q \in Request |-> IF q = r THEN [st |-> "ACCEPTED", of |-> d, kid |-> k] ELSE NoRequest]
  /\ clm = [c \in Claim |-> IF c = 1 THEN NewClaim(r, 1, FALSE) ELSE NoClaim]
  /\ map = [e \in Domain |-> IF e = d THEN "on" ELSE "none"]
  /\ accepted = {<<r, d>>} /\ drawn = 1
Empty ==
  /\ dom = [d \in Domain |-> "none"] /\ sec = [s \in Secret |-> NoSecret]
  /\ jwk = [k \in Kid |-> [of |-> None, active |-> FALSE]]
  /\ req = [r \in Request |-> NoRequest] /\ clm = [c \in Claim |-> NoClaim]
  /\ map = [d \in Domain |-> "none"]
  /\ accepted = {} /\ drawn = 0

Init ==
  /\ scope \in Scopes
  /\ now = 0 /\ epoch = 0
  /\ use = [j \in Assertion |-> 0] /\ asr = [j \in Assertion |-> Unsigned]
  /\ tx = [t \in Tx |-> Idle]
  /\ shown = [c \in Claim |-> 0] /\ bought = [j \in Assertion |-> 0]
  /\ IF scope.start = "empty" THEN Empty
     ELSE \E r \in Request, d \in Domain, k \in Kid : Accepted(r, d, k)

Step(t) ==
  \/ \E d \in Domain, k \in Kid : BeginDiscover(t, d, k)
  \/ \E r \in Request : BeginAccept(t, r) \/ BeginDecline(t, r) \/ BeginResend(t, r) \/ BeginRotate(t, r)
  \/ \E c \in Claim : BeginClaim(t, c)
  \/ \E j \in Assertion : BeginExchange(t, j)
  \/ LookPending(t) \/ WriteRequest(t) \/ CommitAccept(t) \/ CommitDecline(t)
  \/ DeleteUnused(t) \/ CommitReplace(t) \/ TakeClaim(t) \/ CommitClaim(t)
  \/ LockExchange(t) \/ CommitExchange(t) \/ Crash(t)

Next ==
  \/ \E t \in Tx : Step(t)
  \/ \E r \in Request : DeleteRequest(r)
  \/ \E d \in Domain :
       \/ DirectRotate(d) \/ CreateDomain(d)
       \/ \E status \in {"active", "disabled"} : UpdateDomain(d, status)
       \/ \E k \in Kid : AddJwk(d, k)
       \/ \E m \in {"none", "off", "on"} : ChangeMapping(d, m)
       \/ \E j \in Assertion : SignAssertion(j, d)
  \/ \E k \in Kid : DeactivateJwk(k)
  \/ SweepClaims \/ PruneUses \/ ResetUser \/ Tick

Spec == Init /\ [][Next]_vars

----------------------------------------------------------------------------
DomainRow  == [of : Domain \cup {None}, active : BOOLEAN]   \* of a secret or a key
RequestRow == [st : {"none", "PENDING", "ACCEPTED", "DECLINED", "gone"},
               of : Domain \cup {None}, kid : Kid \cup {None}]
ClaimRow   == [st : {"none", "unused", "used", "gone"}, req : Request \cup {None},
               s : {0} \cup Secret, rot : BOOLEAN, blob : BOOLEAN, expires : Nat]
TxRecord ==
  [op : {"none", "discover", "accept", "decline", "resend", "rotate", "claim", "exchange"},
   pc : {"idle", "fetch", "write", "read", "deleted", "taken", "verified", "locked"},
   d : Domain \cup {None}, k : Kid \cup {None}, r : Request \cup {None},
   j : Assertion \cup {None}, c : {0} \cup Claim, s : {0} \cup Secret,
   seen : SUBSET (Claim \cup Secret), at : Time]

(* Types: a claim is consumed only after it was created, its secret is     *)
(* taken out when it is, and a key or a secret has one domain for good.    *)
TypeOK ==
  /\ dom \in [Domain -> {"none", "active", "disabled"}]
  /\ sec \in [Secret -> DomainRow] /\ jwk \in [Kid -> DomainRow]
  /\ req \in [Request -> RequestRow] /\ clm \in [Claim -> ClaimRow]
  /\ map \in [Domain -> {"none", "off", "on"}]
  /\ use \in [Assertion -> Nat]
  /\ asr \in [Assertion -> [of : Domain \cup {None}, ends : Nat, tv : Nat]]
  /\ epoch \in 0..MaxEpoch /\ now \in Time /\ scope \in Scopes
  /\ tx \in [Tx -> TxRecord]
  /\ accepted \subseteq Request \X Domain /\ drawn \in 0..MaxSecrets
  /\ shown \in [Claim -> Nat] /\ bought \in [Assertion -> Nat]
  /\ \A c \in Claim : clm[c].st = "used" => ~clm[c].blob /\ shown[c] <= 1
  /\ \A k \in Kid : jwk[k].active => Registered(jwk[k].of)

(* A domain has at most one undecided or declined request, and of all its  *)
(* requests at most one is ever accepted; every claim token left belongs   *)
(* to a request that is there and was accepted, for a registered domain.   *)
(* Discovery, acceptance, refusal and deletion interleave; the index, the  *)
(* policy lock and the foreign key keep it so.                             *)
RequestsAreOrderly ==
  /\ OneOpenEach(req)
  /\ \A a, b \in accepted : a[2] = b[2] => a = b
  /\ \A r \in Request : req[r].st = "ACCEPTED" => <<r, req[r].of>> \in accepted
  /\ \A c \in Claim : IsRow(clm[c]) =>
       /\ IsRow(req[clm[c].req]) /\ Registered(DomainOf(c))
       /\ <<clm[c].req, DomainOf(c)>> \in accepted

(* A claim link shows its secret at most once, and never after it was      *)
(* replaced, although two consumers may both have read it       *)
(* unused (integration-claim.service.ts:203); and a domain loses a secret  *)
(* only to a rotation claim whose own secret works from that step on.      *)
SpendsOnce(c) == shown'[c] # shown[c] =>
                   shown[c] = 0 /\ clm[c].st = "unused" /\ clm'[c].st = "used"
Replaces(c, d) == /\ clm[c].rot /\ clm[c].st = "unused" /\ clm'[c].st = "used"
                  /\ clm[c].s \in ActiveSecrets(d)' \ ActiveSecrets(d)
ClaimsAreSpentOnce ==
  [][/\ \A c \in Claim : SpendsOnce(c)
     /\ \A d \in Domain : ActiveSecrets(d) \subseteq ActiveSecrets(d)'
                            \/ \E c \in Claim : Replaces(c, d)]_vars

(* An exchange read the clock before the record of its use would have      *)
(* expired, and inserts it only after.                                     *)
InsertsLate(t, j) ==
  /\ tx[t].op = "exchange" /\ tx[t].pc = "locked" /\ tx[t].j = j
  /\ tx[t].at < UseExpires(j) /\ UseExpires(j) <= now

(* A token is issued for an assertion at most once, however often it is    *)
(* presented and whenever its record is pruned, but for an exchange that   *)
(* reads the clock before the record of the first use expires and inserts  *)
(* its own only after (confidential-assertion-use.service.ts:56, 76, 85).  *)
(* At every issue the domain is enabled and the user's epoch is the one    *)
(* the assertion was signed under (the policy and user locks).             *)
ExchangesFollowPolicy ==
  [][\A j \in Assertion : bought'[j] # bought[j] =>
       /\ bought[j] = 0 \/ \E t \in Tx : InsertsLate(t, j) /\ tx'[t] # tx[t]
       /\ dom[asr[j].of] = "active" /\ asr[j].tv = epoch]_vars

----------------------------------------------------------------------------
(* What does not hold.                                                     *)

(* The secret a claim showed is one of its domain's: "`consumeClaim`       *)
(* deactivates it and activates the new secret atomically"                 *)
(* (domain-secret.service.ts:282).  A resent rotation claim has lost its   *)
(* domain, and its secret never works.                                     *)
ClaimedSecretsWork == \A c \in Claim : shown[c] > 0 => sec[clm[c].s].of # None

(* "the partner never has two competing claim links in flight"             *)
(* (domain-secret.service.ts:328): two replacements at once make two.      *)
OneLinkInFlight ==
  \A a, b \in Claim : clm[a].st = "unused" /\ clm[b].st = "unused" /\ clm[a].req = clm[b].req
                        => a = b

(* "the plaintext is only ever available once"                             *)
(* (integration-claim.service.ts:169): a resend that read a claim while it *)
(* was being consumed shows its secret again.                              *)
SecretsAreShownOnce ==
  \A a, b \in Claim : shown[a] > 0 /\ shown[b] > 0 /\ clm[a].s = clm[b].s => a = b

(* "Atomically claims a verified confidential assertion for one-time use"  *)
(* (confidential-assertion-use.service.ts:39): a late insert finds the     *)
(* record of the first use expired and pruned.                             *)
AssertionsAreSingleUse == \A j \in Assertion : bought[j] <= 1

(* A decided request keeps its decision: acceptance and refusal both read  *)
(* it pending and write it by id (integration-request.service.ts:172).     *)
DecisionsAreFinal ==
  [][\A r \in Request : req[r].st \in {"ACCEPTED", "DECLINED"} =>
       req'[r].st \in {req[r].st, "gone"}]_vars

(* No token is issued through a mapping that is disabled by then: "Every   *)
(* supported policy mutator holds this" lock                               *)
(* (product-workspace-policy-lock.service.ts:26), but mappings do not.     *)
MappingsGovern ==
  [][\A j \in Assertion : bought'[j] # bought[j] => map[asr[j].of] = "on"]_vars
=============================================================================
