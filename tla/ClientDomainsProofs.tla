------------------------ MODULE ClientDomainsProofs ------------------------
(***************************************************************************)
(* Proofs about ClientDomains, for any number of domains, requests, claims *)
(* and connections.  A step either moves a transaction on and writes       *)
(* nothing (Quiet), or is one of the steps that write.  What the tables    *)
(* promise is argued table by table, over the steps that write them; what  *)
(* a transaction relies on (Stands) from the fact that a row never changes *)
(* what it is about (RowsKeepTheirNames) and from the locks.               *)
(***************************************************************************)
EXTENDS ClientDomains, TLAPS

Types ==
  /\ dom \in [Domain -> {"none", "active", "disabled"}]
  /\ sec \in [Secret -> DomainRow] /\ jwk \in [Kid -> DomainRow]
  /\ req \in [Request -> RequestRow] /\ clm \in [Claim -> ClaimRow]
  /\ map \in [Domain -> {"none", "off", "on"}]
  /\ use \in [Assertion -> Nat]
  /\ asr \in [Assertion -> [of : Domain \cup {None}, ends : Nat, tv : Nat]]
  /\ epoch \in 0..MaxEpoch /\ now \in Time /\ scope \in Scopes
  /\ tx \in [Tx -> TxRecord]
  /\ accepted \subseteq Request \X Domain /\ drawn \in 0..MaxSecrets
  /\ shown \in [Claim -> Nat] /\ bought \in [Assertion -> Nat]

(* What a row that exists is about exists, and secrets are drawn in order. *)
RowsSound ==
  /\ \A r \in Request : req[r].st # "none" => req[r].of \in Domain /\ req[r].kid \in Kid
  /\ \A c \in Claim :
       IF clm[c].st = "none" THEN clm[c].req = None
       ELSE clm[c].req \in Request /\ clm[c].s \in 1..drawn /\ req[clm[c].req].st # "none"
  /\ \A s \in Secret : sec[s].of # None => s <= drawn
  /\ \A s \in Secret : sec[s].active => sec[s].of # None
  /\ \A k \in Kid : jwk[k].active => jwk[k].of \in Domain /\ Registered(jwk[k].of)

Takes(x)  == x.op = "claim" /\ x.pc = "taken"
Locked(x) == x.op = "exchange" /\ x.pc = "locked"
Decides(x) == x.op = "accept"

(* What a transaction works on exists, and what it relies on is so until   *)
(* it commits: the claim it consumes is unused, and what it will retire    *)
(* belongs to that claim's domain; the domain it accepts is not there yet; *)
(* the request whose link it replaces was accepted; and who issues has     *)
(* found the domain enabled, the epoch current and the time it read before *)
(* the end of the record it writes.                                        *)
Stands(x) ==
  /\ x.op = "discover" => x.d \in Domain /\ x.k \in Kid
  /\ x.op \in {"accept", "decline", "resend", "rotate"} =>
       x.r \in Request /\ req[x.r].st # "none"
  /\ Decides(x) => x.d = req[x.r].of /\ x.k \in Kid /\ ~Registered(x.d)
  /\ x.op \in {"resend", "rotate"} => <<x.r, req[x.r].of>> \in accepted
  /\ x.op = "resend" => x.s \in 1..drawn
  /\ x.op = "claim" => x.c \in Claim /\ clm[x.c].st # "none" /\ x.s = clm[x.c].s
  /\ Takes(x) => /\ clm[x.c].st = "unused"
                 /\ \A s \in Secret : s \in x.seen => sec[s].of = DomainOf(x.c)
  /\ x.op = "exchange" => x.j \in Assertion /\ x.d \in Domain /\ asr[x.j].of = x.d
  /\ Locked(x) => /\ dom[x.d] = "active" /\ asr[x.j].tv = epoch
                  /\ x.at < UseExpires(x.j)

(* What two connections may not do at once.                                *)
Collide(x, y) ==
  \/ Takes(x) /\ Takes(y) /\ x.c = y.c
  \/ Decides(x) /\ (Decides(y) \/ Locked(y))
  \/ Locked(x) /\ (Decides(y) \/ Locked(y))
Apart == \A t, u \in Tx : t # u => ~Collide(tx[t], tx[u])

(* A claim has shown its secret once at most, and only if it was used.     *)
Spending ==
  \A c \in Claim : /\ clm[c].st \in {"none", "unused"} => shown[c] = 0
                   /\ clm[c].st = "used" => ~clm[c].blob /\ shown[c] <= 1

Renews(c) == clm[c].st = "unused" /\ clm[c].rot

(* A rotation claim wraps a secret of its own, which is not in use yet.    *)
Rotation ==
  /\ \A c \in Claim : Renews(c) => sec[clm[c].s].of = None
  /\ \A b, c \in Claim : Renews(b) /\ Renews(c) /\ clm[b].s = clm[c].s => b = c

(* What was ever accepted is registered.                                   *)
Requests ==
  /\ RequestsAreOrderly
  /\ \A a \in accepted : req[a[1]].st # "none" /\ req[a[1]].of = a[2] /\ Registered(a[2])

(* The record of a use outlives the assertion.                             *)
Uses ==
  \A j \in Assertion : bought[j] > 0 =>
    asr[j].of # None /\ (use[j] = UseExpires(j) \/ UseExpires(j) <= now)

TablesSound == RowsSound /\ Spending /\ Rotation /\ Requests /\ Uses
IInv == Types /\ TablesSound /\ Apart /\ \A t \in Tx : Stands(tx[t])

----------------------------------------------------------------------------
(* The beginning, and the kinds of steps.                                  *)

LEMMA IdleTyped == Idle \in TxRecord
BY ClientDomainsAssumption DEF Idle, TxRecord, Time

LEMMA IdleStands == Stands(Idle)
BY DEF Stands, Idle, Decides, Takes, Locked

LEMMA NewClaimTyped ==
  ASSUME Types, NEW r \in Request, NEW s \in Secret, NEW rot \in BOOLEAN
  PROVE  NewClaim(r, s, rot) \in
           ClaimRow
BY ClientDomainsAssumption DEF NewClaim, Types, Time, ClaimRow

LEMMA RowUpdates ==
  /\ \A row \in ClaimRow, st \in {"unused", "used", "gone"}, blob \in BOOLEAN :
       /\ [row EXCEPT !.st = st] \in ClaimRow
       /\ [row EXCEPT !.blob = blob] \in ClaimRow
       /\ [row EXCEPT !.st = st, !.blob = blob] \in ClaimRow
  /\ \A row \in RequestRow, st \in {"ACCEPTED", "DECLINED", "gone"} :
       [row EXCEPT !.st = st] \in RequestRow
  /\ \A row \in RequestRow, k \in Kid : [row EXCEPT !.kid = k] \in RequestRow
  /\ \A row \in DomainRow : [row EXCEPT !.active = FALSE] \in DomainRow
  /\ \A d \in Domain, a \in BOOLEAN : [of |-> d, active |-> a] \in DomainRow
  /\ \A d \in Domain, k \in Kid : [st |-> "PENDING", of |-> d, kid |-> k] \in RequestRow
BY DEF ClaimRow, RequestRow, DomainRow

Writes(t) ==
  \/ WriteRequest(t) \/ CommitAccept(t) \/ CommitDecline(t) \/ CommitReplace(t)
  \/ CommitClaim(t) \/ CommitExchange(t)
Administers ==
  \/ \E r \in Request : DeleteRequest(r)
  \/ \E d \in Domain :
       \/ DirectRotate(d) \/ CreateDomain(d)
       \/ \E status \in {"active", "disabled"} : UpdateDomain(d, status)
       \/ \E k \in Kid : AddJwk(d, k)
       \/ \E m \in {"none", "off", "on"} : ChangeMapping(d, m)
  \/ \E k \in Kid : DeactivateJwk(k)
  \/ SweepClaims \/ PruneUses
Passes ==
  \/ \E j \in Assertion, d \in Domain : SignAssertion(j, d)
  \/ ResetUser \/ Tick
Quiet == UNCHANGED <<tables, others, history>>

(* A transaction begins, or goes on to a position of which it knows that   *)
(* it stands there and that nobody is in its way.                          *)
Goes(t, new) ==
  /\ Quiet /\ tx' = [tx EXCEPT ![t] = new]
  /\ new \in TxRecord /\ Stands(new)
  /\ \A u \in Tx : u # t => ~Collide(new, tx[u]) /\ ~Collide(tx[u], new)

LEMMA GoesIdle ==
  ASSUME NEW t \in Tx, Quiet, tx' = [tx EXCEPT ![t] = Idle]
  PROVE  Goes(t, Idle)
BY IdleTyped, IdleStands DEF Goes, Collide, Takes, Decides, Locked, Idle

(* Reading for a discovery, a decision or a replacement takes nothing.     *)
LEMMA RequestsBegin ==
  ASSUME IInv, NEW t \in Tx
  PROVE  /\ \A d \in Domain, k \in Kid : BeginDiscover(t, d, k) => \E new : Goes(t, new)
         /\ LookPending(t) => \E new : Goes(t, new)
         /\ \A r \in Request :
              /\ BeginAccept(t, r) => \E new : Goes(t, new)
              /\ BeginDecline(t, r) => \E new : Goes(t, new)
              /\ BeginResend(t, r) => \E new : Goes(t, new)
              /\ BeginRotate(t, r) => \E new : Goes(t, new)
         /\ DeleteUnused(t) => \E new : Goes(t, new)
<1>1. ASSUME NEW d \in Domain, NEW k \in Kid, BeginDiscover(t, d, k)
      PROVE  \E new : Goes(t, new)
  <2> DEFINE new == [Idle EXCEPT !.op = "discover", !.pc = "fetch", !.d = d, !.k = k]
  <2>1. new \in TxRecord
    BY IdleTyped DEF TxRecord
  <2>2. Stands(new) /\ \A u \in Tx : ~Collide(new, tx[u]) /\ ~Collide(tx[u], new)
    BY DEF Stands, Collide, Takes, Decides, Locked, Idle
  <2>3. QED
    BY <1>1, <2>1, <2>2 DEF BeginDiscover, Begin, Goes, Quiet
<1>2. ASSUME LookPending(t)
      PROVE  \E new : Goes(t, new)
  <2> DEFINE found == {r \in Request : req[r].of = tx[t].d /\ req[r].st = "PENDING"}
             r == IF found = {} THEN None ELSE CHOOSE q \in found : TRUE
             new == [tx[t] EXCEPT !.pc = "write", !.r = r]
  <2>1. r \in Request \cup {None}
    OBVIOUS
  <2>2. Move(t, new) /\ tx[t].op = "discover"
    BY <1>2 DEF LookPending
  <2> HIDE DEF r
  <2>3. new \in TxRecord /\ new.op = "discover" /\ new.d = tx[t].d /\ new.k = tx[t].k
    <3>1. tx[t] \in TxRecord
      BY DEF IInv, Types
    <3>2. QED
      BY <2>1, <2>2, <3>1 DEF TxRecord
  <2>4. Stands(new) /\ \A u \in Tx : ~Collide(new, tx[u]) /\ ~Collide(tx[u], new)
    BY <2>2, <2>3 DEF Stands, Collide, Takes, Decides, Locked, IInv
  <2>5. QED
    BY <2>2, <2>3, <2>4 DEF Move, Goes, Quiet
<1>3. ASSUME NEW r \in Request, BeginAccept(t, r)
      PROVE  \E new : Goes(t, new)
  <2> DEFINE new == [Idle EXCEPT !.op = "accept", !.pc = "read", !.r = r,
                                 !.d = req[r].of, !.k = req[r].kid]
  <2>1. req[r].of \in Domain /\ req[r].kid \in Kid
    BY <1>3 DEF BeginAccept, IInv, TablesSound, RowsSound
  <2>2. new \in TxRecord
    BY <2>1, IdleTyped DEF TxRecord
  <2>3. Stands(new)
    BY <1>3, <2>1 DEF BeginAccept, Stands, Conflict, Takes, Decides, Locked, Idle
  <2>4. \A u \in Tx : ~Collide(new, tx[u]) /\ ~Collide(tx[u], new)
    BY <1>3 DEF BeginAccept, PolicyFree, HoldsPolicy, SharesPolicy, HoldsUser, Collide, Takes,
                Decides, Locked, Idle
  <2>5. QED
    BY <1>3, <2>2, <2>3, <2>4 DEF BeginAccept, Begin, Goes, Quiet
<1>4. ASSUME NEW r \in Request, BeginDecline(t, r)
      PROVE  \E new : Goes(t, new)
  <2> DEFINE new == [Idle EXCEPT !.op = "decline", !.pc = "read", !.r = r]
  <2>1. new \in TxRecord
    BY IdleTyped DEF TxRecord
  <2>2. Stands(new) /\ \A u \in Tx : ~Collide(new, tx[u]) /\ ~Collide(tx[u], new)
    BY <1>4 DEF BeginDecline, Stands, Collide, Takes, Decides, Locked, Idle
  <2>3. QED
    BY <1>4, <2>1, <2>2 DEF BeginDecline, Begin, Goes, Quiet
<1>5. ASSUME NEW r \in Request, BeginResend(t, r)
      PROVE  \E new : Goes(t, new)
  <2>1. PICK c \in Claim :
          /\ c \in Unused(r) /\ clm[c].blob
          /\ Begin(t, "resend", [Idle EXCEPT !.op = "resend", !.pc = "read", !.r = r, !.s = clm[c].s])
    BY <1>5 DEF BeginResend, Unused
  <2> DEFINE new == [Idle EXCEPT !.op = "resend", !.pc = "read", !.r = r, !.s = clm[c].s]
  <2>2. clm[c].s \in 1..drawn
    BY <2>1 DEF Unused, IInv, TablesSound, RowsSound
  <2>3. new \in TxRecord
    BY <2>1, IdleTyped DEF TxRecord, IInv, Types, ClaimRow
  <2>4. <<r, req[r].of>> \in accepted /\ req[r].st # "none"
    BY <1>5 DEF BeginResend, IInv, TablesSound, Requests, RequestsAreOrderly
  <2>5. Stands(new) /\ \A u \in Tx : ~Collide(new, tx[u]) /\ ~Collide(tx[u], new)
    BY <2>2, <2>4 DEF Stands, Collide, Takes, Decides, Locked, Idle
  <2>6. QED
    BY <2>1, <2>3, <2>5 DEF Begin, Goes, Quiet
<1>6. ASSUME NEW r \in Request, BeginRotate(t, r)
      PROVE  \E new : Goes(t, new)
  <2> DEFINE new == [Idle EXCEPT !.op = "rotate", !.pc = "read", !.r = r]
  <2>1. new \in TxRecord
    BY IdleTyped DEF TxRecord
  <2>2. <<r, req[r].of>> \in accepted /\ req[r].st # "none"
    BY <1>6 DEF BeginRotate, IInv, TablesSound, Requests, RequestsAreOrderly
  <2>3. Stands(new) /\ \A u \in Tx : ~Collide(new, tx[u]) /\ ~Collide(tx[u], new)
    BY <2>2 DEF Stands, Collide, Takes, Decides, Locked, Idle
  <2>4. QED
    BY <1>6, <2>1, <2>3 DEF BeginRotate, Begin, Goes, Quiet
<1>7. ASSUME DeleteUnused(t)
      PROVE  \E new : Goes(t, new)
  <2> DEFINE new == [tx[t] EXCEPT !.pc = "deleted", !.seen = Unused(tx[t].r)]
  <2>1. Unused(tx[t].r) \in SUBSET (Claim \cup Secret)
    BY DEF Unused
  <2>2. Move(t, new) /\ tx[t].op \in {"resend", "rotate"}
    BY <1>7 DEF DeleteUnused
  <2>3. new \in TxRecord /\ new.op = tx[t].op /\ new.r = tx[t].r /\ new.s = tx[t].s
    <3>1. tx[t] \in TxRecord
      BY DEF IInv, Types
    <3>2. QED
      BY <2>1, <3>1 DEF TxRecord
  <2>4. Stands(new) /\ \A u \in Tx : ~Collide(new, tx[u]) /\ ~Collide(tx[u], new)
    BY <2>2, <2>3 DEF Stands, Collide, Takes, Decides, Locked, IInv
  <2>5. QED
    BY <2>2, <2>3, <2>4 DEF Move, Goes, Quiet
<1>8. QED
  BY <1>1, <1>2, <1>3, <1>4, <1>5, <1>6, <1>7

LEMMA ClaimsBegin ==
  ASSUME IInv, NEW t \in Tx
  PROVE  /\ \A c \in Claim : BeginClaim(t, c) => \E new : Goes(t, new)
         /\ TakeClaim(t) => \E new : Goes(t, new)
<1>1. ASSUME NEW c \in Claim, BeginClaim(t, c)
      PROVE  \E new : Goes(t, new)
  <2> DEFINE new == [Idle EXCEPT !.op = "claim", !.pc = "read", !.c = c, !.s = clm[c].s]
  <2>1. new \in TxRecord
    BY IdleTyped DEF TxRecord, IInv, Types, ClaimRow
  <2>2. Stands(new) /\ \A u \in Tx : ~Collide(new, tx[u]) /\ ~Collide(tx[u], new)
    BY <1>1 DEF BeginClaim, Stands, Collide, Takes, Decides, Locked, Idle
  <2>3. QED
    BY <1>1, <2>1, <2>2 DEF BeginClaim, Begin, Goes, Quiet
<1>2. ASSUME TakeClaim(t)
      PROVE  \E new : Goes(t, new)
  <2> DEFINE c == tx[t].c
             seen == IF clm[c].rot THEN ActiveSecrets(DomainOf(c)) ELSE {}
             new == [tx[t] EXCEPT !.pc = "taken", !.seen = seen]
  <2>1. seen \in SUBSET (Claim \cup Secret) /\ \A s \in seen : sec[s].of = DomainOf(c)
    BY DEF ActiveSecrets, SecretsOf
  <2>2. Move(t, new) /\ tx[t].op = "claim" /\ clm[c].st = "unused" /\ ~Taken(c)
    BY <1>2 DEF TakeClaim, StillUnused
  <2> HIDE DEF seen
  <2>3. /\ new \in TxRecord /\ new.op = "claim" /\ new.pc = "taken"
        /\ new.c = c /\ new.s = tx[t].s /\ new.seen = seen
    <3>1. tx[t] \in TxRecord
      BY DEF IInv, Types
    <3>2. QED
      BY <2>1, <2>2, <3>1 DEF TxRecord
  <2>4. Stands(new)
    BY <2>1, <2>2, <2>3 DEF Stands, Takes, Decides, Locked, IInv
  <2>5. \A u \in Tx : ~Collide(new, tx[u]) /\ ~Collide(tx[u], new)
    BY <2>2, <2>3 DEF Taken, Collide, Takes, Decides, Locked
  <2>6. QED
    BY <2>2, <2>3, <2>4, <2>5 DEF Move, Goes, Quiet
<1>3. QED
  BY <1>1, <1>2

LEMMA ExchangesBegin ==
  ASSUME IInv, NEW t \in Tx
  PROVE  /\ \A j \in Assertion : BeginExchange(t, j) => \E new : Goes(t, new)
         /\ LockExchange(t) => \E new : Goes(t, new)
<1>1. ASSUME NEW j \in Assertion, BeginExchange(t, j)
      PROVE  \E new : Goes(t, new)
  <2> DEFINE new == [Idle EXCEPT !.op = "exchange", !.pc = "verified", !.d = asr[j].of, !.j = j]
  <2>1. asr[j].of \in Domain
    BY <1>1 DEF BeginExchange, IInv, Types
  <2>2. new \in TxRecord
    BY <2>1, IdleTyped DEF TxRecord
  <2>3. Stands(new) /\ \A u \in Tx : ~Collide(new, tx[u]) /\ ~Collide(tx[u], new)
    BY <2>1 DEF Stands, Collide, Takes, Decides, Locked, Idle
  <2>4. QED
    BY <1>1, <2>2, <2>3 DEF BeginExchange, Begin, Goes, Quiet
<1>2. ASSUME LockExchange(t)
      PROVE  \E new : Goes(t, new)
  <2> DEFINE new == [tx[t] EXCEPT !.pc = "locked", !.at = now]
  <2>1. /\ Move(t, new) /\ tx[t].op = "exchange" /\ PolicyShareable /\ UserFree
        /\ MayDelegate(tx[t].d) /\ asr[tx[t].j].tv = epoch /\ RecordCanLast(tx[t].j)
    BY <1>2 DEF LockExchange
  <2>2. /\ new \in TxRecord /\ new.op = "exchange" /\ new.pc = "locked"
        /\ new.j = tx[t].j /\ new.d = tx[t].d /\ new.at = now
    <3>1. tx[t] \in TxRecord /\ now \in Time
      BY DEF IInv, Types
    <3>2. QED
      BY <2>1, <3>1 DEF TxRecord
  <2>3. now < UseExpires(tx[t].j)
    <3>1. tx[t].j \in Assertion
      BY <2>1 DEF IInv, Stands
    <3>2. UseExpires(tx[t].j) \in Int /\ now \in Int
      BY <3>1, ClientDomainsAssumption DEF IInv, Types, UseExpires, Time
    <3>3. QED
      BY <2>1, <3>2 DEF RecordCanLast
  <2>4. Stands(new)
    BY <2>1, <2>2, <2>3 DEF Stands, MayDelegate, Takes, Decides, Locked, IInv
  <2>5. \A u \in Tx : ~Collide(new, tx[u]) /\ ~Collide(tx[u], new)
    BY <2>1, <2>2 DEF PolicyShareable, HoldsPolicy, UserFree, HoldsUser, Collide, Takes, Decides,
                      Locked
  <2>6. QED
    BY <2>1, <2>2, <2>4, <2>5 DEF Move, Goes, Quiet
<1>3. QED
  BY <1>1, <1>2

LEMMA KindsOfSteps ==
  ASSUME IInv, Next
  PROVE  \/ \E t \in Tx, new \in TxRecord : Goes(t, new)
         \/ \E t \in Tx : Writes(t)
         \/ Administers
         \/ Passes
<1>1. ASSUME NEW t \in Tx, Step(t)
      PROVE  Writes(t) \/ \E new : Goes(t, new)
  <2>1. Crash(t) => Goes(t, Idle)
    BY GoesIdle DEF Crash, Abort, Move, Quiet
  <2>2. QED
    BY <1>1, <2>1, RequestsBegin, ClaimsBegin, ExchangesBegin DEF Step, Writes
<1>2. QED
  BY <1>1 DEF Next, Administers, Passes, Goes

----------------------------------------------------------------------------
(* Types.                                                                  *)

LEMMA EndTyped ==
  ASSUME Types, NEW t \in Tx, End(t)
  PROVE  /\ tx' \in [Tx -> TxRecord] /\ tx'[t] = Idle
         /\ \A u \in Tx : u # t => tx'[u] = tx[u]
BY IdleTyped DEF End, Types

LEMMA WritesKeepTypes ==
  ASSUME IInv, NEW t \in Tx, Writes(t)
  PROVE  Types'
<1> DEFINE x == tx[t]
<1>0. Types /\ Stands(x) /\ x \in TxRecord
  BY DEF IInv, Types
<1>1. ASSUME WriteRequest(t)
      PROVE  Types'
  <2>1. x.op = "discover" /\ x.d \in Domain /\ x.k \in Kid /\ tx' \in [Tx -> TxRecord]
    BY <1>0, <1>1, EndTyped DEF WriteRequest, Stands
  <2>2. CASE x.r # None /\ req' = UpdateFound(t)
    <3>1. x.r \in Request
      BY <1>0, <2>2 DEF TxRecord
    <3>2. req' \in [Request -> RequestRow]
      BY <1>0, <2>1, <2>2, <3>1, RowUpdates DEF Types, UpdateFound
    <3>3. QED
      BY <1>0, <1>1, <2>1, <3>2 DEF Types, WriteRequest, others, history
  <2>3. CASE \E r \in Request : req' = IF OneOpenEach(CreateRow(t, r)) THEN CreateRow(t, r) ELSE req
    <3>1. PICK r \in Request : req' = CreateRow(t, r) \/ req' = req
      BY <2>3
    <3>2. req' \in [Request -> RequestRow]
      <4>1. [st |-> "PENDING", of |-> x.d, kid |-> x.k] \in RequestRow
        BY <2>1, RowUpdates
      <4>2. CreateRow(t, r) \in [Request -> RequestRow]
        BY <1>0, <4>1 DEF Types, CreateRow
      <4>3. QED
        BY <1>0, <3>1, <4>2 DEF Types
    <3>3. QED
      BY <1>0, <1>1, <2>1, <3>2 DEF Types, WriteRequest, others, history
  <2>4. QED
    BY <1>1, <2>2, <2>3 DEF WriteRequest
<1>2. ASSUME CommitAccept(t)
      PROVE  Types'
  <2>1. PICK s \in Secret, c \in Claim :
          /\ x.op = "accept" /\ IsNewSecret(s)
          /\ dom' = [dom EXCEPT ![x.d] = "active"]
          /\ jwk' = [jwk EXCEPT ![x.k] = [of |-> x.d, active |-> TRUE]]
          /\ sec' = [sec EXCEPT ![s] = [of |-> x.d, active |-> TRUE]]
          /\ clm' = [clm EXCEPT ![c] = NewClaim(x.r, s, FALSE)]
          /\ req' = [req EXCEPT ![x.r].st = "ACCEPTED"]
          /\ accepted' = accepted \cup {<<x.r, x.d>>} /\ drawn' = s
          /\ End(t) /\ UNCHANGED <<map, use, others, shown, bought>>
    BY <1>2 DEF CommitAccept
  <2>2. x.r \in Request /\ x.d \in Domain /\ x.k \in Kid /\ tx' \in [Tx -> TxRecord]
    BY <1>0, <2>1, EndTyped DEF Stands, Decides, IInv, TablesSound, RowsSound
  <2>3. dom' \in [Domain -> {"none", "active", "disabled"}]
    BY <1>0, <2>1, <2>2 DEF Types
  <2>4. sec' \in [Secret -> DomainRow]
    BY <1>0, <2>1, <2>2, RowUpdates DEF Types
  <2>5. jwk' \in [Kid -> DomainRow]
    BY <1>0, <2>1, <2>2, RowUpdates DEF Types
  <2>6. req' \in [Request -> RequestRow]
    BY <1>0, <2>1, <2>2, RowUpdates DEF Types
  <2>7. clm' \in [Claim -> ClaimRow]
    BY <1>0, <2>1, <2>2, NewClaimTyped, RowUpdates DEF Types
  <2>8. drawn' \in 0..MaxSecrets /\ accepted' \subseteq Request \X Domain
    BY <1>0, <2>1, <2>2, ClientDomainsAssumption DEF Types, Secret
  <2>9. QED
    BY <1>0, <2>1, <2>2, <2>3, <2>4, <2>5, <2>6, <2>7, <2>8 DEF Types, others
<1>3. ASSUME CommitDecline(t)
      PROVE  Types'
  <2>1. x.r \in Request /\ tx' \in [Tx -> TxRecord]
    BY <1>0, <1>3, EndTyped DEF CommitDecline, Stands
  <2>2. req' \in [Request -> RequestRow]
    <3> DEFINE new == [req EXCEPT ![x.r].st = "DECLINED"]
    <3>1. new \in [Request -> RequestRow]
      BY <1>0, <2>1, RowUpdates DEF Types
    <3>2. req' = new \/ req' = req
      BY <1>3 DEF CommitDecline
    <3>3. QED
      BY <1>0, <3>1, <3>2 DEF Types
  <2>3. QED
    BY <1>0, <1>3, <2>1, <2>2 DEF CommitDecline, Types, others, history
<1>4. ASSUME CommitReplace(t)
      PROVE  Types'
  <2>1. PICK s \in Secret, c \in Claim :
          /\ x.op \in {"resend", "rotate"}
          /\ drawn' = drawn \/ drawn' = s
          /\ clm' = Replaced(x.seen, c, NewClaim(x.r, s, x.op = "rotate"))
          /\ End(t) /\ UNCHANGED <<dom, sec, jwk, req, map, use, others, accepted, shown, bought>>
    BY <1>4 DEF CommitReplace
  <2>2. x.r \in Request /\ tx' \in [Tx -> TxRecord] /\ (x.op = "rotate") \in BOOLEAN
    BY <1>0, <2>1, EndTyped DEF Stands
  <2> DEFINE new == NewClaim(x.r, s, x.op = "rotate")
  <2>3. new \in ClaimRow
    BY <1>0, <2>2, NewClaimTyped
  <2> HIDE DEF new
  <2>4. clm' \in [Claim -> ClaimRow]
    <3>1. clm' = [b \in Claim |-> IF b = c THEN new
                                  ELSE IF b \in x.seen /\ clm[b].st = "unused"
                                       THEN [clm[b] EXCEPT !.st = "gone"] ELSE clm[b]]
      BY <2>1 DEF Replaced, new
    <3>2. QED
      BY <1>0, <2>3, <3>1, RowUpdates DEF Types
  <2>5. drawn' \in 0..MaxSecrets
    BY <1>0, <2>1, ClientDomainsAssumption DEF Types, Secret
  <2>6. QED
    BY <1>0, <2>1, <2>2, <2>4, <2>5 DEF Types, others
<1>5. ASSUME CommitClaim(t)
      PROVE  Types'
  <2>1. x.c \in Claim /\ x.s \in {0} \cup Secret /\ tx' \in [Tx -> TxRecord]
    BY <1>0, <1>5, EndTyped DEF CommitClaim, Stands, TxRecord
  <2>2. DomainOf(x.c) \in Domain
    BY <1>0, <1>5, <2>1 DEF CommitClaim, Stands, IInv, TablesSound, RowsSound, DomainOf
  <2>3. clm' \in [Claim -> ClaimRow]
    BY <1>0, <1>5, <2>1, RowUpdates DEF CommitClaim, Spent, Types
  <2>4. sec' \in [Secret -> DomainRow]
    <3>1. RetireThenAdd(x) \in [Secret -> DomainRow]
      BY <1>0, <2>2, RowUpdates DEF RetireThenAdd, Types
    <3>2. QED
      BY <1>0, <1>5, <3>1 DEF CommitClaim, Types
  <2>5. shown' \in [Claim -> Nat]
    BY <1>0, <1>5, <2>1 DEF CommitClaim, Types
  <2>6. QED
    BY <1>0, <1>5, <2>1, <2>3, <2>4, <2>5 DEF CommitClaim, Types, others
<1>6. ASSUME CommitExchange(t)
      PROVE  Types'
  <2>1. x.j \in Assertion /\ tx' \in [Tx -> TxRecord]
    BY <1>0, <1>6, EndTyped DEF CommitExchange, Stands
  <2>2. use' \in [Assertion -> Nat] /\ bought' \in [Assertion -> Nat]
    BY <1>0, <1>6, <2>1, ClientDomainsAssumption DEF CommitExchange, Types, UseExpires
  <2>3. QED
    BY <1>0, <1>6, <2>1, <2>2 DEF CommitExchange, Types, others
<1>7. QED
  BY <1>1, <1>2, <1>3, <1>4, <1>5, <1>6 DEF Writes

LEMMA OthersKeepTypes ==
  ASSUME IInv, Administers \/ Passes
  PROVE  Types'
<1>0. Types
  BY DEF IInv
<1>1. ASSUME NEW r \in Request, DeleteRequest(r)
      PROVE  Types'
  <2>1. req' \in [Request -> RequestRow]
    <3>1. req' = [req EXCEPT ![r].st = "gone"]
      BY <1>1 DEF DeleteRequest
    <3>2. QED
      BY <1>0, <3>1, RowUpdates DEF Types
  <2>2. clm' \in [Claim -> ClaimRow]
    BY <1>0, <1>1, RowUpdates DEF DeleteRequest, Cascade, Types
  <2>3. QED
    BY <1>0, <1>1, <2>1, <2>2 DEF DeleteRequest, Alone, Types, others, history
<1>2. ASSUME NEW d \in Domain, DirectRotate(d) \/ CreateDomain(d)
      PROVE  Types'
  <2>1. PICK s \in Secret : sec' = [sec EXCEPT ![s] = [of |-> d, active |-> TRUE]] /\ drawn' = s
    BY <1>2 DEF DirectRotate, CreateDomain
  <2>2. sec' \in [Secret -> DomainRow] /\ drawn' \in 0..MaxSecrets
    <3>1. [of |-> d, active |-> TRUE] \in DomainRow
      BY RowUpdates
    <3>2. QED
      BY <1>0, <2>1, <3>1, ClientDomainsAssumption DEF Types, Secret
  <2>3. dom' \in [Domain -> {"none", "active", "disabled"}]
    BY <1>0, <1>2 DEF DirectRotate, CreateDomain, Types
  <2>4. QED
    BY <1>0, <1>2, <2>2, <2>3 DEF DirectRotate, CreateDomain, Alone, Types, others
<1>3. ASSUME NEW d \in Domain, NEW status \in {"active", "disabled"}, UpdateDomain(d, status)
      PROVE  Types'
  BY <1>0, <1>3 DEF UpdateDomain, Alone, Types, others, history
<1>4. ASSUME NEW k \in Kid, DeactivateJwk(k) \/ \E d \in Domain : AddJwk(d, k)
      PROVE  Types'
  <2>1. jwk' \in [Kid -> DomainRow]
    <3>1. ASSUME DeactivateJwk(k) PROVE jwk' \in [Kid -> DomainRow]
      BY <1>0, <3>1, RowUpdates DEF DeactivateJwk, Types
    <3>2. ASSUME NEW d \in Domain, AddJwk(d, k) PROVE jwk' \in [Kid -> DomainRow]
      <4>1. [of |-> d, active |-> TRUE] \in DomainRow
        BY RowUpdates
      <4>2. QED
        BY <1>0, <3>2, <4>1 DEF AddJwk, Types
    <3>3. QED
      BY <1>4, <3>1, <3>2
  <2>2. QED
    BY <1>0, <1>4, <2>1 DEF DeactivateJwk, AddJwk, Alone, Types, others, history
<1>5. ASSUME NEW d \in Domain, NEW m \in {"none", "off", "on"}, ChangeMapping(d, m)
      PROVE  Types'
  BY <1>0, <1>5 DEF ChangeMapping, Alone, Types, others, history
<1>6. ASSUME SweepClaims
      PROVE  Types'
  <2>1. clm' \in [Claim -> ClaimRow]
    BY <1>0, <1>6, RowUpdates DEF SweepClaims, Types
  <2>2. QED
    BY <1>0, <1>6, <2>1 DEF SweepClaims, Alone, Types, others, history
<1>7. ASSUME PruneUses
      PROVE  Types'
  BY <1>0, <1>7 DEF PruneUses, Alone, Types, others, history
<1>8. ASSUME Passes
      PROVE  Types'
  <2>1. ASSUME NEW j \in Assertion, NEW d \in Domain, SignAssertion(j, d)
        PROVE  Types'
    <3>1. asr' \in [Assertion -> [of : Domain \cup {None}, ends : Nat, tv : Nat]]
      BY <1>0, <2>1, ClientDomainsAssumption DEF SignAssertion, Types, Time
    <3>2. QED
      BY <1>0, <2>1, <3>1 DEF SignAssertion, Types, tables, history
  <2>2. ResetUser => Types'
    BY <1>0, ClientDomainsAssumption DEF ResetUser, Types, tables, history
  <2>3. Tick => Types'
    BY <1>0, ClientDomainsAssumption DEF Tick, Types, tables, history, Time
  <2>4. QED
    BY <1>8, <2>1, <2>2, <2>3 DEF Passes
<1>9. QED
  BY <1>1, <1>2, <1>3, <1>4, <1>5, <1>6, <1>7, <1>8 DEF Administers

----------------------------------------------------------------------------
(* No row ever changes what it is about.                                   *)

NamesKept ==
  /\ \A r \in Request : req[r].st # "none" => req'[r].st # "none" /\ req'[r].of = req[r].of
  /\ \A c \in Claim : clm[c].st # "none" =>
       /\ clm'[c].st # "none" /\ clm'[c].req = clm[c].req
       /\ clm'[c].s = clm[c].s /\ clm'[c].rot = clm[c].rot
  /\ \A s \in Secret : sec[s].of # None => sec'[s].of = sec[s].of
  /\ \A d \in Domain : Registered(d) => Registered(d)'
  /\ \A j \in Assertion : asr[j].of # None => asr'[j] = asr[j]
  /\ accepted \subseteq accepted' /\ drawn <= drawn' /\ now <= now'

LEMMA NewSecretIsNew ==
  ASSUME IInv, NEW s \in Secret, IsNewSecret(s)
  PROVE  s = drawn + 1 /\ drawn \in Nat /\ sec[s].of = None /\ ~sec[s].active
<1>1. s = drawn + 1 /\ drawn \in Nat
  BY ClientDomainsAssumption DEF IsNewSecret, IInv, Types
<1>2. sec[s].of = None
  BY <1>1 DEF IInv, TablesSound, RowsSound
<1>3. QED
  BY <1>1, <1>2 DEF IInv, TablesSound, RowsSound

LEMMA RowsKeepTheirNames ==
  ASSUME IInv, Next
  PROVE  NamesKept
<1>0. Types /\ drawn \in Int /\ now \in Int /\ \A t \in Tx : Stands(tx[t])
  BY ClientDomainsAssumption DEF IInv, Types, Time
<1>1. ASSUME Quiet PROVE NamesKept
  BY <1>0, <1>1 DEF NamesKept, Quiet, tables, others, history, Registered
<1>2. ASSUME NEW t \in Tx, WriteRequest(t) PROVE NamesKept
  <2>1. \A r \in Request : req[r].st # "none" => req'[r].st # "none" /\ req'[r].of = req[r].of
    <3>1. CASE tx[t].r # None /\ req' = UpdateFound(t)
      <4>1. tx[t].r \in Request
        BY <1>0, <3>1 DEF Types, TxRecord
      <4>2. QED
        BY <1>0, <3>1, <4>1 DEF UpdateFound, Types, RequestRow
    <3>2. CASE \E r \in Request : req[r].st = "none" /\
                 req' = IF OneOpenEach(CreateRow(t, r)) THEN CreateRow(t, r) ELSE req
      <4>1. PICK r \in Request : req[r].st = "none" /\ (req' = CreateRow(t, r) \/ req' = req)
        BY <3>2
      <4>2. QED
        BY <1>0, <4>1 DEF CreateRow, Types
    <3>3. QED
      BY <1>2, <3>1, <3>2 DEF WriteRequest
  <2>2. QED
    BY <1>0, <1>2, <2>1 DEF WriteRequest, NamesKept, others, history, Registered
<1>3. ASSUME NEW t \in Tx, CommitAccept(t) PROVE NamesKept
  <2> DEFINE x == tx[t]
  <2>1. PICK s \in Secret, c \in Claim :
          /\ IsNewSecret(s) /\ IsNewClaim(c) /\ x.op = "accept"
          /\ dom' = [dom EXCEPT ![x.d] = "active"]
          /\ sec' = [sec EXCEPT ![s] = [of |-> x.d, active |-> TRUE]]
          /\ clm' = [clm EXCEPT ![c] = NewClaim(x.r, s, FALSE)]
          /\ req' = [req EXCEPT ![x.r].st = "ACCEPTED"]
          /\ accepted' = accepted \cup {<<x.r, x.d>>} /\ drawn' = s
          /\ UNCHANGED <<asr, now>>
    BY <1>3 DEF CommitAccept, others
  <2>2. s = drawn + 1 /\ sec[s].of = None
    BY <2>1, NewSecretIsNew
  <2>3. \A r \in Request : req[r].st # "none" => req'[r].st # "none" /\ req'[r].of = req[r].of
    BY <1>0, <2>1 DEF Types, RequestRow
  <2>4. \A b \in Claim : clm[b].st # "none" => clm'[b] = clm[b]
    BY <1>0, <2>1 DEF Types, IsNewClaim
  <2>5. \A q \in Secret : sec[q].of # None => sec'[q] = sec[q]
    BY <1>0, <2>1, <2>2 DEF Types
  <2>6. \A d \in Domain : Registered(d) => Registered(d)'
    BY <1>0, <2>1 DEF Types, Registered
  <2>7. drawn <= drawn' /\ accepted \subseteq accepted' /\ asr' = asr /\ now' = now
    BY <1>0, <2>1, <2>2
  <2>8. QED
    BY <1>0, <2>3, <2>4, <2>5, <2>6, <2>7 DEF NamesKept
<1>4. ASSUME NEW t \in Tx, CommitDecline(t) PROVE NamesKept
  <2>1. \A r \in Request : req[r].st # "none" => req'[r].st # "none" /\ req'[r].of = req[r].of
    <3>1. req' = [req EXCEPT ![tx[t].r].st = "DECLINED"] \/ req' = req
      BY <1>4 DEF CommitDecline
    <3>2. QED
      BY SMTT(30), <1>0, <3>1 DEF Types, RequestRow
  <2>2. QED
    BY <1>0, <1>4, <2>1 DEF CommitDecline, NamesKept, others, history, Registered
<1>5. ASSUME NEW t \in Tx, CommitReplace(t) PROVE NamesKept
  <2>1. PICK s \in Secret, c \in Claim :
          /\ IsNewClaim(c) /\ (drawn' = drawn \/ (IsNewSecret(s) /\ drawn' = s))
          /\ clm' = Replaced(tx[t].seen, c, NewClaim(tx[t].r, s, tx[t].op = "rotate"))
          /\ UNCHANGED <<dom, sec, req, asr, now, accepted>>
    BY <1>5 DEF CommitReplace, others
  <2>2. drawn <= drawn'
    BY <1>0, <2>1, NewSecretIsNew
  <2>3. \A b \in Claim : clm[b].st # "none" =>
          /\ clm'[b].st # "none" /\ clm'[b].req = clm[b].req
          /\ clm'[b].s = clm[b].s /\ clm'[b].rot = clm[b].rot
    BY <1>0, <2>1 DEF Replaced, IsNewClaim, Types, ClaimRow
  <2>4. QED
    BY <1>0, <2>1, <2>2, <2>3 DEF NamesKept, Registered
<1>6. ASSUME NEW t \in Tx, CommitClaim(t) PROVE NamesKept
  <2>1. \A b \in Claim : clm[b].st # "none" =>
          /\ clm'[b].st # "none" /\ clm'[b].req = clm[b].req
          /\ clm'[b].s = clm[b].s /\ clm'[b].rot = clm[b].rot
    BY <1>0, <1>6 DEF CommitClaim, Spent, Types, ClaimRow
  <2>2. \A s \in Secret : sec[s].of # None => sec'[s].of = sec[s].of
    <3>1. CASE ~clm[tx[t].c].rot
      BY <1>6, <3>1 DEF CommitClaim
    <3>2. CASE clm[tx[t].c].rot
      <4>1. sec' = RetireThenAdd(tx[t])
        BY <1>6, <3>2 DEF CommitClaim
      <4>2. sec[tx[t].s].of = None
        BY <1>0, <1>6, <3>2 DEF CommitClaim, IInv, TablesSound, Rotation, Renews, Stands, Takes
      <4>3. QED
        BY <1>0, <4>1, <4>2 DEF RetireThenAdd, Types, DomainRow
    <3>3. QED
      BY <3>1, <3>2
  <2>3. QED
    BY <1>0, <1>6, <2>1, <2>2 DEF CommitClaim, NamesKept, others, Registered
<1>7. ASSUME NEW t \in Tx, CommitExchange(t) PROVE NamesKept
  BY <1>0, <1>7 DEF CommitExchange, NamesKept, others, Registered
<1>8. ASSUME NEW r \in Request, DeleteRequest(r) PROVE NamesKept
  <2>1. \A q \in Request : req[q].st # "none" => req'[q].st # "none" /\ req'[q].of = req[q].of
    <3>1. req' = [req EXCEPT ![r].st = "gone"]
      BY <1>8 DEF DeleteRequest
    <3>2. QED
      BY <1>0, <3>1 DEF Types, RequestRow
  <2>2. \A b \in Claim : clm[b].st # "none" =>
          /\ clm'[b].st # "none" /\ clm'[b].req = clm[b].req
          /\ clm'[b].s = clm[b].s /\ clm'[b].rot = clm[b].rot
    BY <1>0, <1>8 DEF DeleteRequest, Cascade, Types, ClaimRow
  <2>3. QED
    BY <1>0, <1>8, <2>1, <2>2 DEF DeleteRequest, Alone, NamesKept, others, history, Registered
<1>9. ASSUME NEW d \in Domain, DirectRotate(d) \/ CreateDomain(d) PROVE NamesKept
  <2>1. PICK s \in Secret : /\ IsNewSecret(s) /\ drawn' = s
                            /\ sec' = [sec EXCEPT ![s] = [of |-> d, active |-> TRUE]]
    BY <1>9 DEF DirectRotate, CreateDomain
  <2>2. \A q \in Secret : sec[q].of # None => sec'[q] = sec[q]
    BY <1>0, <2>1, NewSecretIsNew DEF Types
  <2>3. drawn <= drawn'
    BY <1>0, <2>1, NewSecretIsNew
  <2>4. \A e \in Domain : Registered(e) => Registered(e)'
    BY <1>0, <1>9 DEF DirectRotate, CreateDomain, Registered, Types
  <2>5. QED
    BY <1>0, <1>9, <2>2, <2>3, <2>4 DEF DirectRotate, CreateDomain, Alone, NamesKept, others
<1>10. ASSUME NEW d \in Domain, NEW status \in {"active", "disabled"}, UpdateDomain(d, status)
       PROVE  NamesKept
  BY <1>0, <1>10 DEF UpdateDomain, Alone, NamesKept, others, history, Registered, Types
<1>11. ASSUME SweepClaims PROVE NamesKept
  <2>1. \A b \in Claim : clm[b].st # "none" =>
          /\ clm'[b].st # "none" /\ clm'[b].req = clm[b].req
          /\ clm'[b].s = clm[b].s /\ clm'[b].rot = clm[b].rot
    BY <1>0, <1>11 DEF SweepClaims, Types, ClaimRow
  <2>2. QED
    BY <1>0, <1>11, <2>1 DEF SweepClaims, Alone, NamesKept, others, history, Registered
<1>12. ASSUME \/ \E k \in Kid : DeactivateJwk(k)
              \/ \E d \in Domain, k \in Kid : AddJwk(d, k)
              \/ \E d \in Domain, m \in {"none", "off", "on"} : ChangeMapping(d, m)
              \/ PruneUses
       PROVE  NamesKept
  <2>1. UNCHANGED <<dom, sec, req, clm, asr, now, accepted, drawn>>
    BY <1>12 DEF DeactivateJwk, AddJwk, ChangeMapping, PruneUses, Alone, others, history
  <2>2. QED
    BY <1>0, <2>1 DEF NamesKept, Registered
<1>13. ASSUME Passes PROVE NamesKept
  <2>1. UNCHANGED <<dom, sec, req, clm, accepted, drawn>>
    BY <1>13 DEF Passes, SignAssertion, ResetUser, Tick, tables, history
  <2>2. now <= now' /\ \A j \in Assertion : asr[j].of # None => asr'[j] = asr[j]
    BY <1>0, <1>13 DEF Passes, SignAssertion, ResetUser, Tick, Types
  <2>3. QED
    BY <1>0, <2>1, <2>2 DEF NamesKept, Registered
<1>14. QED
  BY <1>1, <1>2, <1>3, <1>4, <1>5, <1>6, <1>7, <1>8, <1>9, <1>10, <1>11, <1>12, <1>13, KindsOfSteps
  DEF Writes, Administers, Goes

----------------------------------------------------------------------------
(* What a transaction relies on stays so while others write.               *)

Undisturbed(u) ==
  /\ tx'[u] = tx[u]
  /\ Decides(tx[u]) => dom' = dom
  /\ Takes(tx[u]) => clm'[tx[u].c].st = "unused"
  /\ Locked(tx[u]) => dom' = dom /\ epoch' = epoch

LEMMA StandsStill ==
  ASSUME IInv, Types', NamesKept, NEW u \in Tx, Undisturbed(u) \/ tx'[u] = Idle
  PROVE  Stands(tx[u])'
<1>1. CASE tx'[u] = Idle
  BY <1>1 DEF Stands, Idle, Decides, Takes, Locked
<1>2. CASE Undisturbed(u)
  <2> DEFINE x == tx[u]
  <2>0. Stands(x) /\ tx'[u] = x /\ RowsSound /\ drawn \in Int /\ drawn' >= drawn
    BY <1>2, ClientDomainsAssumption DEF IInv, TablesSound, Types, Undisturbed, NamesKept
  <2>1. x.op \in {"accept", "decline", "resend", "rotate"} =>
          x.r \in Request /\ req'[x.r].st # "none" /\ req'[x.r].of = req[x.r].of
    BY <2>0 DEF Stands, NamesKept
  <2>2. Decides(x) => x.d = req'[x.r].of /\ x.k \in Kid /\ ~Registered(x.d)'
    <3>1. Decides(x) => x.op = "accept" /\ dom' = dom
      BY <1>2 DEF Decides, Undisturbed
    <3>2. QED
      BY <2>0, <2>1, <3>1 DEF Stands, Registered
  <2>3. x.op \in {"resend", "rotate"} => <<x.r, req'[x.r].of>> \in accepted'
    BY <2>0, <2>1 DEF Stands, NamesKept
  <2>4. x.op = "resend" => x.s \in 1..drawn'
    <3>1. x.op = "resend" => x.s \in 1..drawn
      BY <2>0 DEF Stands
    <3>2. drawn' \in Int
      BY Types', ClientDomainsAssumption DEF Types
    <3>3. QED
      BY <2>0, <3>1, <3>2
  <2>5. x.op = "claim" => x.c \in Claim /\ clm'[x.c].st # "none" /\ x.s = clm'[x.c].s
    BY <2>0 DEF Stands, NamesKept
  <2>6. Takes(x) => clm'[x.c].st = "unused" /\
                    \A s \in Secret : s \in x.seen => sec'[s].of = DomainOf(x.c)'
    <3>1. ASSUME Takes(x)
          PROVE  x.c \in Claim /\ DomainOf(x.c) \in Domain /\ DomainOf(x.c)' = DomainOf(x.c)
      BY <2>0, <3>1 DEF Takes, Stands, DomainOf, RowsSound, NamesKept
    <3>2. QED
      BY <1>2, <2>0, <3>1, ClientDomainsAssumption DEF Undisturbed, Stands, NamesKept
  <2>7. x.op = "exchange" => x.j \in Assertion /\ x.d \in Domain /\ asr'[x.j] = asr[x.j]
    BY <2>0, ClientDomainsAssumption DEF Stands, NamesKept
  <2>8. Locked(x) => /\ dom'[x.d] = "active" /\ asr'[x.j].tv = epoch'
                     /\ x.at < UseExpires(x.j)'
    <3>1. Locked(x) => x.op = "exchange" /\ asr'[x.j] = asr[x.j]
      BY <2>7 DEF Locked
    <3>2. QED
      BY <1>2, <2>0, <3>1 DEF Undisturbed, Stands, UseExpires
  <2>9. QED
    <3> DEFINE y == tx'[u]
    <3>1. y = x
      BY <2>0
    <3>2. /\ y.op = "discover" => y.d \in Domain /\ y.k \in Kid
          /\ y.op = "exchange" => asr'[y.j].of = y.d
      BY <2>0, <2>7 DEF Stands
    <3>3. QED
      BY <2>1, <2>2, <2>3, <2>4, <2>5, <2>6, <2>7, <2>8, <3>1, <3>2
      DEF Stands, Decides, Takes, Locked, Registered
<1>3. QED
  BY <1>1, <1>2

LEMMA ApartStill ==
  ASSUME Apart, \A u \in Tx : tx'[u] = tx[u] \/ tx'[u] = Idle
  PROVE  Apart'
<1> SUFFICES ASSUME NEW t \in Tx, NEW u \in Tx, t # u
             PROVE  ~Collide(tx[t], tx[u])'
  BY DEF Apart
<1>1. ~Collide(tx[t], tx[u])
  BY DEF Apart
<1>2. QED
  BY <1>1 DEF Collide, Takes, Decides, Locked, Idle

----------------------------------------------------------------------------
(* What the tables promise, over what a step leaves alone.                 *)

LEMMA Untouched ==
  ASSUME TablesSound
  PROVE  /\ UNCHANGED <<req, clm, drawn, sec, jwk, dom>> => RowsSound'
         /\ UNCHANGED <<clm, shown>> => Spending'
         /\ UNCHANGED <<clm, sec>> => Rotation'
         /\ UNCHANGED <<req, clm, dom, accepted>> => Requests'
         /\ UNCHANGED <<asr, use, bought, now>> => Uses'
<1>1. UNCHANGED <<req, clm, drawn, sec, jwk, dom>> => RowsSound'
  BY DEF TablesSound, RowsSound, Registered
<1>2. UNCHANGED <<clm, shown>> => Spending'
  BY DEF TablesSound, Spending
<1>3. UNCHANGED <<clm, sec>> => Rotation'
  BY DEF TablesSound, Rotation, Renews
<1>4. UNCHANGED <<req, clm, dom, accepted>> => Requests'
  BY DEF TablesSound, Requests, RequestsAreOrderly, OneOpenEach, IsOpen, IsRow, Registered, DomainOf
<1>5. UNCHANGED <<asr, use, bought, now>> => Uses'
  BY DEF TablesSound, Uses, UseExpires
<1>6. QED
  BY <1>1, <1>2, <1>3, <1>4, <1>5

(* The rows stay sound if those that are new or changed are.               *)
LEMMA RowsStill ==
  ASSUME IInv, NamesKept, Types',
         \A r \in Request : req[r].st = "none" =>
           \/ req'[r] = req[r]
           \/ req'[r].of \in Domain /\ req'[r].kid \in Kid,
         \A r \in Request : req[r].st # "none" => req'[r].kid \in Kid,
         \A c \in Claim : clm[c].st = "none" =>
           \/ clm'[c] = clm[c]
           \/ /\ clm'[c].st # "none" /\ clm'[c].req \in Request /\ clm'[c].s \in 1..drawn'
              /\ req'[clm'[c].req].st # "none",
         \A s \in Secret : sec[s].of = None => sec'[s] = sec[s] \/ (sec'[s].of # None /\ s <= drawn'),
         \A k \in Kid : jwk'[k] = jwk[k] \/ ~jwk'[k].active
                         \/ (jwk'[k].of \in Domain /\ Registered(jwk[k].of)')
  PROVE  RowsSound'
<1>0. RowsSound /\ drawn \in Int /\ drawn' \in Int /\ drawn <= drawn'
  BY Types', ClientDomainsAssumption DEF IInv, Types, TablesSound, NamesKept
<1>1. \A r \in Request : req'[r].st # "none" => req'[r].of \in Domain /\ req'[r].kid \in Kid
  BY <1>0 DEF RowsSound, NamesKept
<1>2. \A c \in Claim : IF clm'[c].st = "none" THEN clm'[c].req = None
        ELSE clm'[c].req \in Request /\ clm'[c].s \in 1..drawn' /\ req'[clm'[c].req].st # "none"
  <2> SUFFICES ASSUME NEW c \in Claim
               PROVE  IF clm'[c].st = "none" THEN clm'[c].req = None
                      ELSE /\ clm'[c].req \in Request /\ clm'[c].s \in 1..drawn'
                           /\ req'[clm'[c].req].st # "none"
    OBVIOUS
  <2>1. CASE clm[c].st = "none"
    BY <1>0, <2>1 DEF RowsSound
  <2>2. CASE clm[c].st # "none"
    <3>1. clm[c].req \in Request /\ clm[c].s \in 1..drawn /\ req[clm[c].req].st # "none"
      BY <1>0, <2>2 DEF RowsSound
    <3>2. /\ clm'[c].st # "none" /\ clm'[c].req = clm[c].req /\ clm'[c].s = clm[c].s
          /\ req'[clm[c].req].st # "none"
      BY <2>2, <3>1 DEF NamesKept
    <3>3. QED
      BY <1>0, <3>1, <3>2
  <2>3. QED
    BY <2>1, <2>2
<1>3. \A s \in Secret : sec'[s].of # None => s <= drawn'
  <2> SUFFICES ASSUME NEW s \in Secret, sec'[s].of # None PROVE s <= drawn'
    OBVIOUS
  <2>1. s \in Int
    BY ClientDomainsAssumption DEF Secret
  <2>2. sec[s].of # None => s <= drawn
    BY <1>0 DEF RowsSound
  <2>3. QED
    BY <1>0, <2>1, <2>2
<1>4. \A s \in Secret : sec'[s].active => sec'[s].of # None
  BY <1>0 DEF RowsSound, NamesKept
<1>5. \A k \in Kid : jwk'[k].active => jwk'[k].of \in Domain /\ Registered(jwk[k].of)'
  <2> SUFFICES ASSUME NEW k \in Kid, jwk'[k].active
               PROVE  jwk'[k].of \in Domain /\ Registered(jwk[k].of)'
    OBVIOUS
  <2>1. CASE jwk'[k] = jwk[k]
    BY <1>0, <2>1 DEF RowsSound, NamesKept, Registered
  <2>2. QED
    BY <2>1
<1>6. QED
  BY <1>1, <1>2, <1>3, <1>4, <1>5 DEF RowsSound, Registered

(* So do the claims that renew, if no other begins to.                     *)
LEMMA RotationStill ==
  ASSUME IInv,
         \A c \in Claim : Renews(c)' => /\ Renews(c) /\ clm'[c].s = clm[c].s
                                        /\ sec'[clm[c].s].of = None
  PROVE  Rotation'
BY DEF Rotation, Renews, IInv, TablesSound

(* And what was accepted, if nothing else is accepted, no domain goes, and *)
(* no claim comes back or loses its request.                               *)
LEMMA RequestsStill ==
  ASSUME IInv, NamesKept, OneOpenEach(req'), accepted' = accepted,
         \A r \in Request : req'[r].st = "ACCEPTED" => req[r].st = "ACCEPTED",
         \A c \in Claim : IsRow(clm'[c]) =>
           /\ IsRow(req'[clm'[c].req])
           /\ \/ IsRow(clm[c]) /\ clm'[c].req = clm[c].req
              \/ clm'[c].req \in Request /\ <<clm'[c].req, req[clm'[c].req].of>> \in accepted
  PROVE  Requests'
<1>0. Requests /\ RowsSound /\ accepted \subseteq Request \X Domain
  BY DEF IInv, TablesSound, Types
<1>1. \A a \in accepted' : req'[a[1]].st # "none" /\ req'[a[1]].of = a[2] /\ Registered(a[2])'
  BY <1>0 DEF Requests, NamesKept
<1>2. \A a, b \in accepted' : a[2] = b[2] => a = b
  BY <1>0 DEF Requests, RequestsAreOrderly
<1>3. \A r \in Request : req'[r].st = "ACCEPTED" => <<r, req'[r].of>> \in accepted'
  BY <1>0 DEF Requests, RequestsAreOrderly, NamesKept
<1>4. ASSUME NEW c \in Claim, IsRow(clm'[c])
      PROVE  /\ IsRow(req'[clm'[c].req]) /\ Registered(DomainOf(c))'
             /\ <<clm'[c].req, DomainOf(c)'>> \in accepted'
  <2>1. clm'[c].req \in Request /\ <<clm'[c].req, req[clm'[c].req].of>> \in accepted
    <3>1. CASE IsRow(clm[c]) /\ clm'[c].req = clm[c].req
      BY <1>0, <3>1 DEF Requests, RequestsAreOrderly, RowsSound, IsRow, DomainOf
    <3>2. QED
      BY <1>4, <3>1
  <2>2. req'[clm'[c].req].of = req[clm'[c].req].of /\ dom'[req[clm'[c].req].of] # "none"
    <3> DEFINE a == <<clm'[c].req, req[clm'[c].req].of>>
    <3>1. a \in accepted /\ a[1] = clm'[c].req /\ a[2] = req[clm'[c].req].of
      BY <2>1
    <3>2. req[a[1]].st # "none"
      BY <1>0, <3>1 DEF Requests
    <3>3. dom'[a[2]] # "none"
      BY <1>1, <3>1 DEF Registered
    <3>4. QED
      BY <2>1, <3>1, <3>2, <3>3 DEF NamesKept
  <2>3. QED
    BY <1>4, <2>1, <2>2 DEF DomainOf, Registered
<1>5. QED
  BY <1>1, <1>2, <1>3, <1>4 DEF Requests, RequestsAreOrderly, OneOpenEach, IsOpen, IsRow, Registered, DomainOf

----------------------------------------------------------------------------
(* Each step that writes.                                                  *)

Kept == TablesSound' /\ \A u \in Tx : Undisturbed(u) \/ tx'[u] = Idle

LEMMA EndLeavesOthers ==
  ASSUME Types, NEW t \in Tx, End(t),
         \A u \in Tx : u # t =>
           /\ Decides(tx[u]) => dom' = dom
           /\ Takes(tx[u]) => clm'[tx[u].c].st = "unused"
           /\ Locked(tx[u]) => dom' = dom /\ epoch' = epoch
  PROVE  \A u \in Tx : Undisturbed(u) \/ tx'[u] = Idle
<1> SUFFICES ASSUME NEW u \in Tx PROVE Undisturbed(u) \/ tx'[u] = Idle
  OBVIOUS
<1>1. CASE u = t
  BY <1>1, EndTyped
<1>2. CASE u # t
  <2>1. tx'[u] = tx[u]
    BY <1>2, EndTyped
  <2>2. QED
    BY <1>2, <2>1 DEF Undisturbed
<1>3. QED
  BY <1>1, <1>2

(* The claims that others consume are as they stand.                       *)
LEMMA TakersStand ==
  ASSUME IInv
  PROVE  \A u \in Tx : Takes(tx[u]) =>
           tx[u].op = "claim" /\ tx[u].c \in Claim /\ clm[tx[u].c].st = "unused" /\ Taken(tx[u].c)
BY DEF IInv, Stands, Takes, Taken

LEMMA WriteRequestKeeps ==
  ASSUME IInv, Types', NamesKept, NEW t \in Tx, WriteRequest(t)
  PROVE  Kept
<1> DEFINE x == tx[t]
<1>0. Types /\ TablesSound /\ x \in TxRecord /\ x.d \in Domain /\ x.k \in Kid
  BY DEF IInv, Types, Stands, WriteRequest
<1>1. UNCHANGED <<dom, sec, jwk, clm, map, use, others, history>> /\ End(t)
  BY DEF WriteRequest
<1>2. \A u \in Tx : Undisturbed(u) \/ tx'[u] = Idle
  BY <1>0, <1>1, EndLeavesOthers, TakersStand DEF others
<1>3. \/ /\ x.r \in Request
         /\ req' = req \/ (IsRow(req[x.r]) /\ req' = [req EXCEPT ![x.r].kid = x.k])
      \/ \E r \in Request :
           /\ req[r].st = "none"
           /\ req' = req \/ (req' = CreateRow(t, r) /\ OneOpenEach(req'))
  BY <1>0 DEF WriteRequest, UpdateFound, TxRecord
<1>4. RowsSound' /\ Requests'
  <2>1. CASE req' = req
    BY <1>0, <1>1, <2>1, Untouched DEF history
  <2>2. CASE x.r \in Request /\ IsRow(req[x.r]) /\ req' = [req EXCEPT ![x.r].kid = x.k]
    <3>1. \A r \in Request : /\ req'[r].st = req[r].st /\ req'[r].of = req[r].of
                             /\ req'[r].kid = req[r].kid \/ req'[r].kid = x.k
      BY <1>0, <2>2 DEF Types, RequestRow
    <3>2. OneOpenEach(req')
      BY <1>0, <3>1 DEF TablesSound, Requests, RequestsAreOrderly, OneOpenEach, IsOpen
    <3>3. Requests'
      <4>1. \A c \in Claim : IsRow(clm'[c]) => /\ IsRow(req'[clm'[c].req])
                                              /\ IsRow(clm[c]) /\ clm'[c].req = clm[c].req
        BY <1>0, <1>1, <3>1 DEF TablesSound, Requests, RequestsAreOrderly, RowsSound, IsRow
      <4>2. QED
        BY <1>1, <3>1, <3>2, <4>1, RequestsStill DEF history
    <3>4. RowsSound'
      <4>1. \A r \in Request : req[r].st = "none" => req'[r] = req[r] \/ (req'[r].of \in Domain /\ req'[r].kid \in Kid)
        BY <1>0, <2>2 DEF Types, IsRow
      <4>2. QED
        BY <1>0, <1>1, <3>1, <4>1, RowsStill DEF TablesSound, RowsSound, history
    <3>5. QED
      BY <3>3, <3>4
  <2>3. CASE \E r \in Request : req[r].st = "none" /\ req' = CreateRow(t, r) /\ OneOpenEach(req')
    <3>1. PICK r \in Request : req[r].st = "none" /\ req' = CreateRow(t, r) /\ OneOpenEach(req')
      BY <2>3
    <3>2. \A q \in Request : req'[q] = IF q = r THEN [st |-> "PENDING", of |-> x.d, kid |-> x.k] ELSE req[q]
      BY <1>0, <3>1 DEF Types, CreateRow
    <3>3. RowsSound'
      BY <1>0, <1>1, <3>1, <3>2, RowsStill DEF TablesSound, RowsSound, history
    <3>4. Requests'
      <4>1. \A c \in Claim : IsRow(clm'[c]) => /\ IsRow(req'[clm'[c].req])
                                              /\ IsRow(clm[c]) /\ clm'[c].req = clm[c].req
        BY <1>0, <1>1, <3>1, <3>2 DEF TablesSound, Requests, RequestsAreOrderly, RowsSound, IsRow
      <4>2. \A q \in Request : req'[q].st = "ACCEPTED" => req[q].st = "ACCEPTED"
        BY <3>2
      <4>3. QED
        BY <1>1, <3>1, <4>1, <4>2, RequestsStill DEF history
    <3>5. QED
      BY <3>3, <3>4
  <2>4. QED
    BY <1>3, <2>1, <2>2, <2>3
<1>5. Spending' /\ Rotation' /\ Uses'
  BY <1>0, <1>1, Untouched DEF others, history
<1>6. QED
  BY <1>2, <1>4, <1>5 DEF Kept, TablesSound

(* The new claim shows a secret that works already; the domain is new to   *)
(* the accepted ones, since it was not registered.                         *)
LEMMA CommitAcceptKeeps ==
  ASSUME IInv, Types', NamesKept, NEW t \in Tx, CommitAccept(t)
  PROVE  Kept
<1> DEFINE x == tx[t]
<1>0. Types /\ TablesSound /\ Stands(x) /\ x.op = "accept"
  BY DEF IInv, CommitAccept
<1>1. PICK s \in Secret, c \in Claim :
        /\ IsNewSecret(s) /\ IsNewClaim(c) /\ IsRow(req[x.r])
        /\ dom' = [dom EXCEPT ![x.d] = "active"]
        /\ jwk' = [jwk EXCEPT ![x.k] = [of |-> x.d, active |-> TRUE]]
        /\ sec' = [sec EXCEPT ![s] = [of |-> x.d, active |-> TRUE]]
        /\ clm' = [clm EXCEPT ![c] = NewClaim(x.r, s, FALSE)]
        /\ req' = [req EXCEPT ![x.r].st = "ACCEPTED"]
        /\ accepted' = accepted \cup {<<x.r, x.d>>} /\ drawn' = s
        /\ End(t) /\ UNCHANGED <<map, use, others, shown, bought>>
  BY DEF CommitAccept
<1>2. /\ x.r \in Request /\ x.k \in Kid /\ x.d = req[x.r].of /\ x.d \in Domain
      /\ ~Registered(x.d) /\ req[x.r].kid \in Kid /\ req[x.r].st # "none"
  BY <1>0 DEF Stands, Decides, TablesSound, RowsSound
<1>3. s = drawn + 1 /\ drawn \in Nat /\ sec[s].of = None /\ clm[c].st = "none" /\ x.d # None
  BY <1>1, <1>2, NewSecretIsNew, ClientDomainsAssumption DEF IsNewClaim
<1>4. \A b \in Claim : clm'[b] = IF b = c THEN NewClaim(x.r, s, FALSE) ELSE clm[b]
  BY <1>0, <1>1 DEF Types
<1>5. \A r \in Request : /\ req'[r].of = req[r].of /\ req'[r].kid = req[r].kid
                         /\ req'[r].st = IF r = x.r THEN "ACCEPTED" ELSE req[r].st
  BY <1>0, <1>1, <1>2 DEF Types, RequestRow
<1>6. /\ NewClaim(x.r, s, FALSE).st = "unused" /\ NewClaim(x.r, s, FALSE).req = x.r
      /\ NewClaim(x.r, s, FALSE).s = s /\ ~NewClaim(x.r, s, FALSE).rot
  BY DEF NewClaim
<1>7. \A u \in Tx : Undisturbed(u) \/ tx'[u] = Idle
  <2>1. ASSUME NEW u \in Tx, u # t
        PROVE  /\ ~Decides(tx[u]) /\ ~Locked(tx[u])
               /\ Takes(tx[u]) => clm'[tx[u].c].st = "unused"
    <3>1. ~Collide(tx[t], tx[u])
      BY <2>1 DEF IInv, Apart
    <3>2. Takes(tx[u]) => tx[u].c \in Claim /\ clm[tx[u].c].st = "unused"
      BY TakersStand
    <3>3. QED
      BY <1>0, <1>4, <1>6, <3>1, <3>2 DEF Collide, Decides
  <2>2. QED
    BY <1>0, <1>1, <2>1, EndLeavesOthers
<1>8. RowsSound'
  <2>1. \A r \in Request : /\ req[r].st = "none" => req'[r] = req[r]
                           /\ req[r].st # "none" => req'[r].kid \in Kid
    BY SMTT(60), <1>0, <1>1, <1>2, <1>5 DEF Types, TablesSound, RowsSound
  <2>2. ASSUME NEW b \in Claim, clm[b].st = "none"
        PROVE  clm'[b] = clm[b] \/ /\ clm'[b].st # "none" /\ clm'[b].req \in Request
                                   /\ clm'[b].s \in 1..drawn' /\ req'[clm'[b].req].st # "none"
    <3>1. s \in 1..drawn'
      BY <1>1, <1>3
    <3>2. CASE b = c
      <4>1. clm'[b].st = "unused" /\ clm'[b].req = x.r /\ clm'[b].s = s
        BY <1>4, <1>6, <3>2
      <4>2. QED
        BY <1>2, <1>5, <3>1, <4>1
    <3>3. CASE b # c
      BY <1>4, <3>3
    <3>4. QED
      BY <3>2, <3>3
  <2>3. \A q \in Secret : sec[q].of = None => sec'[q] = sec[q] \/ (sec'[q].of # None /\ q <= drawn')
    BY <1>0, <1>1, <1>3 DEF Types
  <2>4. \A k \in Kid : jwk'[k] = jwk[k] \/ (jwk'[k].of \in Domain /\ dom'[jwk'[k].of] # "none")
    <3>1. dom'[x.d] = "active"
      BY <1>0, <1>1, <1>2 DEF Types
    <3>2. \A k \in Kid : jwk'[k] = IF k = x.k THEN [of |-> x.d, active |-> TRUE] ELSE jwk[k]
      BY <1>0, <1>1 DEF Types
    <3>3. QED
      BY <1>2, <3>1, <3>2
  <2>5. \A r \in Request : /\ req[r].st = "none" => req'[r] = req[r]
                           /\ req[r].st # "none" => req'[r].kid \in Kid
    BY <2>1
  <2>6. \A k \in Kid : \/ jwk'[k] = jwk[k] \/ ~jwk'[k].active
                       \/ jwk'[k].of \in Domain /\ Registered(jwk[k].of)'
    BY <2>4 DEF Registered
  <2>7. QED
    BY <2>2, <2>3, <2>5, <2>6, RowsStill
<1>9. Spending'
  <2> SUFFICES ASSUME NEW b \in Claim
               PROVE  /\ clm'[b].st \in {"none", "unused"} => shown'[b] = 0
                      /\ clm'[b].st = "used" => ~clm'[b].blob /\ shown'[b] <= 1
    BY DEF Spending
  <2>1. /\ clm[b].st \in {"none", "unused"} => shown[b] = 0
        /\ clm[b].st = "used" => ~clm[b].blob /\ shown[b] <= 1
    BY <1>0 DEF TablesSound, Spending
  <2>2. shown' = shown
    BY <1>0, <1>1
  <2>3. CASE b = c
    BY <1>3, <1>4, <1>6, <2>1, <2>2, <2>3
  <2>4. CASE b # c
    BY <1>4, <2>1, <2>2, <2>4
  <2>5. QED
    BY <2>3, <2>4
<1>10. Rotation'
  <2>1. ASSUME NEW b \in Claim, Renews(b)'
        PROVE  Renews(b) /\ clm'[b].s = clm[b].s /\ sec'[clm[b].s].of = None
    <3>1. b # c /\ clm'[b] = clm[b] /\ Renews(b)
      BY <1>4, <1>6, <2>1 DEF Renews
    <3>2. clm[b].s \in 1..drawn /\ sec[clm[b].s].of = None
      BY <1>0, <3>1 DEF TablesSound, Rotation, RowsSound, Renews
    <3>3. clm[b].s # s
      BY <1>3, <3>2
    <3>4. QED
      BY <1>0, <1>1, <3>1, <3>2, <3>3 DEF Types
  <2>2. QED
    BY <2>1, RotationStill
<1>11. Requests'
  <2>0. accepted \subseteq Request \X Domain /\ Requests /\ RowsSound
    BY <1>0 DEF Types, TablesSound
  <2>1. OneOpenEach(req')
    BY <1>5, <2>0 DEF Requests, RequestsAreOrderly, OneOpenEach, IsOpen
  <2>2. \A a \in accepted' : req'[a[1]].st # "none" /\ req'[a[1]].of = a[2] /\ dom'[a[2]] # "none"
    <3>1. ASSUME NEW a \in accepted
          PROVE  req'[a[1]].st # "none" /\ req'[a[1]].of = a[2] /\ dom'[a[2]] # "none"
      BY <2>0 DEF Requests, NamesKept, Registered
    <3>2. dom'[x.d] # "none"
      BY <1>0, <1>1, <1>2 DEF Types
    <3>3. req'[x.r].st # "none" /\ req'[x.r].of = x.d
      BY <1>2, <1>5
    <3>4. QED
      BY <1>1, <3>1, <3>2, <3>3
  <2>3. \A a, b \in accepted' : a[2] = b[2] => a = b
    <3>1. \A a \in accepted : a[2] # x.d
      BY <1>2, <2>0 DEF Requests
    <3>2. QED
      BY <1>1, <2>0, <3>1 DEF Requests, RequestsAreOrderly
  <2>4. \A r \in Request : req'[r].st = "ACCEPTED" => <<r, req'[r].of>> \in accepted'
    BY <1>1, <1>2, <1>5, <2>0 DEF Requests, RequestsAreOrderly
  <2>5. ASSUME NEW b \in Claim, IsRow(clm'[b])
        PROVE  /\ IsRow(req'[clm'[b].req]) /\ dom'[req'[clm'[b].req].of] # "none"
               /\ <<clm'[b].req, req'[clm'[b].req].of>> \in accepted'
    <3>1. CASE b = c
      <4>1. clm'[b].req = x.r /\ req'[x.r].st = "ACCEPTED" /\ req'[x.r].of = x.d
        BY <1>2, <1>4, <1>5, <1>6, <3>1
      <4>2. dom'[x.d] # "none" /\ <<x.r, x.d>> \in accepted'
        BY <1>0, <1>1, <1>2 DEF Types
      <4>3. QED
        BY <4>1, <4>2 DEF IsRow
    <3>2. CASE b # c
      <4>1. clm'[b] = clm[b] /\ clm[b].req \in Request
        BY <1>4, <2>0, <2>5, <3>2 DEF RowsSound, IsRow
      <4>2. /\ IsRow(req[clm[b].req]) /\ Registered(req[clm[b].req].of)
            /\ <<clm[b].req, req[clm[b].req].of>> \in accepted
        BY <2>0, <2>5, <4>1 DEF Requests, RequestsAreOrderly, DomainOf
      <4>3. QED
        <5>1. dom'[req[clm[b].req].of] # "none"
          BY <2>0, <4>2 DEF NamesKept, Registered
        <5>2. IsRow(req'[clm[b].req]) /\ req'[clm[b].req].of = req[clm[b].req].of
          BY <1>5, <4>1, <4>2 DEF IsRow
        <5>3. <<clm[b].req, req[clm[b].req].of>> \in accepted'
          BY <1>1, <4>2
        <5>4. QED
          BY <4>1, <5>1, <5>2, <5>3
    <3>3. QED
      BY <3>1, <3>2
  <2>6. QED
    BY <2>1, <2>2, <2>3, <2>4, <2>5
    DEF Requests, RequestsAreOrderly, OneOpenEach, IsOpen, IsRow, Registered, DomainOf
<1>12. Uses'
  BY <1>0, <1>1, Untouched DEF others
<1>13. QED
  BY <1>7, <1>8, <1>9, <1>10, <1>11, <1>12 DEF Kept, TablesSound

LEMMA CommitDeclineKeeps ==
  ASSUME IInv, Types', NamesKept, NEW t \in Tx, CommitDecline(t)
  PROVE  Kept
<1> DEFINE x == tx[t]
<1>0. Types /\ TablesSound /\ x.r \in Request
  BY DEF IInv, CommitDecline, Stands
<1>1. UNCHANGED <<dom, sec, jwk, clm, map, use, others, history>> /\ End(t) /\ IsRow(req[x.r])
  BY DEF CommitDecline
<1>2. \A u \in Tx : Undisturbed(u) \/ tx'[u] = Idle
  BY <1>0, <1>1, EndLeavesOthers, TakersStand DEF others
<1>3. req' = req \/ (req' = [req EXCEPT ![x.r].st = "DECLINED"] /\ OneOpenEach(req'))
  BY DEF CommitDecline
<1>4. RowsSound' /\ Requests'
  <2>1. CASE req' = req
    BY <1>0, <1>1, <2>1, Untouched DEF history
  <2>2. CASE req' = [req EXCEPT ![x.r].st = "DECLINED"] /\ OneOpenEach(req')
    <3>1. \A r \in Request : /\ req'[r].of = req[r].of /\ req'[r].kid = req[r].kid
                             /\ req'[r].st = IF r = x.r THEN "DECLINED" ELSE req[r].st
      BY <1>0, <2>2 DEF Types, RequestRow
    <3>2. RowsSound'
      <4>1. \A r \in Request : /\ req[r].st = "none" => req'[r] = req[r]
                               /\ req[r].st # "none" => req'[r].kid \in Kid
        BY <1>0, <1>1, <2>2, <3>1 DEF Types, TablesSound, RowsSound, IsRow
      <4>2. QED
        BY <1>1, <4>1, RowsStill DEF history
    <3>3. Requests'
      <4>1. \A c \in Claim : IsRow(clm'[c]) => /\ IsRow(req'[clm'[c].req])
                                              /\ IsRow(clm[c]) /\ clm'[c].req = clm[c].req
        BY <1>0, <1>1, <3>1 DEF TablesSound, Requests, RequestsAreOrderly, RowsSound, IsRow
      <4>2. QED
        BY <1>1, <2>2, <3>1, <4>1, RequestsStill DEF history
    <3>4. QED
      BY <3>2, <3>3
  <2>3. QED
    BY <1>3, <2>1, <2>2
<1>5. Spending' /\ Rotation' /\ Uses'
  BY <1>0, <1>1, Untouched DEF others, history
<1>6. QED
  BY <1>2, <1>4, <1>5 DEF Kept, TablesSound

LEMMA CommitReplaceKeeps ==
  ASSUME IInv, Types', NamesKept, NEW t \in Tx, CommitReplace(t)
  PROVE  Kept
<1> DEFINE x == tx[t]
<1>0. /\ Types /\ TablesSound /\ Stands(x) /\ x.op \in {"resend", "rotate"}
      /\ drawn \in Nat /\ drawn' \in Nat
  BY Types', ClientDomainsAssumption DEF IInv, CommitReplace, Types
<1>1. PICK s \in Secret, c \in Claim :
        /\ \A b \in x.seen : ~Taken(b)
        /\ IsRow(req[x.r]) /\ IsNewClaim(c)
        /\ \/ x.op = "resend" /\ s = x.s /\ drawn' = drawn
           \/ x.op = "rotate" /\ IsNewSecret(s) /\ drawn' = s
        /\ clm' = Replaced(x.seen, c, NewClaim(x.r, s, x.op = "rotate"))
        /\ End(t) /\ UNCHANGED <<dom, sec, jwk, req, map, use, others, accepted, shown, bought>>
  BY DEF CommitReplace
<1> DEFINE new == NewClaim(x.r, s, x.op = "rotate")
<1>2. x.r \in Request /\ req[x.r].st # "none" /\ <<x.r, req[x.r].of>> \in accepted
  BY <1>0 DEF Stands
<1>3. clm[c].st = "none" /\ s \in 1..drawn'
  <2>1. x.op = "rotate" => s = drawn + 1
    BY <1>1, NewSecretIsNew
  <2>2. QED
    BY <1>0, <1>1, <2>1 DEF IsNewClaim, Stands
<1>4. new.st = "unused" /\ new.req = x.r /\ new.s = s /\ new.rot = (x.op = "rotate")
  BY DEF NewClaim
<1>5. \A b \in Claim :
        /\ b = c => clm'[b] = new
        /\ b # c => clm'[b] = clm[b] \/ (/\ b \in x.seen /\ clm[b].st = "unused"
                                        /\ clm'[b] = [clm[b] EXCEPT !.st = "gone"])
  BY <1>1 DEF Replaced
<1> HIDE DEF new
<1>6. \A u \in Tx : Undisturbed(u) \/ tx'[u] = Idle
  <2>1. ASSUME NEW u \in Tx, Takes(tx[u]) PROVE clm'[tx[u].c].st = "unused"
    <3> DEFINE b == tx[u].c
    <3>1. b \in Claim /\ clm[b].st = "unused" /\ Taken(b)
      BY <2>1, TakersStand
    <3>2. b # c /\ b \notin x.seen
      BY <1>1, <1>3, <3>1
    <3>3. clm'[b] = clm[b]
      BY <1>5, <3>1, <3>2
    <3>4. QED
      BY <3>1, <3>3
  <2>2. QED
    BY <1>0, <1>1, <2>1, EndLeavesOthers DEF others
<1>7. RowsSound'
  <2>1. ASSUME NEW b \in Claim, clm[b].st = "none"
        PROVE  clm'[b] = clm[b] \/ /\ clm'[b].st # "none" /\ clm'[b].req \in Request
                                   /\ clm'[b].s \in 1..drawn' /\ req'[clm'[b].req].st # "none"
    <3>1. CASE b = c
      <4>1. clm'[b].st = "unused" /\ clm'[b].req = x.r /\ clm'[b].s = s /\ req' = req
        BY <1>1, <1>4, <1>5, <3>1
      <4>2. QED
        BY <1>2, <1>3, <4>1
    <3>2. CASE b # c
      BY <1>5, <2>1, <3>2
    <3>3. QED
      BY <3>1, <3>2
  <2>2. \A r \in Request : req[r].st # "none" => req'[r].kid \in Kid
    BY <1>0, <1>1 DEF TablesSound, RowsSound
  <2>3. QED
    BY <1>1, <2>1, <2>2, RowsStill
<1>8. Spending'
  <2>1. ASSUME NEW b \in Claim
        PROVE  /\ clm'[b].st \in {"none", "unused"} => shown[b] = 0
               /\ clm'[b].st = "used" => ~clm'[b].blob /\ shown[b] <= 1
    <3>1. CASE b = c
      BY <1>0, <1>3, <1>4, <1>5, <3>1 DEF TablesSound, Spending
    <3>2. CASE b # c
      <4>1. clm'[b] = clm[b] \/ clm'[b].st = "gone"
        BY <1>0, <1>5, <3>2 DEF Types, ClaimRow
      <4>2. QED
        BY <1>0, <4>1 DEF TablesSound, Spending
    <3>3. QED
      BY <3>1, <3>2
  <2>2. QED
    BY <1>1, <2>1 DEF Spending
<1>9. Rotation'
  <2>1. ASSUME NEW b \in Claim, Renews(b)', b # c
        PROVE  Renews(b) /\ clm'[b].s = clm[b].s /\ sec'[clm[b].s].of = None /\ clm[b].s <= drawn
    <3>1. clm'[b] = clm[b]
      BY <1>0, <1>5, <2>1 DEF Renews, Types, ClaimRow
    <3>2. QED
      BY <1>0, <1>1, <2>1, <3>1 DEF Renews, TablesSound, Rotation, RowsSound
  <2>2. CASE x.op = "resend"
    <3>1. ~Renews(c)'
      BY <1>4, <1>5, <2>2 DEF Renews
    <3>2. QED
      BY <2>1, <3>1, RotationStill
  <2>3. CASE x.op = "rotate"
    <3>1. s = drawn + 1 /\ sec[s].of = None
      BY <1>1, <2>3, NewSecretIsNew
    <3>2. clm'[c].s = s
      BY <1>4, <1>5
    <3>3. \A b \in Claim : Renews(b)' => sec'[clm'[b].s].of = None
      BY <1>1, <2>1, <3>1, <3>2
    <3>4. ASSUME NEW a \in Claim, NEW b \in Claim, Renews(a)', Renews(b)', clm'[a].s = clm'[b].s
          PROVE  a = b
      <4>1. CASE a # c /\ b # c
        BY <1>0, <2>1, <3>4, <4>1 DEF TablesSound, Rotation
      <4>2. \A d \in Claim : Renews(d)' /\ d # c => clm'[d].s # s
        BY <1>0, <2>1, <3>1
      <4>3. QED
        BY <3>2, <3>4, <4>1, <4>2
    <3>5. QED
      BY <3>3, <3>4 DEF Rotation, Renews
  <2>4. QED
    BY <1>0, <2>2, <2>3
<1>10. Requests'
  <2>1. ASSUME NEW b \in Claim, IsRow(clm'[b])
        PROVE  /\ IsRow(req'[clm'[b].req])
               /\ \/ IsRow(clm[b]) /\ clm'[b].req = clm[b].req
                  \/ clm'[b].req \in Request /\ <<clm'[b].req, req[clm'[b].req].of>> \in accepted
    <3>1. CASE b = c
      BY <1>1, <1>2, <1>4, <1>5, <3>1
    <3>2. CASE b # c
      <4>1. clm'[b] = clm[b]
        BY <1>0, <1>5, <2>1, <3>2 DEF Types, ClaimRow, IsRow
      <4>2. QED
        BY <1>0, <1>1, <2>1, <4>1 DEF TablesSound, Requests, RequestsAreOrderly
    <3>3. QED
      BY <3>1, <3>2
  <2>2. OneOpenEach(req')
    BY <1>0, <1>1 DEF TablesSound, Requests, RequestsAreOrderly
  <2>3. QED
    BY <1>1, <2>1, <2>2, RequestsStill
<1>11. Uses'
  BY <1>0, <1>1, Untouched DEF others
<1>12. QED
  BY <1>6, <1>7, <1>8, <1>9, <1>10, <1>11 DEF Kept, TablesSound

(* Who else has taken a claim has taken another one; a rotation claim puts *)
(* its own secret in use, which no other claim that renews waits for.      *)
LEMMA CommitClaimKeeps ==
  ASSUME IInv, Types', NamesKept, NEW t \in Tx, CommitClaim(t)
  PROVE  Kept
<1> DEFINE x == tx[t]
<1>0. /\ Types /\ TablesSound /\ Takes(x) /\ x.c \in Claim /\ clm[x.c].st = "unused"
      /\ x.s = clm[x.c].s /\ x.s \in 1..drawn /\ drawn \in 0..MaxSecrets
      /\ \A s \in Secret : s \in x.seen => sec[s].of = DomainOf(x.c)
  BY DEF IInv, Types, CommitClaim, Stands, Takes, TablesSound, RowsSound
<1>1. /\ clm' = Spent(x.c) /\ sec' = IF clm[x.c].rot THEN RetireThenAdd(x) ELSE sec
      /\ shown' \in {shown, [shown EXCEPT ![x.c] = @ + 1]}
      /\ End(t) /\ UNCHANGED <<dom, jwk, req, map, use, others, accepted, bought, drawn>>
  BY DEF CommitClaim
<1>2. /\ \A b \in Claim : b # x.c => clm'[b] = clm[b]
      /\ clm'[x.c].st = "used" /\ ~clm'[x.c].blob /\ clm'[x.c].req = clm[x.c].req
  <2>1. clm \in [Claim -> ClaimRow] /\ x.c \in Claim /\ clm[x.c] \in ClaimRow
    BY <1>0 DEF Types
  <2>2. clm' = [clm EXCEPT ![x.c].st = "used", ![x.c].blob = FALSE]
    BY <1>1 DEF Spent
  <2>3. \A b \in Claim : b # x.c => clm'[b] = clm[b]
    BY <2>1, <2>2
  <2>4. clm'[x.c].st = "used" /\ ~clm'[x.c].blob /\ clm'[x.c].req = clm[x.c].req
    BY <2>1, <2>2 DEF ClaimRow
  <2>5. QED
    BY <2>3, <2>4
<1>3. x.s \in Secret /\ DomainOf(x.c) \in Domain /\ DomainOf(x.c) # None
  BY <1>0, ClientDomainsAssumption DEF Secret, TablesSound, RowsSound, DomainOf
<1>4. \A s \in Secret : sec[s].of = None => sec'[s] = sec[s] \/ (s = x.s /\ sec'[s].of # None)
  <2> SUFFICES ASSUME NEW s \in Secret, sec[s].of = None
               PROVE  sec'[s] = sec[s] \/ (s = x.s /\ sec'[s].of # None)
    OBVIOUS
  <2>1. s \notin x.seen
    BY <1>0, <1>3
  <2>2. QED
    BY <1>1, <1>3, <2>1 DEF RetireThenAdd
<1>5. \A u \in Tx : Undisturbed(u) \/ tx'[u] = Idle
  <2>1. ASSUME NEW u \in Tx, u # t, Takes(tx[u]) PROVE clm'[tx[u].c].st = "unused"
    <3>1. tx[u].c # x.c
      BY <1>0, <2>1 DEF IInv, Apart, Collide
    <3>2. QED
      BY <1>2, <2>1, <3>1, TakersStand
  <2>2. QED
    BY <1>0, <1>1, <2>1, EndLeavesOthers DEF others
<1>6. RowsSound'
  <2>1. \A b \in Claim : clm[b].st = "none" => clm'[b] = clm[b]
    BY <1>0, <1>2
  <2>2. \A r \in Request : req[r].st # "none" => req'[r].kid \in Kid
    BY <1>0, <1>1 DEF TablesSound, RowsSound
  <2>3. x.s <= drawn'
    BY <1>0, <1>1
  <2>4. QED
    BY <1>1, <1>4, <2>1, <2>2, <2>3, RowsStill
<1>7. Spending'
  <2>1. shown'[x.c] <= 1 /\ \A b \in Claim : b # x.c => shown'[b] = shown[b]
    BY <1>0, <1>1 DEF TablesSound, Spending, Types
  <2>2. QED
    BY <1>0, <1>2, <2>1 DEF TablesSound, Spending
<1>8. Rotation'
  <2>1. ASSUME NEW b \in Claim, Renews(b)'
        PROVE  Renews(b) /\ clm'[b].s = clm[b].s /\ sec'[clm[b].s].of = None
    <3>1. b # x.c /\ clm'[b] = clm[b] /\ Renews(b)
      BY <1>2, <2>1 DEF Renews
    <3>2. clm[b].s \in Secret /\ sec[clm[b].s].of = None
      BY <1>0, <3>1, ClientDomainsAssumption DEF TablesSound, Rotation, RowsSound, Renews, Secret
    <3>3. sec'[clm[b].s] = sec[clm[b].s]
      <4>1. CASE ~clm[x.c].rot
        BY <1>1, <4>1
      <4>2. CASE clm[x.c].rot
        BY <1>0, <1>4, <3>1, <3>2, <4>2 DEF TablesSound, Rotation, Renews
      <4>3. QED
        BY <4>1, <4>2
    <3>4. QED
      BY <3>1, <3>2, <3>3
  <2>2. QED
    BY <2>1, RotationStill
<1>9. Requests'
  <2>1. ASSUME NEW b \in Claim, IsRow(clm'[b])
        PROVE  /\ IsRow(req'[clm'[b].req])
               /\ IsRow(clm[b]) /\ clm'[b].req = clm[b].req
    <3>1. IsRow(clm[b]) /\ clm'[b].req = clm[b].req
      BY <1>0, <1>2, <2>1 DEF IsRow
    <3>2. QED
      BY <1>0, <1>1, <3>1 DEF TablesSound, Requests, RequestsAreOrderly
  <2>2. OneOpenEach(req')
    BY <1>0, <1>1 DEF TablesSound, Requests, RequestsAreOrderly
  <2>3. QED
    BY <1>1, <2>1, <2>2, RequestsStill
<1>10. Uses'
  BY <1>0, <1>1, Untouched DEF others
<1>11. QED
  BY <1>5, <1>6, <1>7, <1>8, <1>9, <1>10 DEF Kept, TablesSound

LEMMA CommitExchangeKeeps ==
  ASSUME IInv, Types', NamesKept, NEW t \in Tx, CommitExchange(t)
  PROVE  Kept
<1> DEFINE x == tx[t]
<1>0. /\ Types /\ TablesSound /\ x.j \in Assertion /\ asr[x.j].of # None
  BY ClientDomainsAssumption DEF IInv, CommitExchange, Stands
<1>1. /\ use' = [use EXCEPT ![x.j] = UseExpires(x.j)]
      /\ bought' = [bought EXCEPT ![x.j] = @ + 1]
      /\ End(t) /\ UNCHANGED <<dom, sec, jwk, req, clm, map, others, accepted, shown, drawn>>
  BY DEF CommitExchange
<1>2. \A u \in Tx : Undisturbed(u) \/ tx'[u] = Idle
  BY <1>0, <1>1, EndLeavesOthers, TakersStand DEF others
<1>3. Uses'
  <2>1. use'[x.j] = UseExpires(x.j) /\ UNCHANGED <<asr, now>>
    BY <1>0, <1>1 DEF Types, others
  <2>2. \A j \in Assertion : j # x.j => use'[j] = use[j] /\ bought'[j] = bought[j]
    BY <1>0, <1>1 DEF Types
  <2>3. QED
    BY <1>0, <2>1, <2>2 DEF TablesSound, Uses, UseExpires
<1>4. QED
  BY <1>0, <1>1, <1>2, <1>3, Untouched DEF Kept, TablesSound

(* Those who change a domain's status found nobody who decides over it or  *)
(* issues for it; the rest changes nothing that a transaction relies on.   *)
LEMMA NobodyMoves ==
  ASSUME tx' = tx, NEW t \in Tx,
         dom' = dom \/ PolicyFree,
         Takes(tx[t]) => clm'[tx[t].c].st = "unused",
         epoch' = epoch \/ UserFree
  PROVE  Undisturbed(t)
BY DEF Undisturbed, PolicyFree, UserFree, HoldsPolicy, SharesPolicy, HoldsUser, Decides, Locked

LEMMA DeleteRequestKeeps ==
  ASSUME IInv, Types', NamesKept, NEW r \in Request, DeleteRequest(r)
  PROVE  Kept
<1>0. Types /\ TablesSound
  BY DEF IInv
<1>1. /\ UNCHANGED <<dom, sec, jwk, map, use, history, tx, others>>
      /\ \A c \in Claim : Taken(c) => clm[c].req # r
      /\ req' = [req EXCEPT ![r].st = "gone"] /\ clm' = Cascade(r)
      /\ IsRow(req[r])
  BY DEF DeleteRequest, Alone
<1>2. \A q \in Request : /\ req'[q].of = req[q].of /\ req'[q].kid = req[q].kid
                         /\ req'[q].st = IF q = r THEN "gone" ELSE req[q].st
  BY <1>0, <1>1 DEF Types, RequestRow
<1>3. \A c \in Claim : \/ clm[c].req # r /\ clm'[c] = clm[c]
                       \/ /\ clm[c].req = r /\ clm'[c].st = "gone"
                          /\ clm'[c].req = clm[c].req /\ clm'[c].s = clm[c].s
  BY <1>0, <1>1 DEF Cascade, Types, ClaimRow
<1>4. \A u \in Tx : Undisturbed(u) \/ tx'[u] = Idle
  BY <1>1, <1>3, TakersStand, NobodyMoves DEF others
<1>5. RowsSound'
  <2>1. \A q \in Request : /\ req[q].st = "none" => req'[q] = req[q]
                           /\ req[q].st # "none" => req'[q].kid \in Kid
    BY <1>0, <1>1, <1>2 DEF Types, TablesSound, RowsSound, IsRow
  <2>2. ASSUME NEW c \in Claim, clm[c].st = "none" PROVE clm'[c] = clm[c]
    BY <1>0, <1>3, <2>2, ClientDomainsAssumption DEF TablesSound, RowsSound
  <2>3. QED
    BY <1>1, <2>1, <2>2, RowsStill DEF history
<1>6. Spending' /\ Rotation'
  <2>1. Spending'
    BY <1>0, <1>1, <1>3 DEF TablesSound, Spending, history
  <2>2. \A c \in Claim : Renews(c)' => clm'[c] = clm[c]
    BY <1>3 DEF Renews
  <2>3. QED
    BY <1>0, <1>1, <2>1, <2>2, RotationStill DEF Renews, TablesSound, Rotation
<1>7. Requests'
  <2>1. ASSUME NEW c \in Claim, IsRow(clm'[c])
        PROVE  IsRow(req'[clm'[c].req]) /\ IsRow(clm[c]) /\ clm'[c].req = clm[c].req
    <3>1. clm[c].req # r /\ clm'[c] = clm[c]
      BY <1>3, <2>1 DEF IsRow
    <3>2. clm[c].req \in Request /\ IsRow(req[clm[c].req])
      BY <1>0, <2>1, <3>1 DEF TablesSound, RowsSound, Requests, RequestsAreOrderly, IsRow
    <3>3. QED
      BY <1>2, <2>1, <3>1, <3>2 DEF IsRow
  <2>2. OneOpenEach(req')
    BY <1>0, <1>2 DEF TablesSound, Requests, RequestsAreOrderly, OneOpenEach, IsOpen
  <2>3. QED
    BY <1>1, <1>2, <2>1, <2>2, RequestsStill DEF history
<1>8. Uses'
  BY <1>0, <1>1, Untouched DEF others, history
<1>9. QED
  BY <1>4, <1>5, <1>6, <1>7, <1>8 DEF Kept, TablesSound

(* A claim that renews waits for a secret drawn before.                    *)
LEMMA DomainsKeep ==
  ASSUME IInv, Types', NamesKept, NEW d \in Domain,
         \/ DirectRotate(d) \/ CreateDomain(d)
         \/ \E status \in {"active", "disabled"} : UpdateDomain(d, status)
  PROVE  Kept
<1>0. Types /\ TablesSound /\ d # None
  BY ClientDomainsAssumption DEF IInv
<1>1. /\ UNCHANGED <<jwk, req, clm, map, use, accepted, shown, bought, tx, others>>
      /\ dom' = dom \/ PolicyFree
  BY DEF DirectRotate, CreateDomain, UpdateDomain, Alone, history
<1>2. \/ sec' = sec /\ drawn' = drawn
      \/ \E s \in Secret : /\ IsNewSecret(s) /\ drawn' = s
                          /\ sec' = [sec EXCEPT ![s] = [of |-> d, active |-> TRUE]]
  BY DEF DirectRotate, CreateDomain, UpdateDomain, history
<1>3. \A s \in Secret : \/ sec'[s] = sec[s]
                        \/ IsNewSecret(s) /\ s = drawn' /\ sec'[s].of = d
  BY <1>0, <1>2 DEF Types
<1>4. \A u \in Tx : Undisturbed(u) \/ tx'[u] = Idle
  BY <1>1, TakersStand, NobodyMoves DEF others
<1>5. RowsSound'
  <2>1. \A s \in Secret : sec'[s] = sec[s] \/ (sec'[s].of # None /\ s <= drawn')
    <3> SUFFICES ASSUME NEW s \in Secret, s = drawn' PROVE s <= drawn'
      BY <1>0, <1>3
    <3> QED
      BY Types', ClientDomainsAssumption DEF Types
  <2>2. \A r \in Request : req[r].st # "none" => req'[r].kid \in Kid
    BY <1>0, <1>1 DEF TablesSound, RowsSound
  <2>3. QED
    BY <1>1, <2>1, <2>2, RowsStill
<1>6. Rotation'
  <2>1. ASSUME NEW c \in Claim, Renews(c)'
        PROVE  Renews(c) /\ clm'[c].s = clm[c].s /\ sec'[clm[c].s].of = None
    <3>1. Renews(c) /\ clm'[c].s = clm[c].s
      BY <1>1, <2>1 DEF Renews
    <3>2. clm[c].s \in 1..drawn /\ clm[c].s \in Secret /\ sec[clm[c].s].of = None
      BY <1>0, <3>1, ClientDomainsAssumption
      DEF TablesSound, Rotation, RowsSound, Renews, Types, Secret
    <3>3. ~IsNewSecret(clm[c].s)
      BY <1>0, <3>2, ClientDomainsAssumption DEF IsNewSecret, Types
    <3>4. QED
      BY <1>3, <3>1, <3>2, <3>3
  <2>2. QED
    BY <2>1, RotationStill
<1>7. Requests'
  <2>1. OneOpenEach(req') /\ \A c \in Claim : IsRow(clm'[c]) => IsRow(req'[clm'[c].req])
    BY <1>0, <1>1 DEF TablesSound, Requests, RequestsAreOrderly
  <2>2. QED
    BY <1>1, <2>1, RequestsStill
<1>8. Spending' /\ Uses'
  BY <1>0, <1>1, Untouched DEF others
<1>9. QED
  BY <1>4, <1>5, <1>6, <1>7, <1>8 DEF Kept, TablesSound

LEMMA KeysKeep ==
  ASSUME IInv, Types', NamesKept,
         \/ \E k \in Kid : DeactivateJwk(k) \/ \E d \in Domain : AddJwk(d, k)
         \/ \E d \in Domain, m \in {"none", "off", "on"} : ChangeMapping(d, m)
  PROVE  Kept
<1>0. Types /\ TablesSound
  BY DEF IInv
<1>1. UNCHANGED <<dom, sec, req, clm, use, history, tx, others>>
  BY DEF DeactivateJwk, AddJwk, ChangeMapping, Alone
<1>2. \A u \in Tx : Undisturbed(u) \/ tx'[u] = Idle
  BY <1>1, TakersStand, NobodyMoves DEF others
<1>3. RowsSound'
  <2>1. \A k \in Kid : \/ jwk'[k] = jwk[k] \/ ~jwk'[k].active
                       \/ jwk'[k].of \in Domain /\ dom'[jwk'[k].of] # "none"
    <3>1. ASSUME NEW k \in Kid, DeactivateJwk(k)
          PROVE  \A i \in Kid : jwk'[i] = jwk[i] \/ ~jwk'[i].active
      BY <1>0, <3>1 DEF DeactivateJwk, Types, DomainRow
    <3>2. ASSUME NEW k \in Kid, NEW d \in Domain, AddJwk(d, k)
          PROVE  \A i \in Kid : \/ jwk'[i] = jwk[i]
                                \/ jwk'[i].of \in Domain /\ dom'[jwk'[i].of] # "none"
      BY <1>0, <3>2 DEF AddJwk, Types, Registered
    <3>3. (\E d \in Domain, m \in {"none", "off", "on"} : ChangeMapping(d, m)) => jwk' = jwk
      BY DEF ChangeMapping
    <3>4. QED
      BY <3>1, <3>2, <3>3
  <2>2. \A r \in Request : req[r].st # "none" => req'[r].kid \in Kid
    BY <1>0, <1>1 DEF TablesSound, RowsSound
  <2>3. QED
    BY <1>1, <2>1, <2>2, RowsStill DEF history, Registered
<1>4. QED
  BY <1>0, <1>1, <1>2, <1>3, Untouched DEF Kept, TablesSound, others, history

LEMMA UpkeepKeeps ==
  ASSUME IInv, Types', NamesKept, SweepClaims \/ PruneUses
  PROVE  Kept
<1>0. Types /\ TablesSound
  BY DEF IInv
<1>1. ASSUME SweepClaims PROVE Kept
  <2>1. UNCHANGED <<dom, sec, jwk, req, map, use, history, tx, others>>
    BY <1>1 DEF SweepClaims, Alone
  <2>2. \A c \in Claim : /\ clm'[c].st = clm[c].st /\ clm'[c].req = clm[c].req
                         /\ clm'[c].s = clm[c].s /\ clm'[c].rot = clm[c].rot
                         /\ clm'[c].blob => clm[c].blob
                         /\ clm[c].st = "none" => clm'[c] = clm[c]
    BY <1>0, <1>1 DEF SweepClaims, Types, ClaimRow, IsRow
  <2>3. \A u \in Tx : Undisturbed(u) \/ tx'[u] = Idle
    BY <2>1, <2>2, TakersStand, NobodyMoves DEF others
  <2>4. RowsSound'
    <3>1. \A r \in Request : req[r].st # "none" => req'[r].kid \in Kid
      BY <1>0, <2>1 DEF TablesSound, RowsSound
    <3>2. QED
      BY <2>1, <2>2, <3>1, RowsStill DEF history
  <2>5. Spending'
    BY <1>0, <2>1, <2>2 DEF TablesSound, Spending, history
  <2>6. Rotation'
    BY <1>0, <2>1, <2>2, RotationStill DEF TablesSound, Rotation, Renews
  <2>7. Requests'
    <3>1. /\ OneOpenEach(req')
          /\ \A c \in Claim : IsRow(clm'[c]) => IsRow(clm[c]) /\ IsRow(req'[clm'[c].req])
      BY <1>0, <2>1, <2>2 DEF TablesSound, Requests, RequestsAreOrderly, IsRow
    <3>2. QED
      BY <2>1, <2>2, <3>1, RequestsStill DEF history
  <2>8. Uses'
    BY <1>0, <2>1, Untouched DEF others, history
  <2>9. QED
    BY <2>3, <2>4, <2>5, <2>6, <2>7, <2>8 DEF Kept, TablesSound
<1>2. ASSUME PruneUses PROVE Kept
  <2>1. /\ UNCHANGED <<dom, sec, jwk, req, clm, map, history, tx, others>>
        /\ use' = [j \in Assertion |-> IF use[j] <= now THEN 0 ELSE use[j]]
    BY <1>2 DEF PruneUses, Alone
  <2>2. \A u \in Tx : Undisturbed(u) \/ tx'[u] = Idle
    BY <2>1, TakersStand, NobodyMoves DEF others
  <2>3. Uses'
    BY <1>0, <2>1 DEF TablesSound, Uses, UseExpires, others, history
  <2>4. QED
    BY <1>0, <2>1, <2>2, <2>3, Untouched DEF Kept, TablesSound, others, history
<1>3. QED
  BY <1>1, <1>2

LEMMA PassesKeep ==
  ASSUME IInv, Types', NamesKept, Passes
  PROVE  Kept
<1>0. Types /\ TablesSound /\ now \in Int /\ now <= now'
  BY ClientDomainsAssumption DEF IInv, Types, Time, NamesKept
<1>1. UNCHANGED <<tables, tx, history>>
  BY DEF Passes, SignAssertion, ResetUser, Tick
<1>2. epoch' = epoch \/ UserFree
  BY DEF Passes, SignAssertion, ResetUser, Tick
<1>3. \A u \in Tx : Undisturbed(u) \/ tx'[u] = Idle
  BY <1>1, <1>2, TakersStand, NobodyMoves DEF tables
<1>4. Uses'
  <2> SUFFICES ASSUME NEW j \in Assertion, bought[j] > 0
               PROVE  asr'[j].of # None /\ (use[j] = UseExpires(j)' \/ UseExpires(j)' <= now')
    BY <1>1 DEF Uses, tables, history
  <2>1. asr[j].of # None /\ (use[j] = UseExpires(j) \/ UseExpires(j) <= now)
    BY <1>0 DEF TablesSound, Uses
  <2>2. asr'[j] = asr[j]
    BY <2>1 DEF NamesKept
  <2>3. UseExpires(j) \in Int /\ UseExpires(j)' = UseExpires(j) /\ now' \in Int
    BY <1>0, <2>2, Types', ClientDomainsAssumption DEF UseExpires, Types, Time
  <2>4. QED
    BY <1>0, <2>1, <2>2, <2>3
<1>5. QED
  BY <1>0, <1>1, <1>3, <1>4, Untouched DEF Kept, TablesSound, tables, history

----------------------------------------------------------------------------
(* The invariant.                                                          *)

LEMMA GoesKeeps ==
  ASSUME IInv, NEW t \in Tx, NEW new, Goes(t, new)
  PROVE  IInv'
<1>0. Types /\ TablesSound /\ UNCHANGED <<tables, others, history>>
  BY DEF IInv, Goes, Quiet
<1>1. tx'[t] = new /\ \A u \in Tx : u # t => tx'[u] = tx[u]
  BY <1>0 DEF Goes, Types
<1>2. Types'
  BY <1>0 DEF Goes, Types, tables, others, history
<1>3. TablesSound'
  BY <1>0, Untouched DEF TablesSound, tables, others, history
<1>4. Apart'
  BY <1>1 DEF Goes, IInv, Apart, Collide, Takes, Decides, Locked
<1>5. ASSUME NEW u \in Tx
      PROVE  Stands(tx[u])'
  <2>1. Stands(tx'[u])
    BY <1>1 DEF Goes, IInv
  <2>2. QED
    BY <1>0, <2>1
    DEF Stands, Takes, Decides, Locked, Registered, DomainOf, UseExpires, tables, others, history
<1>6. QED
  BY <1>2, <1>3, <1>4, <1>5 DEF IInv

LEMMA Initially == Init => IInv
<1> SUFFICES ASSUME Init PROVE IInv
  OBVIOUS
<1>0. \A t \in Tx : tx[t] = Idle
  BY DEF Init
<1>1. Apart /\ \A t \in Tx : Stands(tx[t])
  BY <1>0, IdleStands DEF Apart, Collide, Takes, Decides, Locked, Idle
<1>2. Uses /\ \A c \in Claim : shown[c] = 0
  BY DEF Init, Uses
<1>3. /\ use \in [Assertion -> Nat] /\ bought \in [Assertion -> Nat] /\ shown \in [Claim -> Nat]
      /\ asr \in [Assertion -> [of : Domain \cup {None}, ends : Nat, tv : Nat]]
      /\ epoch \in 0..MaxEpoch /\ now = 0 /\ now \in Time /\ scope \in Scopes /\ tx \in [Tx -> TxRecord]
  BY IdleTyped, ClientDomainsAssumption DEF Init, Unsigned, Time
<1>4. CASE Empty
  <2>1. Types
    BY <1>3, <1>4, ClientDomainsAssumption
    DEF Types, Empty, NoSecret, NoRequest, NoClaim, DomainRow, RequestRow, ClaimRow
  <2>2. RowsSound /\ Spending /\ Rotation
    BY <1>2, <1>4 DEF Empty, RowsSound, Spending, Rotation, Renews, NoSecret, NoRequest, NoClaim
  <2>3. Requests
    BY <1>4 DEF Empty, Requests, RequestsAreOrderly, OneOpenEach, IsOpen, IsRow, NoRequest, NoClaim
  <2>4. QED
    BY <1>1, <1>2, <2>1, <2>2, <2>3 DEF IInv, TablesSound
<1>5. ASSUME NEW r \in Request, NEW d \in Domain, NEW k \in Kid, Accepted(r, d, k)
      PROVE  IInv
  <2>0. d # None /\ 1 \in Secret /\ 1 \in Claim /\ now + ClaimLife \in Nat
    BY <1>3, ClientDomainsAssumption DEF Secret, Claim
  <2>1. Types
    <3>1. /\ sec \in [Secret -> DomainRow] /\ jwk \in [Kid -> DomainRow]
          /\ dom \in [Domain -> {"none", "active", "disabled"}]
          /\ map \in [Domain -> {"none", "off", "on"}]
      BY <1>5, ClientDomainsAssumption DEF Accepted, DomainRow, NoSecret
    <3>2. req \in [Request -> RequestRow]
      BY <1>5, ClientDomainsAssumption DEF Accepted, RequestRow, NoRequest
    <3>3. clm \in [Claim -> ClaimRow]
      BY <1>5, <2>0, ClientDomainsAssumption DEF Accepted, ClaimRow, NoClaim, NewClaim
    <3>4. accepted \subseteq Request \X Domain /\ drawn \in 0..MaxSecrets
      BY <1>5, <2>0, ClientDomainsAssumption DEF Accepted, Secret
    <3>5. QED
      BY <1>3, <3>1, <3>2, <3>3, <3>4 DEF Types
  <2>2. RowsSound
    <3>1. \A q \in Request : req[q].st # "none" => req[q].of \in Domain /\ req[q].kid \in Kid
      BY <1>5 DEF Accepted, NoRequest
    <3>2. \A c \in Claim : IF clm[c].st = "none" THEN clm[c].req = None
            ELSE clm[c].req \in Request /\ clm[c].s \in 1..drawn /\ req[clm[c].req].st # "none"
      <4>1. drawn = 1 /\ 1 \in 1..drawn /\ req[r].st # "none"
        BY <1>5 DEF Accepted
      <4>2. \A c \in Claim : IF c = 1 THEN /\ clm[c].st # "none" /\ clm[c].req = r /\ clm[c].s = 1
                                         ELSE clm[c].st = "none" /\ clm[c].req = None
        BY <1>5 DEF Accepted, NoClaim, NewClaim
      <4>3. QED
        BY <4>1, <4>2
    <3>3. \A s \in Secret : /\ sec[s].of # None => s = 1 /\ drawn = 1
                            /\ sec[s].active => sec[s].of # None
      BY <1>5, <2>0 DEF Accepted, NoSecret
    <3>4. \A i \in Kid : jwk[i].active => jwk[i].of \in Domain /\ Registered(jwk[i].of)
      BY <1>5 DEF Accepted, Registered
    <3>5. QED
      BY <3>1, <3>2, <3>3, <3>4 DEF RowsSound
  <2>3. Spending /\ Rotation
    BY <1>2, <1>5 DEF Accepted, Spending, Rotation, Renews, NoClaim, NewClaim
  <2>4. Requests
    <3>1. \A c \in Claim : IsRow(clm[c]) => c = 1 /\ clm[c].req = r
      BY <1>5 DEF Accepted, IsRow, NoClaim, NewClaim
    <3>2. req[r].st = "ACCEPTED" /\ req[r].of = d /\ dom[d] = "active" /\ accepted = {<<r, d>>}
      BY <1>5 DEF Accepted
    <3>3. \A q \in Request : q # r => req[q].st = "none"
      BY <1>5 DEF Accepted, NoRequest
    <3>4. QED
      BY <3>1, <3>2, <3>3
      DEF Requests, RequestsAreOrderly, OneOpenEach, IsOpen, IsRow, Registered, DomainOf
  <2>5. QED
    BY <1>1, <1>2, <2>1, <2>2, <2>3, <2>4 DEF IInv, TablesSound
<1>6. QED
  BY <1>4, <1>5 DEF Init

LEMMA NextKeepsInvariant == ASSUME IInv, [Next]_vars PROVE IInv'
<1>1. CASE Next
  <2>0. NamesKept
    BY <1>1, RowsKeepTheirNames
  <2>1. ASSUME NEW t \in Tx, Writes(t) PROVE Types' /\ Kept
    BY <2>0, <2>1, WritesKeepTypes, WriteRequestKeeps, CommitAcceptKeeps, CommitDeclineKeeps,
       CommitReplaceKeeps, CommitClaimKeeps, CommitExchangeKeeps DEF Writes
  <2>2. ASSUME Administers \/ Passes PROVE Types' /\ Kept
    BY <2>0, <2>2, OthersKeepTypes, DeleteRequestKeeps, DomainsKeep, KeysKeep, UpkeepKeeps,
       PassesKeep DEF Administers
  <2>3. Types' /\ Kept => IInv'
    <3> SUFFICES ASSUME Types', Kept PROVE IInv'
      OBVIOUS
    <3>1. \A u \in Tx : Stands(tx[u])'
      BY <2>0, StandsStill DEF Kept
    <3>2. Apart'
      BY ApartStill DEF Kept, Undisturbed, IInv
    <3>3. QED
      BY <3>1, <3>2 DEF Kept, IInv
  <2>4. QED
    BY <1>1, <2>1, <2>2, <2>3, KindsOfSteps, GoesKeeps
<1>2. CASE UNCHANGED vars
  <2>1. Types' /\ TablesSound'
    BY <1>2, Untouched DEF IInv, Types, TablesSound, vars, tables, others, history
  <2>2. Apart' /\ \A t \in Tx : Stands(tx[t])'
    BY <1>2 DEF IInv, Apart, Collide, Stands, Takes, Decides, Locked, Registered, DomainOf,
                UseExpires, vars, tables, others, history
  <2>3. QED
    BY <2>1, <2>2 DEF IInv
<1>3. QED
  BY <1>1, <1>2

LEMMA InvariantHolds == Spec => []IInv
<1>1. Init => IInv
  BY Initially
<1>2. IInv /\ [Next]_vars => IInv'
  BY NextKeepsInvariant
<1>3. QED
  BY <1>1, <1>2, PTL DEF Spec

(* Every variable has its type; a used claim holds its secret no longer    *)
(* and showed it once at most; a usable key has a registered domain.       *)
THEOREM TypeCorrect == Spec => []TypeOK
<1>1. IInv => TypeOK
  BY DEF IInv, Types, TablesSound, RowsSound, Spending, TypeOK
<1>2. QED
  BY <1>1, InvariantHolds, PTL

(* However discovery, decisions and deletions interleave: one open request *)
(* per domain, one ever accepted, and no claim without such a request      *)
(* (integration-request.service.ts:172, the index, the policy lock).       *)
THEOREM RequestsStayOrderly == Spec => []RequestsAreOrderly
<1>1. IInv => RequestsAreOrderly
  BY DEF IInv, TablesSound, Requests
<1>2. QED
  BY <1>1, InvariantHolds, PTL

----------------------------------------------------------------------------
(* What the steps may do.                                                  *)

(* Only consuming a claim shows a secret, and only it retires one; only an *)
(* exchange issues.                                                        *)
LEMMA WhoActs ==
  ASSUME IInv, Next
  PROVE  /\ \/ \E t \in Tx : CommitClaim(t)
            \/ shown' = shown /\ \A d \in Domain : ActiveSecrets(d) \subseteq ActiveSecrets(d)'
         /\ (\E t \in Tx : CommitExchange(t)) \/ bought' = bought
<1>0. Types /\ NamesKept
  BY RowsKeepTheirNames DEF IInv
<1>1. sec' = sec => \A d \in Domain : ActiveSecrets(d) \subseteq ActiveSecrets(d)'
  BY DEF ActiveSecrets, SecretsOf
<1>2. ASSUME NEW s \in Secret, NEW d \in Domain, sec' = [sec EXCEPT ![s] = [of |-> d, active |-> TRUE]]
      PROVE  \A e \in Domain : ActiveSecrets(e) \subseteq ActiveSecrets(e)'
  <2>1. \A q \in Secret : sec'[q] = sec[q] \/ sec'[q].active
    BY <1>0, <1>2 DEF Types
  <2>2. \A q \in Secret : sec[q].of # None => sec'[q].of = sec[q].of
    BY <1>0 DEF NamesKept
  <2>3. QED
    BY <2>1, <2>2, ClientDomainsAssumption DEF ActiveSecrets, SecretsOf
<1>3. ASSUME NEW t \in Tx, Writes(t)
      PROVE  /\ \/ CommitClaim(t)
                \/ shown' = shown /\ \A d \in Domain : ActiveSecrets(d) \subseteq ActiveSecrets(d)'
             /\ CommitExchange(t) \/ bought' = bought
  <2>1. CASE CommitAccept(t)
    <3>1. tx[t].d \in Domain
      BY <2>1 DEF IInv, TablesSound, RowsSound, Stands, Decides, CommitAccept
    <3>2. QED
      BY <1>2, <2>1, <3>1 DEF CommitAccept
  <2>2. CASE WriteRequest(t) \/ CommitDecline(t) \/ CommitReplace(t) \/ CommitExchange(t)
    BY <1>1, <2>2 DEF WriteRequest, CommitDecline, CommitReplace, CommitExchange, history
  <2>3. CASE CommitClaim(t)
    BY <2>3 DEF CommitClaim
  <2>4. QED
    BY <1>3, <2>1, <2>2, <2>3 DEF Writes
<1>4. ASSUME Administers
      PROVE  /\ shown' = shown /\ bought' = bought
             /\ \A d \in Domain : ActiveSecrets(d) \subseteq ActiveSecrets(d)'
  <2>1. shown' = shown /\ bought' = bought
    BY <1>4 DEF Administers, DeleteRequest, DirectRotate, CreateDomain, UpdateDomain, AddJwk,
                ChangeMapping, DeactivateJwk, SweepClaims, PruneUses, history
  <2>2. \/ sec' = sec
        \/ \E s \in Secret, d \in Domain : sec' = [sec EXCEPT ![s] = [of |-> d, active |-> TRUE]]
    BY <1>4 DEF Administers, DeleteRequest, DirectRotate, CreateDomain, UpdateDomain, AddJwk,
                ChangeMapping, DeactivateJwk, SweepClaims, PruneUses
  <2>3. QED
    BY <1>1, <1>2, <2>1, <2>2
<1>5. ASSUME Passes \/ \E t \in Tx, new \in TxRecord : Goes(t, new)
      PROVE  sec' = sec /\ shown' = shown /\ bought' = bought
  BY <1>5 DEF Passes, SignAssertion, ResetUser, Tick, Goes, Quiet, tables, history
<1>6. QED
  BY <1>1, <1>3, <1>4, <1>5, KindsOfSteps

Shows ==
  /\ \A c \in Claim : SpendsOnce(c)
  /\ \A d \in Domain : ActiveSecrets(d) \subseteq ActiveSecrets(d)'
                         \/ \E c \in Claim : Replaces(c, d)
Follows ==
  \A j \in Assertion : bought'[j] # bought[j] =>
    /\ bought[j] = 0 \/ \E t \in Tx : InsertsLate(t, j) /\ tx'[t] # tx[t]
    /\ dom[asr[j].of] = "active" /\ asr[j].tv = epoch

(* A claim shows its secret once at most, not after it was replaced, and   *)
(* secrets are retired only for one that works from then on                *)
(* (integration-claim.service.ts:203): whoever else took a claim took      *)
(* another one, and a rotation's own secret is not in use before.          *)
THEOREM ClaimsShowOnce == Spec => ClaimsAreSpentOnce
<1>1. ASSUME IInv, NEW t \in Tx, CommitClaim(t)
      PROVE  Shows
  <2> DEFINE x == tx[t]
  <2>0. /\ Types /\ Takes(x) /\ x.c \in Claim /\ clm[x.c].st = "unused" /\ shown[x.c] = 0
        /\ x.s = clm[x.c].s /\ x.s \in Secret
        /\ \A s \in Secret : s \in x.seen => sec[s].of = DomainOf(x.c)
    <3>1. Types /\ Stands(x) /\ Takes(x) /\ TablesSound /\ drawn \in 0..MaxSecrets
      BY <1>1 DEF IInv, Types, CommitClaim, Takes
    <3>2. x.c \in Claim /\ clm[x.c].st = "unused" /\ x.s = clm[x.c].s
      BY <3>1 DEF Stands, Takes
    <3>3. shown[x.c] = 0 /\ x.s \in 1..drawn
      BY <3>1, <3>2 DEF TablesSound, Spending, RowsSound
    <3>4. QED
      BY <3>1, <3>2, <3>3, ClientDomainsAssumption DEF Stands, Secret
  <2>1. /\ shown' \in {shown, [shown EXCEPT ![x.c] = @ + 1]} /\ clm' = Spent(x.c)
        /\ sec' = IF clm[x.c].rot THEN RetireThenAdd(x) ELSE sec
    BY <1>1 DEF CommitClaim
  <2>2. /\ clm'[x.c].st = "used"
        /\ \A b \in Claim : b # x.c => shown'[b] = shown[b]
    BY <2>0, <2>1 DEF Spent, Types, ClaimRow
  <2>3. \A c \in Claim : SpendsOnce(c)
    BY <2>0, <2>2 DEF SpendsOnce
  <2>4. ASSUME NEW d \in Domain, ~(ActiveSecrets(d) \subseteq ActiveSecrets(d)')
        PROVE  Replaces(x.c, d)
    <3>1. PICK s \in Secret : /\ sec[s].of = d /\ sec[s].active
                             /\ ~(sec'[s].of = d /\ sec'[s].active)
      BY <2>4 DEF ActiveSecrets, SecretsOf
    <3>2. clm[x.c].rot /\ sec' = RetireThenAdd(x)
      BY <2>1, <3>1
    <3>3. sec[x.s].of = None /\ d # None
      BY <1>1, <2>0, <3>2, ClientDomainsAssumption DEF IInv, TablesSound, Rotation, Renews
    <3>4. s # x.s /\ s \in x.seen
      BY <3>1, <3>2, <3>3 DEF RetireThenAdd
    <3>5. DomainOf(x.c) = d /\ sec'[x.s] = [of |-> d, active |-> TRUE]
      BY <2>0, <3>1, <3>2, <3>4 DEF RetireThenAdd
    <3>6. x.s \in ActiveSecrets(d)' \ ActiveSecrets(d)
      BY <2>0, <3>3, <3>5 DEF ActiveSecrets, SecretsOf
    <3>7. QED
      BY <2>0, <2>2, <3>2, <3>6 DEF Replaces
  <2>5. QED
    BY <2>0, <2>3, <2>4 DEF Shows
<1>2. IInv /\ [Next]_vars => [Shows]_vars
  BY <1>1, WhoActs DEF SpendsOnce, Shows
<1>3. Spec => [][Shows]_vars
  BY <1>2, InvariantHolds, PTL DEF Spec
<1>4. QED
  BY <1>3 DEF ClaimsAreSpentOnce, Shows

(* Who issues found no record of an earlier use, which there is until it   *)
(* expires, long after the assertion; and it holds policy and user.        *)
LEMMA IssuesInTime ==
  ASSUME IInv, NEW t \in Tx, CommitExchange(t), NEW j \in Assertion, bought'[j] # bought[j]
  PROVE  /\ bought[j] = 0 \/ (InsertsLate(t, j) /\ tx'[t] # tx[t])
         /\ dom[asr[j].of] = "active" /\ asr[j].tv = epoch
<1> DEFINE x == tx[t]
<1>1. /\ Types /\ Uses /\ Locked(x) /\ x.j \in Assertion /\ asr[x.j].of = x.d
      /\ dom[x.d] = "active" /\ asr[x.j].tv = epoch /\ x.at < UseExpires(x.j)
  BY DEF IInv, TablesSound, CommitExchange, Stands, Locked
<1>2. use[x.j] <= x.at /\ bought' = [bought EXCEPT ![x.j] = @ + 1] /\ End(t)
  BY <1>1 DEF CommitExchange, FirstUse
<1>3. x.j = j
  BY <1>1, <1>2 DEF Types
<1>4. bought[j] = 0 \/ UseExpires(j) <= now
  <2>1. bought[j] \in Nat /\ UseExpires(j) \in Int /\ x.at \in Int
    BY <1>1, ClientDomainsAssumption DEF Types, UseExpires, Time, TxRecord
  <2>2. QED
    BY <1>1, <1>2, <1>3, <2>1 DEF Uses
<1>5. tx'[t] # tx[t]
  BY <1>1, <1>2, EndTyped DEF Locked, Idle
<1>6. QED
  BY <1>1, <1>3, <1>4, <1>5 DEF InsertsLate, Locked

(* However often an assertion is presented and whenever its record is      *)
(* pruned: one exchange alone inserts its use in time, and every token is  *)
(* issued for an enabled domain under the epoch the assertion was signed   *)
(* in (confidential-assertion-use.service.ts:76, the locks).               *)
THEOREM ExchangesAreGoverned == Spec => ExchangesFollowPolicy
<1>1. ASSUME IInv, NEW t \in Tx, CommitExchange(t)
      PROVE  Follows
  BY <1>1, IssuesInTime DEF Follows
<1>2. IInv /\ [Next]_vars => [Follows]_vars
  BY <1>1, WhoActs DEF Follows
<1>3. Spec => [][Follows]_vars
  BY <1>2, InvariantHolds, PTL DEF Spec
<1>4. QED
  BY <1>3 DEF ExchangesFollowPolicy, Follows

(* No exchange is about to insert late.                                    *)
InsertsInTime == \A t \in Tx, j \in Assertion : ~InsertsLate(t, j)

(* "one-time use" fails through late inserts and nothing else: an          *)
(* assertion buys one token in every behaviour in which no exchange waits  *)
(* for its insert past the expiry of the record (LateInsert.cfg).          *)
THEOREM OnlyLateInsertsBuyTwice == Spec /\ []InsertsInTime => []AssertionsAreSingleUse
<1>1. Init => AssertionsAreSingleUse
  BY DEF Init, AssertionsAreSingleUse
<1>2. IInv /\ AssertionsAreSingleUse /\ InsertsInTime /\ [Next]_vars => AssertionsAreSingleUse'
  <2> SUFFICES ASSUME IInv, AssertionsAreSingleUse, InsertsInTime, [Next]_vars, NEW j \in Assertion
               PROVE  bought'[j] <= 1
    BY DEF AssertionsAreSingleUse
  <2>1. CASE \E t \in Tx : CommitExchange(t)
    <3>1. PICK t \in Tx : CommitExchange(t)
      BY <2>1
    <3>2. bought'[j] # bought[j] => bought[j] = 0
      BY <3>1, IssuesInTime DEF InsertsInTime
    <3>3. bought' = [bought EXCEPT ![tx[t].j] = @ + 1]
      BY <3>1 DEF CommitExchange
    <3>4. QED
      BY <3>2, <3>3 DEF AssertionsAreSingleUse, IInv, Types
  <2>2. CASE ~\E t \in Tx : CommitExchange(t)
    <3>1. bought' = bought
      BY <2>2, WhoActs DEF vars, history
    <3>2. QED
      BY <3>1 DEF AssertionsAreSingleUse
  <2>3. QED
    BY <2>1, <2>2
<1>3. QED
  BY <1>1, <1>2, InvariantHolds, PTL DEF Spec

----------------------------------------------------------------------------
(* Three sentences of the source are true but for one race each: what a    *)
(* transaction read when it began is still so when it commits, unless      *)
(* another one about the same request was on its way at the same time.     *)
(* Each theorem names the race it excludes, and leaves all else to         *)
(* interleave: discovery, acceptance, deletion, expiry, crashes, and       *)
(* transactions about other requests.                                      *)

Replacing(x) == x.op \in {"resend", "rotate"}

(* Nobody accepts a request while somebody declines it. *)
DecisionsApart ==
  \A s, t \in Tx : tx[s].op = "accept" /\ tx[t].op = "decline" => tx[s].r # tx[t].r

(* No two replace the links of one request. *)
ReplacementsApart ==
  \A s, t \in Tx : s # t /\ Replacing(tx[s]) /\ Replacing(tx[t]) => tx[s].r # tx[t].r

(* Nobody resends a link of a request while somebody else replaces one, or *)
(* opens one.                                                              *)
ResendsApart ==
  \A s, t \in Tx : s # t /\ tx[s].op = "resend" =>
    /\ Replacing(tx[t]) => tx[t].r # tx[s].r
    /\ tx[t].op = "claim" => clm[tx[t].c].req # tx[s].r

(* A link that holds a secret someone may still see, or has seen.          *)
Carries(c) == clm[c].st = "unused" \/ shown[c] > 0

(* What a transaction on its way still knows: a request to be accepted is  *)
(* pending, and one to be declined was not accepted; all links to be       *)
(* replaced are marked; and the secret to be wrapped again is one of this  *)
(* request's, and no link carries it but those to be replaced.             *)
Undecided(x) ==
  /\ x.op = "accept" => req[x.r].st = "PENDING"
  /\ x.op = "decline" => req[x.r].st \in {"PENDING", "DECLINED", "gone"}
Marked(x) == Replacing(x) /\ x.pc = "deleted" => Unused(x.r) \subseteq x.seen
Wraps(x) ==
  x.op = "resend" =>
    /\ \E c \in Claim : clm[c].st # "none" /\ clm[c].s = x.s /\ clm[c].req = x.r
    /\ \A c \in Claim : Carries(c) /\ clm[c].s = x.s => c \in Unused(x.r)

(* One link carries a secret, and all that ever did are of one request.    *)
SoleCarriers ==
  /\ \A a, b \in Claim : Carries(a) /\ Carries(b) /\ clm[a].s = clm[b].s => a = b
  /\ \A a, b \in Claim :
       clm[a].st # "none" /\ clm[b].st # "none" /\ clm[a].s = clm[b].s => clm[a].req = clm[b].req

AllUndecided == \A t \in Tx : Undecided(tx[t])
LinksInOrder == OneLinkInFlight /\ \A t \in Tx : Marked(tx[t])
SecretsInOrder ==
  SoleCarriers /\ \A t \in Tx : Wraps(tx[t]) /\ (tx[t].op = "resend" => Marked(tx[t]))

Decided == \A r \in Request : req[r].st \in {"ACCEPTED", "DECLINED"} =>
                                req'[r].st \in {req[r].st, "gone"}

(* A link on its way was not opened, and belongs to a request that was     *)
(* accepted, which none is that is about to be.                            *)
LEMMA LinksAreAccepted ==
  ASSUME IInv, NEW c \in Claim, clm[c].st = "unused"
  PROVE  /\ clm[c].req \in Request /\ shown[c] = 0
         /\ \A t \in Tx : tx[t].op = "accept" => clm[c].req # tx[t].r
<1>1. IsRow(clm[c]) /\ shown[c] = 0 /\ clm[c].req \in Request
  BY DEF IsRow, IInv, TablesSound, Spending, RowsSound
<1>2. Registered(req[clm[c].req].of)
  BY <1>1 DEF IInv, TablesSound, Requests, RequestsAreOrderly, DomainOf
<1>3. ASSUME NEW t \in Tx, tx[t].op = "accept" PROVE ~Registered(req[tx[t].r].of)
  BY <1>3 DEF IInv, Stands, Decides
<1>4. QED
  BY <1>1, <1>2, <1>3

(* Nor is a link of such a request being replaced.                         *)
LEMMA ReplacedAreAccepted ==
  ASSUME IInv, NEW t \in Tx, tx[t].op = "accept", NEW u \in Tx, Replacing(tx[u])
  PROVE  tx[u].r # tx[t].r
<1>1. <<tx[u].r, req[tx[u].r].of>> \in accepted
  BY DEF IInv, Stands, Replacing
<1>2. Registered(req[tx[u].r].of)
  BY <1>1 DEF IInv, TablesSound, Requests
<1>3. ~Registered(req[tx[t].r].of)
  BY DEF IInv, Stands, Decides
<1>4. QED
  BY <1>2, <1>3

(* What a step that only reads adds to that.                               *)
Knows(t, x) ==
  /\ Undecided(tx[t]) => Undecided(x)
  /\ Marked(x)
  /\ SoleCarriers /\ Wraps(tx[t]) => Wraps(x)

(* What is begun, or goes on, knows what it needs. *)
LEMMA BeginsKnow ==
  ASSUME IInv, NEW t \in Tx, Step(t)
  PROVE  Writes(t) \/ (Quiet /\ \E x : tx' = [tx EXCEPT ![t] = x] /\ Knows(t, x))
<1> DEFINE Goal == Quiet /\ \E x : tx' = [tx EXCEPT ![t] = x] /\ Knows(t, x)
<1>0. tx[t] \in TxRecord
  BY DEF IInv, Types
<1>1. ASSUME NEW x, x.op \notin {"accept", "decline", "resend", "rotate"}
      PROVE  Knows(t, x)
  BY <1>1 DEF Knows, Undecided, Marked, Wraps, Replacing
<1>2. ASSUME NEW d \in Domain, NEW k \in Kid, BeginDiscover(t, d, k)
      PROVE  Goal
  <2> DEFINE x == [Idle EXCEPT !.op = "discover", !.pc = "fetch", !.d = d, !.k = k]
  <2>1. Begin(t, "discover", x) /\ x.op = "discover"
    BY <1>2 DEF BeginDiscover, Idle
  <2> HIDE DEF x
  <2>2. QED
    BY <1>1, <2>1 DEF Begin, Quiet
<1>3. ASSUME NEW r \in Request, BeginAccept(t, r)
      PROVE  Goal
  <2> DEFINE x == [Idle EXCEPT !.op = "accept", !.pc = "read", !.r = r,
                               !.d = req[r].of, !.k = req[r].kid]
  <2>1. Begin(t, "accept", x) /\ req[r].st = "PENDING"
    BY <1>3 DEF BeginAccept
  <2>2. x.op = "accept" /\ x.r = r
    BY DEF Idle
  <2> HIDE DEF x
  <2>3. Knows(t, x)
    BY <2>1, <2>2 DEF Knows, Undecided, Marked, Wraps, Replacing
  <2>4. QED
    BY <2>1, <2>3 DEF Begin, Quiet
<1>4. ASSUME NEW r \in Request, BeginDecline(t, r)
       PROVE  Goal
  <2> DEFINE x == [Idle EXCEPT !.op = "decline", !.pc = "read", !.r = r]
  <2>1. Begin(t, "decline", x) /\ req[r].st = "PENDING"
    BY <1>4 DEF BeginDecline
  <2>2. x.op = "decline" /\ x.r = r
    BY DEF Idle
  <2> HIDE DEF x
  <2>3. Knows(t, x)
    BY <2>1, <2>2 DEF Knows, Undecided, Marked, Wraps, Replacing
  <2>4. QED
    BY <2>1, <2>3 DEF Begin, Quiet
<1>5. ASSUME NEW r \in Request, BeginResend(t, r)
      PROVE  Goal
  <2>1. PICK c \in Claim : /\ c \in Unused(r)
                           /\ Begin(t, "resend", [Idle EXCEPT !.op = "resend", !.pc = "read",
                                                              !.r = r, !.s = clm[c].s])
    BY <1>5 DEF BeginResend, Unused
  <2> DEFINE x == [Idle EXCEPT !.op = "resend", !.pc = "read", !.r = r, !.s = clm[c].s]
  <2>2. Begin(t, "resend", x) /\ x.op = "resend" /\ x.pc = "read" /\ x.r = r /\ x.s = clm[c].s
    BY <2>1 DEF Idle
  <2> HIDE DEF x
  <2>3. c \in Unused(r) /\ Carries(c)
    BY <2>1 DEF Unused, Carries
  <2>4. clm[c].st # "none" /\ clm[c].s = x.s /\ clm[c].req = x.r
    BY <2>2, <2>3 DEF Unused
  <2>5. SoleCarriers => \A b \in Claim : Carries(b) /\ clm[b].s = x.s => b \in Unused(x.r)
    BY <2>2, <2>3, <2>4 DEF SoleCarriers
  <2>6. Knows(t, x)
    BY <2>2, <2>4, <2>5 DEF Knows, Undecided, Marked, Wraps
  <2>7. QED
    BY <2>2, <2>6 DEF Begin, Quiet
<1>6. ASSUME NEW r \in Request, BeginRotate(t, r)
      PROVE  Goal
  <2> DEFINE x == [Idle EXCEPT !.op = "rotate", !.pc = "read", !.r = r]
  <2>1. Begin(t, "rotate", x) /\ x.op = "rotate" /\ x.pc = "read"
    BY <1>6 DEF BeginRotate, Idle
  <2> HIDE DEF x
  <2>2. Knows(t, x)
    BY <2>1 DEF Knows, Undecided, Marked, Wraps, Replacing
  <2>3. QED
    BY <2>1, <2>2 DEF Begin, Quiet
<1>7. ASSUME DeleteUnused(t)
      PROVE  Goal
  <2> DEFINE x == [tx[t] EXCEPT !.pc = "deleted", !.seen = Unused(tx[t].r)]
  <2>1. Move(t, x) /\ tx[t].op \in {"resend", "rotate"}
    BY <1>7 DEF DeleteUnused
  <2>2. x.op = tx[t].op /\ x.r = tx[t].r /\ x.s = tx[t].s /\ x.seen = Unused(x.r)
    BY <1>0 DEF TxRecord
  <2> HIDE DEF x
  <2>3. Knows(t, x)
    BY <2>1, <2>2 DEF Knows, Undecided, Marked, Wraps, Replacing
  <2>4. QED
    BY <2>1, <2>3 DEF Move, Quiet
<1>8. ASSUME NEW x, Move(t, x), x = Idle \/ (x.op = tx[t].op /\ x.op \in {"discover", "claim", "exchange"})
      PROVE  Goal
  <2>1. x.op \notin {"accept", "decline", "resend", "rotate"}
    BY <1>8 DEF Idle
  <2>2. Knows(t, x)
    BY <1>1, <2>1
  <2>3. QED
    BY <1>8, <2>2 DEF Move, Quiet
<1>9. ASSUME LookPending(t) \/ TakeClaim(t) \/ LockExchange(t) \/ Crash(t)
      PROVE  Goal
  <2>1. \A pc, r : LET x == [tx[t] EXCEPT !.pc = pc, !.r = r] IN x.op = tx[t].op
    BY <1>0 DEF TxRecord
  <2>2. \A pc, seen : LET x == [tx[t] EXCEPT !.pc = pc, !.seen = seen] IN x.op = tx[t].op
    BY <1>0 DEF TxRecord
  <2>3. \A pc, at : LET x == [tx[t] EXCEPT !.pc = pc, !.at = at] IN x.op = tx[t].op
    BY <1>0 DEF TxRecord
  <2>4. LookPending(t) => Goal
    BY <1>8, <2>1 DEF LookPending
  <2>5. TakeClaim(t) => Goal
    BY <1>8, <2>2 DEF TakeClaim
  <2>6. LockExchange(t) => Goal
    BY <1>8, <2>3 DEF LockExchange
  <2>7. Crash(t) => Goal
    BY <1>8 DEF Crash, Abort
  <2>8. QED
    BY <1>9, <2>4, <2>5, <2>6, <2>7
<1>10. ASSUME NEW c \in Claim, BeginClaim(t, c)
      PROVE  Goal
  <2> DEFINE x == [Idle EXCEPT !.op = "claim", !.pc = "read", !.c = c, !.s = clm[c].s]
  <2>1. Begin(t, "claim", x) /\ x.op = "claim"
    BY <1>10 DEF BeginClaim, Idle
  <2> HIDE DEF x
  <2>2. QED
    BY <1>1, <2>1 DEF Begin, Quiet
<1>11. ASSUME NEW j \in Assertion, BeginExchange(t, j)
       PROVE  Goal
  <2> DEFINE x == [Idle EXCEPT !.op = "exchange", !.pc = "verified", !.d = asr[j].of, !.j = j]
  <2>1. Begin(t, "exchange", x) /\ x.op = "exchange"
    BY <1>11 DEF BeginExchange, Idle
  <2> HIDE DEF x
  <2>2. QED
    BY <1>1, <2>1 DEF Begin, Quiet
<1> HIDE DEF Goal
<1>12. Writes(t) \/ Goal
  BY <1>2, <1>3, <1>4, <1>5, <1>6, <1>7, <1>9, <1>10, <1>11 DEF Step, Writes
<1>13. QED
  BY <1>12 DEF Goal

(* Links at most go away, requests keep their state or go away.            *)
Fewer ==
  /\ accepted' = accepted /\ shown' = shown
  /\ \A r \in Request : req'[r].st = req[r].st
                        \/ (req[r].st \notin {"none", "PENDING"} /\ req'[r].st = "gone")
  /\ \A c \in Claim : /\ clm'[c].st = clm[c].st \/ (clm[c].st # "none" /\ clm'[c].st = "gone")
                      /\ clm'[c].req = clm[c].req /\ clm'[c].s = clm[c].s

(* All but the transactions that write requests and links do no more.      *)
LEMMA OthersAreFewer ==
  ASSUME IInv, Administers \/ Passes \/ Quiet \/ UNCHANGED vars
         \/ \E t \in Tx : CommitExchange(t)
  PROVE  Fewer
<1>0. Types
  BY DEF IInv
<1>1. ASSUME UNCHANGED <<req, clm, accepted, shown>> PROVE Fewer
  BY <1>1 DEF Fewer
<1>2. ASSUME NEW r \in Request, DeleteRequest(r) PROVE Fewer
  <2>1. \A q \in Request : req'[q].st = IF q = r THEN "gone" ELSE req[q].st
    BY <1>0, <1>2 DEF DeleteRequest, Types, RequestRow
  <2>2. \A c \in Claim : \/ clm'[c] = clm[c]
                         \/ clm[c].req = r /\ clm'[c] = [clm[c] EXCEPT !.st = "gone"]
    BY <1>2 DEF DeleteRequest, Cascade
  <2>3. \A c \in Claim :
          /\ clm'[c].st = clm[c].st \/ (clm[c].st # "none" /\ clm'[c].st = "gone")
          /\ clm'[c].req = clm[c].req /\ clm'[c].s = clm[c].s
    <3> TAKE c \in Claim
    <3>1. clm[c] \in ClaimRow
      BY <1>0 DEF Types
    <3>2. clm[c].st = "none" => clm[c].req # r
      BY ClientDomainsAssumption DEF IInv, TablesSound, RowsSound
    <3>3. QED
      BY <2>2, <3>1, <3>2 DEF ClaimRow
  <2>4. QED
    BY <1>2, <2>1, <2>3 DEF DeleteRequest, IsRow, Fewer, history
<1>3. ASSUME SweepClaims PROVE Fewer
  <2>1. \A c \in Claim : clm'[c] = clm[c] \/ clm'[c] = [clm[c] EXCEPT !.blob = FALSE]
    BY <1>3 DEF SweepClaims
  <2>2. \A c \in Claim : /\ clm'[c].st = clm[c].st /\ clm'[c].req = clm[c].req
                         /\ clm'[c].s = clm[c].s
    <3> TAKE c \in Claim
    <3>1. clm[c] \in ClaimRow
      BY <1>0 DEF Types
    <3>2. QED
      BY <2>1, <3>1 DEF ClaimRow
  <2>3. QED
    BY <1>3, <2>2 DEF SweepClaims, Fewer, history
<1>4. ASSUME Passes \/ Quiet \/ UNCHANGED vars PROVE Fewer
  BY <1>1, <1>4 DEF Passes, SignAssertion, ResetUser, Tick, Quiet, tables, history, vars
<1>5. ASSUME NEW t \in Tx, CommitExchange(t) PROVE Fewer
  BY <1>1, <1>5 DEF CommitExchange
<1>6. ASSUME Administers PROVE Fewer
  <2>1. ASSUME NEW d \in Domain,
               \/ DirectRotate(d) \/ CreateDomain(d)
               \/ \E status \in {"active", "disabled"} : UpdateDomain(d, status)
               \/ \E k \in Kid : AddJwk(d, k)
               \/ \E m \in {"none", "off", "on"} : ChangeMapping(d, m)
        PROVE  Fewer
    BY <1>1, <2>1 DEF DirectRotate, CreateDomain, UpdateDomain, AddJwk, ChangeMapping, history
  <2>2. ASSUME PruneUses \/ \E k \in Kid : DeactivateJwk(k)
        PROVE  Fewer
    BY <1>1, <2>2 DEF PruneUses, DeactivateJwk, history
  <2>3. QED
    BY <1>2, <1>3, <1>6, <2>1, <2>2 DEF Administers
<1>7. QED
  BY <1>4, <1>5, <1>6

(* A step is one that writes, and then ends its transaction; or it does no *)
(* more than that, and moves nobody but on to what he knows.               *)
LEMMA WhoMoves ==
  ASSUME IInv, [Next]_vars
  PROVE  \/ \E t \in Tx : Writes(t) /\ \A u \in Tx : tx'[u] = IF u = t THEN Idle ELSE tx[u]
         \/ Fewer /\ \A u \in Tx : tx'[u] = tx[u] \/ (Quiet /\ Knows(u, tx'[u]))
<1>0. Types
  BY DEF IInv
<1>1. ASSUME NEW t \in Tx, Writes(t)
      PROVE  \A u \in Tx : tx'[u] = IF u = t THEN Idle ELSE tx[u]
  <2>1. End(t)
    BY <1>1 DEF Writes, WriteRequest, CommitAccept, CommitDecline, CommitReplace, CommitClaim,
                CommitExchange
  <2>2. QED
    BY <1>0, <2>1, EndTyped
<1>2. ASSUME NEW t \in Tx, Quiet, NEW x, tx' = [tx EXCEPT ![t] = x], Knows(t, x)
      PROVE  Fewer /\ \A u \in Tx : tx'[u] = tx[u] \/ (Quiet /\ Knows(u, tx'[u]))
  <2>1. tx'[t] = x /\ \A u \in Tx : u # t => tx'[u] = tx[u]
    BY <1>0, <1>2 DEF Types
  <2>2. QED
    BY <1>2, <2>1, OthersAreFewer
<1>3. ASSUME Administers \/ Passes \/ UNCHANGED vars
      PROVE  Fewer /\ tx' = tx
  <2>1. tx' = tx
    BY <1>3 DEF Administers, Passes, DeleteRequest, DirectRotate, CreateDomain, UpdateDomain, AddJwk,
                ChangeMapping, DeactivateJwk, SweepClaims, PruneUses, SignAssertion, ResetUser, Tick,
                Alone, vars
  <2>2. QED
    BY <1>3, <2>1, OthersAreFewer
<1>4. (\E t \in Tx : Step(t)) \/ Administers \/ Passes \/ UNCHANGED vars
  BY DEF Next, Administers, Passes
<1>5. ASSUME NEW t \in Tx, Step(t)
      PROVE  \/ Writes(t)
             \/ Fewer /\ \A u \in Tx : tx'[u] = tx[u] \/ (Quiet /\ Knows(u, tx'[u]))
  BY <1>2, <1>5, BeginsKnow
<1>6. QED
  BY <1>1, <1>3, <1>4, <1>5

(* Discovery touches no request that was decided. *)
LEMMA DiscoveryDecidesNothing ==
  ASSUME IInv, NEW t \in Tx, WriteRequest(t), NEW r \in Request, req[r].st # "none"
  PROVE  req'[r].st = req[r].st
<1>0. Types
  BY DEF IInv
<1>1. CASE tx[t].r # None /\ req' = UpdateFound(t)
  <2>1. tx[t].r \in Request
    BY <1>0, <1>1 DEF Types, TxRecord
  <2>2. QED
    BY <1>0, <1>1, <2>1 DEF UpdateFound, Types, RequestRow
<1>2. CASE \E q \in Request : req[q].st = "none" /\
             req' = IF OneOpenEach(CreateRow(t, q)) THEN CreateRow(t, q) ELSE req
  <2>1. PICK q \in Request : req[q].st = "none" /\ (req' = CreateRow(t, q) \/ req' = req)
    BY <1>2
  <2>2. QED
    BY <1>0, <2>1 DEF CreateRow, Types
<1>3. QED
  BY <1>1, <1>2 DEF WriteRequest

----------------------------------------------------------------------------
(* Decisions.                                                              *)

(* What one connection writes leaves the others their undecided requests.  *)
LEMMA WritersDecide ==
  ASSUME IInv, DecisionsApart, AllUndecided, NEW t \in Tx, Writes(t)
  PROVE  /\ Decided
         /\ \A u \in Tx : u # t => (Undecided(tx[u])' \/ tx'[u] # tx[u])
<1> DEFINE Held(x) ==
      /\ x.op = "accept" => req'[x.r].st = "PENDING"
      /\ x.op = "decline" => req'[x.r].st \in {"PENDING", "DECLINED", "gone"}
<1>0. Types /\ \A u \in Tx : tx[u].op \in {"accept", "decline"} =>
                               tx[u].r \in Request /\ req[tx[u].r].st # "none"
  BY DEF IInv, Stands
<1>1. ASSUME WriteRequest(t) PROVE Decided /\ \A u \in Tx : Held(tx[u])
  <2>1. \A r \in Request : req[r].st # "none" => req'[r].st = req[r].st
    BY <1>1, DiscoveryDecidesNothing
  <2>2. QED
    BY <1>0, <2>1 DEF Decided, AllUndecided, Undecided
<1>2. ASSUME CommitAccept(t) PROVE Decided /\ \A u \in Tx : u # t => Held(tx[u])
  <2>1. /\ tx[t].op = "accept" /\ tx[t].r \in Request /\ req[tx[t].r].st = "PENDING"
        /\ req' = [req EXCEPT ![tx[t].r].st = "ACCEPTED"]
    BY <1>0, <1>2 DEF CommitAccept, AllUndecided, Undecided
  <2>2. \A r \in Request : r # tx[t].r => req'[r].st = req[r].st
    BY <1>0, <2>1 DEF Types
  <2>3. \A u \in Tx : u # t => tx[u].op # "accept"
    BY <2>1 DEF IInv, Apart, Collide, Decides
  <2>4. \A u \in Tx : tx[u].op = "decline" => tx[u].r # tx[t].r
    BY <2>1 DEF DecisionsApart
  <2>5. Decided
    BY <2>1, <2>2 DEF Decided
  <2>6. QED
    BY <1>0, <2>2, <2>3, <2>4, <2>5 DEF AllUndecided, Undecided
<1>3. ASSUME CommitDecline(t) PROVE Decided /\ \A u \in Tx : Held(tx[u])
  <2>1. /\ tx[t].op = "decline" /\ tx[t].r \in Request
        /\ req[tx[t].r].st \in {"PENDING", "DECLINED"}
        /\ req' = req \/ req' = [req EXCEPT ![tx[t].r].st = "DECLINED"]
    BY <1>0, <1>3 DEF CommitDecline, AllUndecided, Undecided, IsRow
  <2>2. \A r \in Request : \/ req'[r].st = req[r].st
                           \/ r = tx[t].r /\ req'[r].st = "DECLINED"
    <3>1. CASE req' = [req EXCEPT ![tx[t].r].st = "DECLINED"]
      BY <1>0, <2>1, <3>1 DEF Types, RequestRow
    <3>2. QED
      BY <2>1, <3>1
  <2>3. \A u \in Tx : tx[u].op = "accept" => tx[u].r # tx[t].r
    BY <2>1 DEF DecisionsApart
  <2>4. Decided
    BY <2>1, <2>2 DEF Decided
  <2>5. QED
    BY <1>0, <2>2, <2>3, <2>4 DEF AllUndecided, Undecided
<1>4. ASSUME CommitReplace(t) \/ CommitClaim(t) \/ CommitExchange(t)
      PROVE  Decided /\ \A u \in Tx : Held(tx[u])
  <2>1. req' = req
    BY <1>4 DEF CommitReplace, CommitClaim, CommitExchange
  <2>2. QED
    BY <2>1 DEF Decided, AllUndecided, Undecided
<1>5. Decided /\ \A u \in Tx : u # t => Held(tx[u])
  BY <1>1, <1>2, <1>3, <1>4 DEF Writes
<1>6. QED
  BY <1>5 DEF Undecided

LEMMA DecisionsStay ==
  ASSUME IInv, DecisionsApart, AllUndecided, [Next]_vars
  PROVE  AllUndecided' /\ Decided
<1>1. ASSUME NEW t \in Tx, Writes(t), \A u \in Tx : tx'[u] = IF u = t THEN Idle ELSE tx[u]
      PROVE  AllUndecided' /\ Decided
  <2>1. tx'[t] = Idle /\ \A u \in Tx : u # t => tx'[u] = tx[u]
    BY <1>1
  <2>2. Undecided(tx[t])'
    BY <2>1 DEF Undecided, Idle
  <2>3. QED
    BY <1>1, <2>1, <2>2, WritersDecide DEF AllUndecided
<1>2. ASSUME Fewer, \A u \in Tx : tx'[u] = tx[u] \/ (Quiet /\ Knows(u, tx'[u]))
      PROVE  AllUndecided' /\ Decided
  <2>1. ASSUME NEW u \in Tx, tx'[u] = tx[u] PROVE Undecided(tx[u])'
    <3>1. tx[u].op \in {"accept", "decline"} => tx[u].r \in Request
      BY DEF IInv, Stands
    <3>2. Undecided(tx[u])
      BY DEF AllUndecided
    <3>3. QED
      BY <1>2, <2>1, <3>1, <3>2 DEF Undecided, Fewer
  <2>2. ASSUME NEW u \in Tx, Quiet, Knows(u, tx'[u]) PROVE Undecided(tx[u])'
    <3>1. req' = req /\ Undecided(tx'[u])
      BY <2>2 DEF Quiet, tables, Knows, AllUndecided
    <3>2. QED
      BY <3>1 DEF Undecided
  <2>3. Decided
    BY <1>2 DEF Fewer, Decided
  <2>4. QED
    BY <1>2, <2>1, <2>2, <2>3 DEF AllUndecided
<1>3. QED
  BY <1>1, <1>2, WhoMoves

(* A decided request keeps its decision until it is deleted                *)
(* (integration-request.service.ts:172), in every behaviour in which no    *)
(* request is accepted and declined at the same time.  Both decisions read *)
(* the request before their transaction and write it by id: only that race *)
(* can undo one.                                                           *)
THEOREM OnlyRacesRedecide == Spec /\ []DecisionsApart => DecisionsAreFinal
<1>1. Init => AllUndecided
  BY DEF Init, AllUndecided, Undecided, Idle
<1>2. IInv /\ DecisionsApart /\ AllUndecided /\ [Next]_vars => AllUndecided' /\ [Decided]_vars
  BY DecisionsStay
<1>3. Spec /\ []DecisionsApart => [][Decided]_vars
  BY <1>1, <1>2, InvariantHolds, PTL DEF Spec
<1>4. QED
  BY <1>3 DEF DecisionsAreFinal, Decided

----------------------------------------------------------------------------
(* Links.                                                                  *)

(* What is written of the links: one of them is opened at most,            *)
Leaves(t) ==
  /\ \A c \in Claim :
       \/ clm'[c].st = clm[c].st /\ shown'[c] = shown[c]
       \/ /\ tx[t].op = "claim" /\ c = tx[t].c
          /\ clm[c].st = "unused" /\ clm'[c].st = "used"

(* or a new one made, which takes the place of those that were marked.     *)
Issues(t, c) ==
  /\ tx[t].op = "accept" \/ (Replacing(tx[t]) /\ tx[t].pc = "deleted")
  /\ shown' = shown
  /\ clm[c].st = "none" /\ clm'[c].st = "unused" /\ clm'[c].req = tx[t].r
  /\ (tx[t].op = "resend" /\ clm'[c].s = tx[t].s) \/ clm'[c].s = drawn + 1
  /\ \A b \in Claim : b # c =>
       /\ clm'[b].st = clm[b].st \/ (clm[b].st = "unused" /\ clm'[b].st = "gone")
       /\ Replacing(tx[t]) /\ b \in tx[t].seen => clm'[b].st # "unused"

LEMMA LinksWritten ==
  ASSUME IInv, NEW t \in Tx, Writes(t)
  PROVE  NamesKept /\ (Leaves(t) \/ \E c \in Claim : Issues(t, c))
<1> DEFINE x == tx[t]
<1>0. Types
  BY DEF IInv
<1>1. NamesKept
  BY RowsKeepTheirNames DEF Writes, Step, Next
<1>2. ASSUME WriteRequest(t) \/ CommitDecline(t) \/ CommitExchange(t) PROVE Leaves(t)
  BY <1>2 DEF WriteRequest, CommitDecline, CommitExchange, history, Leaves
<1>3. ASSUME CommitClaim(t) PROVE Leaves(t)
  <2>1. /\ x.op = "claim" /\ x.c \in Claim /\ clm[x.c].st = "unused"
        /\ clm' = Spent(x.c) /\ shown' \in {shown, [shown EXCEPT ![x.c] = @ + 1]}
    BY <1>3 DEF CommitClaim, IInv, Stands, Takes
  <2>2. clm'[x.c].st = "used" /\ \A c \in Claim : c # x.c => clm'[c] = clm[c]
    BY <1>0, <2>1 DEF Spent, Types, ClaimRow
  <2>3. \A c \in Claim : c # x.c => shown'[c] = shown[c]
    BY <1>0, <2>1 DEF Types
  <2>4. QED
    BY <2>1, <2>2, <2>3 DEF Leaves
<1>4. ASSUME CommitAccept(t) PROVE \E c \in Claim : Issues(t, c)
  <2>1. PICK s \in Secret, c \in Claim :
          /\ x.op = "accept" /\ IsNewSecret(s) /\ IsNewClaim(c) /\ shown' = shown
          /\ clm' = [clm EXCEPT ![c] = NewClaim(x.r, s, FALSE)]
    BY <1>4 DEF CommitAccept
  <2>2. /\ clm'[c].st = "unused" /\ clm'[c].req = x.r /\ clm'[c].s = s
        /\ \A b \in Claim : b # c => clm'[b] = clm[b]
    BY <1>0, <2>1 DEF Types, NewClaim
  <2>3. QED
    BY <2>1, <2>2 DEF Issues, IsNewClaim, IsNewSecret, Replacing
<1>5. ASSUME CommitReplace(t) PROVE \E c \in Claim : Issues(t, c)
  <2>1. PICK s \in Secret, c \in Claim :
          /\ Replacing(x) /\ x.pc = "deleted" /\ IsNewClaim(c) /\ shown' = shown
          /\ (x.op = "resend" /\ s = x.s) \/ IsNewSecret(s)
          /\ clm' = Replaced(x.seen, c, NewClaim(x.r, s, x.op = "rotate"))
    BY <1>5 DEF CommitReplace, Replacing
  <2>2. clm'[c].st = "unused" /\ clm'[c].req = x.r /\ clm'[c].s = s
    BY <2>1 DEF Replaced, NewClaim
  <2>3. ASSUME NEW b \in Claim, b # c
        PROVE  /\ clm'[b].st = clm[b].st \/ (clm[b].st = "unused" /\ clm'[b].st = "gone")
               /\ b \in x.seen => clm'[b].st # "unused"
    <3>1. clm[b] \in ClaimRow
      BY <1>0 DEF Types
    <3>2. clm'[b] = IF b \in x.seen /\ clm[b].st = "unused" THEN [clm[b] EXCEPT !.st = "gone"]
                    ELSE clm[b]
      BY <2>1, <2>3 DEF Replaced
    <3>3. CASE b \in x.seen /\ clm[b].st = "unused"
      <4>1. clm'[b] = [clm[b] EXCEPT !.st = "gone"]
        BY <3>2, <3>3
      <4>2. clm'[b].st = "gone"
        BY <3>1, <4>1 DEF ClaimRow
      <4>3. QED
        BY <3>3, <4>2
    <3>4. CASE ~(b \in x.seen /\ clm[b].st = "unused")
      <4>1. clm'[b] = clm[b]
        BY <3>2, <3>4
      <4>2. QED
        BY <3>4, <4>1
    <3>5. QED
      BY <3>3, <3>4
  <2>4. /\ clm[c].st = "none"
        /\ (x.op = "resend" /\ clm'[c].s = x.s) \/ clm'[c].s = drawn + 1
    BY <2>1, <2>2 DEF IsNewClaim, IsNewSecret
  <2>5. Issues(t, c)
    BY <2>1, <2>2, <2>3, <2>4 DEF Issues
  <2>6. QED
    BY <2>5
<1>6. QED
  BY <1>1, <1>2, <1>3, <1>4, <1>5 DEF Writes

(* Links that are not of the request whose link is made are no more.       *)
LEMMA MarksStay ==
  ASSUME IInv, NEW t \in Tx, NamesKept, Leaves(t) \/ \E c \in Claim : Issues(t, c),
         NEW u \in Tx, Marked(tx[u]), tx'[u] = tx[u],
         Replacing(tx[u]) /\ Replacing(tx[t]) => tx[t].r # tx[u].r
  PROVE  Marked(tx[u])'
<1> SUFFICES ASSUME Replacing(tx[u]), tx[u].pc = "deleted", NEW c \in Claim,
                    clm'[c].st = "unused", clm'[c].req = tx[u].r
             PROVE  c \in tx[u].seen
  BY DEF Marked, Unused, Replacing
<1>1. clm[c].st = "unused"
  <2>1. CASE Leaves(t)
    BY <2>1 DEF Leaves
  <2>2. ASSUME NEW b \in Claim, Issues(t, b) PROVE clm[c].st = "unused"
    <3>1. tx[u].r # tx[t].r
      BY <2>2, ReplacedAreAccepted DEF Issues
    <3>2. QED
      BY <2>2, <3>1 DEF Issues
  <2>3. QED
    BY <2>1, <2>2
<1>2. clm[c].req = tx[u].r
  BY <1>1 DEF NamesKept
<1>3. QED
  BY <1>1, <1>2 DEF Marked, Unused

(* And where no link is made, they never are.                              *)
LEMMA MarksGoOn ==
  ASSUME IInv, Fewer, NEW u \in Tx, tx'[u] = tx[u] \/ (Quiet /\ Knows(u, tx'[u])),
         tx'[u] = tx[u] => Marked(tx[u])
  PROVE  Marked(tx[u])'
<1>1. CASE tx'[u] = tx[u]
  BY <1>1 DEF Fewer, Marked, Unused, Replacing
<1>2. CASE Quiet /\ Knows(u, tx'[u])
  <2>1. clm' = clm /\ Marked(tx'[u])
    BY <1>2 DEF Quiet, tables, Knows
  <2>2. QED
    BY <2>1 DEF Marked, Unused, Replacing
<1>3. QED
  BY <1>1, <1>2

LEMMA LinksStayInOrder ==
  ASSUME IInv, ReplacementsApart, LinksInOrder, [Next]_vars
  PROVE  LinksInOrder'
<1>1. ASSUME NEW t \in Tx, Writes(t), \A u \in Tx : tx'[u] = IF u = t THEN Idle ELSE tx[u]
      PROVE  LinksInOrder'
  <2>1. NamesKept /\ (Leaves(t) \/ \E c \in Claim : Issues(t, c))
    BY <1>1, LinksWritten
  <2>2. ASSUME NEW u \in Tx PROVE Marked(tx[u])'
    <3>1. CASE u = t
      BY <1>1, <3>1 DEF Marked, Replacing, Idle
    <3>2. CASE u # t
      <4>1. tx'[u] = tx[u] /\ Marked(tx[u])
        BY <1>1, <3>2 DEF LinksInOrder
      <4>2. Replacing(tx[u]) /\ Replacing(tx[t]) => tx[t].r # tx[u].r
        BY <3>2 DEF ReplacementsApart
      <4>3. QED
        BY <2>1, <4>1, <4>2, MarksStay
    <3>3. QED
      BY <3>1, <3>2
  <2>3. CASE Leaves(t)
    <3>1. \A c \in Claim : clm'[c].st = "unused" => clm[c].st = "unused" /\ clm'[c].req = clm[c].req
      BY <2>1, <2>3 DEF Leaves, NamesKept
    <3>2. OneLinkInFlight'
      BY <3>1 DEF LinksInOrder, OneLinkInFlight
    <3>3. QED
      BY <2>2, <3>2 DEF LinksInOrder
  <2>4. ASSUME NEW c \in Claim, Issues(t, c) PROVE LinksInOrder'
    <3>1. ASSUME NEW b \in Claim, b # c, clm'[b].st = "unused"
          PROVE  clm[b].st = "unused" /\ clm'[b].req = clm[b].req /\ clm[b].req # tx[t].r
      <4>1. clm[b].st = "unused" /\ (Replacing(tx[t]) => b \notin tx[t].seen)
        BY <2>4, <3>1 DEF Issues
      <4>2. clm'[b].req = clm[b].req
        BY <2>1, <4>1 DEF NamesKept
      <4>3. CASE tx[t].op = "accept"
        BY <4>1, <4>2, <4>3, LinksAreAccepted
      <4>4. CASE Replacing(tx[t]) /\ tx[t].pc = "deleted"
        <5>1. Unused(tx[t].r) \subseteq tx[t].seen
          BY <4>4 DEF LinksInOrder, Marked
        <5>2. QED
          BY <4>1, <4>2, <4>4, <5>1 DEF Unused
      <4>5. QED
        BY <2>4, <4>3, <4>4 DEF Issues
    <3>2. OneLinkInFlight'
      BY <2>4, <3>1 DEF LinksInOrder, OneLinkInFlight, Issues
    <3>3. QED
      BY <2>2, <3>2 DEF LinksInOrder
  <2>5. QED
    BY <2>1, <2>3, <2>4
<1>2. ASSUME Fewer, \A u \in Tx : tx'[u] = tx[u] \/ (Quiet /\ Knows(u, tx'[u]))
      PROVE  LinksInOrder'
  <2>1. \A u \in Tx : Marked(tx[u])'
    BY <1>2, MarksGoOn DEF LinksInOrder
  <2>2. OneLinkInFlight'
    BY <1>2 DEF Fewer, LinksInOrder, OneLinkInFlight
  <2>3. QED
    BY <2>1, <2>2 DEF LinksInOrder
<1>3. QED
  BY <1>1, <1>2, WhoMoves

(* The first link, of a domain that was accepted before. *)
LEMMA LinksBegin ==
  ASSUME Init
  PROVE  /\ OneLinkInFlight /\ SoleCarriers
         /\ \A t \in Tx : tx[t] = Idle
<1>1. \A c \in Claim : shown[c] = 0
  BY DEF Init
<1>2. \A c \in Claim : clm[c].st # "none" => c = 1
  <2>1. CASE Empty
    BY <2>1 DEF Empty, NoClaim
  <2>2. ASSUME NEW r \in Request, NEW d \in Domain, NEW k \in Kid, Accepted(r, d, k)
        PROVE  \A c \in Claim : clm[c].st # "none" => c = 1
    BY <2>2 DEF Accepted, NoClaim
  <2>3. QED
    BY <2>1, <2>2 DEF Init
<1>3. \A a, b \in Claim : clm[a].st # "none" /\ clm[b].st # "none" => a = b
  BY <1>2
<1>4. \A c \in Claim : Carries(c) => clm[c].st # "none"
  BY <1>1 DEF Carries
<1>5. QED
  BY <1>3, <1>4 DEF Init, OneLinkInFlight, SoleCarriers

(* "the partner never has two competing claim links in flight"             *)
(* (domain-secret.service.ts:328), in every behaviour in which no two      *)
(* replace the links of one request at the same time.  A replacement marks *)
(* the links that are there when it deletes, so that only another one can  *)
(* slip in a link it does not see.                                         *)
THEOREM OnlyRacesMakeTwoLinks == Spec /\ []ReplacementsApart => []OneLinkInFlight
<1>1. Init => LinksInOrder
  BY LinksBegin DEF LinksInOrder, Marked, Replacing, Idle
<1>2. IInv /\ ReplacementsApart /\ LinksInOrder /\ [Next]_vars => LinksInOrder'
  BY LinksStayInOrder
<1>3. LinksInOrder => OneLinkInFlight
  BY DEF LinksInOrder
<1>4. QED
  BY <1>1, <1>2, <1>3, InvariantHolds, PTL DEF Spec

----------------------------------------------------------------------------
(* Secrets.                                                                *)

LEMMA CarriersExist ==
  ASSUME IInv, NEW c \in Claim
  PROVE  /\ Carries(c) => clm[c].st # "none"
         /\ clm[c].st = "unused" => shown[c] = 0
         /\ clm[c].st # "none" => clm[c].s \in 1..drawn
         /\ drawn \in Nat
BY DEF IInv, Types, TablesSound, Spending, RowsSound, Carries

(* The link that is made is the only one that carries its secret: a new    *)
(* one, or that of links which go away with this step.                     *)
LEMMA NewLinkCarriesAlone ==
  ASSUME IInv, SecretsInOrder, NamesKept, NEW t \in Tx, NEW c \in Claim, Issues(t, c),
         NEW b \in Claim, b # c
  PROVE  /\ Carries(b)' => Carries(b) /\ clm[b].s # clm'[c].s
         /\ clm[b].st # "none" /\ clm[b].s = clm'[c].s => clm[b].req = clm'[c].req
<1>1. Carries(b)' => Carries(b)
  BY DEF Issues, Carries
<1>2. CASE clm'[c].s = drawn + 1
  <2>1. clm[b].st # "none" => clm[b].s # clm'[c].s
    BY <1>2, CarriersExist
  <2>2. QED
    BY <1>1, <2>1, CarriersExist
<1>3. CASE tx[t].op = "resend" /\ clm'[c].s = tx[t].s
  <2>1. Wraps(tx[t]) /\ Unused(tx[t].r) \subseteq tx[t].seen /\ clm'[c].req = tx[t].r
    BY <1>3 DEF SecretsInOrder, Issues, Marked, Replacing
  <2>2. ASSUME Carries(b)', clm[b].s = tx[t].s PROVE FALSE
    <3>1. b \in Unused(tx[t].r)
      BY <1>1, <1>3, <2>1, <2>2 DEF Wraps
    <3>2. clm'[b].st # "unused" /\ shown'[b] = 0
      BY <1>3, <2>1, <3>1, CarriersExist DEF Issues, Replacing, Unused
    <3>3. QED
      BY <2>2, <3>2 DEF Carries
  <2>3. clm[b].st # "none" /\ clm[b].s = tx[t].s => clm[b].req = tx[t].r
    BY <1>3, <2>1 DEF Wraps, SecretsInOrder, SoleCarriers
  <2>4. QED
    BY <1>1, <1>3, <2>1, <2>2, <2>3
<1>4. QED
  BY <1>2, <1>3 DEF Issues

LEMMA CarriersStaySole ==
  ASSUME IInv, SecretsInOrder, NamesKept, NEW t \in Tx, Leaves(t) \/ \E c \in Claim : Issues(t, c)
  PROVE  SoleCarriers'
<1>1. CASE Leaves(t)
  <2>1. \A c \in Claim : /\ Carries(c)' => Carries(c)
                         /\ clm'[c].st # "none" => clm[c].st # "none"
    BY <1>1 DEF Leaves, Carries
  <2>2. \A c \in Claim : clm[c].st # "none" => clm'[c].req = clm[c].req /\ clm'[c].s = clm[c].s
    BY DEF NamesKept
  <2>3. \A c \in Claim : Carries(c) => clm[c].st # "none"
    BY CarriersExist
  <2>4. QED
    BY <2>1, <2>2, <2>3 DEF SecretsInOrder, SoleCarriers
<1>2. ASSUME NEW c \in Claim, Issues(t, c) PROVE SoleCarriers'
  <2>1. \A b \in Claim : b # c =>
          /\ Carries(b)' => Carries(b) /\ clm[b].s # clm'[c].s
          /\ clm[b].st # "none" /\ clm[b].s = clm'[c].s => clm[b].req = clm'[c].req
    BY <1>2, NewLinkCarriesAlone
  <2>2. \A b \in Claim : /\ clm[b].st # "none" => clm'[b].req = clm[b].req /\ clm'[b].s = clm[b].s
                         /\ b # c /\ clm'[b].st # "none" => clm[b].st # "none"
                         /\ Carries(b) => clm[b].st # "none"
    BY <1>2, CarriersExist DEF NamesKept, Issues
  <2>3. ASSUME NEW a \in Claim, NEW b \in Claim, Carries(a)', Carries(b)', clm'[a].s = clm'[b].s
        PROVE  a = b
    BY <2>1, <2>2, <2>3 DEF SecretsInOrder, SoleCarriers
  <2>4. ASSUME NEW a \in Claim, NEW b \in Claim, clm'[a].st # "none", clm'[b].st # "none",
               clm'[a].s = clm'[b].s
        PROVE  clm'[a].req = clm'[b].req
    BY <2>1, <2>2, <2>4 DEF SecretsInOrder, SoleCarriers
  <2>5. QED
    BY <2>3, <2>4 DEF SoleCarriers
<1>3. QED
  BY <1>1, <1>2

(* What is to be wrapped again stays where it was found.                   *)
LEMMA WrapsStays ==
  ASSUME IInv, ResendsApart, SecretsInOrder, NamesKept, NEW t \in Tx,
         Leaves(t) \/ \E c \in Claim : Issues(t, c),
         NEW u \in Tx, u # t, tx'[u] = tx[u]
  PROVE  Wraps(tx[u])'
<1> DEFINE x == tx[u]
<1> SUFFICES ASSUME x.op = "resend"
             PROVE  /\ \E c \in Claim : clm'[c].st # "none" /\ clm'[c].s = x.s /\ clm'[c].req = x.r
                    /\ \A c \in Claim : Carries(c)' /\ clm'[c].s = x.s
                                          => clm'[c].st = "unused" /\ clm'[c].req = x.r
  BY DEF Wraps, Unused
<1>1. Wraps(x) /\ x.s \in 1..drawn
  BY DEF SecretsInOrder, IInv, Stands
<1>2. PICK a \in Claim : clm[a].st # "none" /\ clm[a].s = x.s /\ clm[a].req = x.r
  BY <1>1 DEF Wraps
<1>3. clm'[a].st # "none" /\ clm'[a].s = x.s /\ clm'[a].req = x.r
  BY <1>2 DEF NamesKept
<1>4. ASSUME NEW c \in Claim, Carries(c), clm[c].s = x.s
      PROVE  clm[c].st = "unused" /\ clm[c].req = x.r /\ clm'[c].req = x.r /\ shown[c] = 0
  <2>1. clm[c].st = "unused" /\ clm[c].req = x.r
    BY <1>1, <1>4 DEF Wraps, Unused
  <2>2. QED
    BY <2>1, CarriersExist DEF NamesKept
<1>5. ASSUME NEW c \in Claim, clm[c].st # "none" PROVE clm'[c].s = clm[c].s
  BY <1>5 DEF NamesKept
<1>6. ASSUME Leaves(t), NEW c \in Claim, Carries(c)', clm'[c].s = x.s
      PROVE  clm'[c].st = "unused" /\ clm'[c].req = x.r
  <2>1. Carries(c)
    BY <1>6 DEF Leaves, Carries
  <2>2. clm[c].st = "unused" /\ clm[c].req = x.r /\ clm'[c].req = x.r
    BY <1>4, <1>5, <1>6, <2>1, CarriersExist
  <2>3. ~(tx[t].op = "claim" /\ c = tx[t].c)
    BY <2>2 DEF ResendsApart
  <2>4. QED
    BY <1>6, <2>2, <2>3 DEF Leaves
<1>7. ASSUME NEW b \in Claim, Issues(t, b), NEW c \in Claim, Carries(c)', clm'[c].s = x.s
      PROVE  clm'[c].st = "unused" /\ clm'[c].req = x.r
  <2>1. c # b
    <3>1. CASE clm'[b].s = drawn + 1
      BY <1>1, <1>7, <3>1, CarriersExist
    <3>2. CASE tx[t].op = "resend" /\ clm'[b].s = tx[t].s
      <4>1. PICK d \in Claim : clm[d].st # "none" /\ clm[d].s = tx[t].s /\ clm[d].req = tx[t].r
        BY <3>2 DEF SecretsInOrder, Wraps
      <4>2. tx[t].s # x.s
        BY <1>2, <3>2, <4>1 DEF SecretsInOrder, SoleCarriers, ResendsApart, Replacing
      <4>3. QED
        BY <1>7, <3>2, <4>2
    <3>3. QED
      BY <1>7, <3>1, <3>2 DEF Issues
  <2>2. Carries(c)
    BY <1>7, <2>1 DEF Issues, Carries
  <2>3. clm[c].st = "unused" /\ clm'[c].req = x.r /\ shown[c] = 0
    BY <1>4, <1>5, <1>7, <2>2, CarriersExist
  <2>4. QED
    BY <1>7, <2>1, <2>3 DEF Issues, Carries
<1>8. QED
  BY <1>3, <1>6, <1>7

LEMMA SecretsStayInOrder ==
  ASSUME IInv, ResendsApart, SecretsInOrder, [Next]_vars
  PROVE  SecretsInOrder'
<1>1. ASSUME NEW t \in Tx, Writes(t), \A u \in Tx : tx'[u] = IF u = t THEN Idle ELSE tx[u]
      PROVE  SecretsInOrder'
  <2>1. NamesKept /\ (Leaves(t) \/ \E c \in Claim : Issues(t, c))
    BY <1>1, LinksWritten
  <2>2. ASSUME NEW u \in Tx PROVE Wraps(tx[u])' /\ (tx'[u].op = "resend" => Marked(tx[u])')
    <3>1. CASE u = t
      BY <1>1, <3>1 DEF Wraps, Idle
    <3>2. CASE u # t
      <4>1. tx'[u] = tx[u] /\ (tx[u].op = "resend" => Marked(tx[u]))
        BY <1>1, <3>2 DEF SecretsInOrder
      <4>2. tx[u].op = "resend" /\ Replacing(tx[t]) => tx[t].r # tx[u].r
        BY <3>2 DEF ResendsApart
      <4>3. tx[u].op = "resend" => Marked(tx[u])'
        BY <2>1, <4>1, <4>2, MarksStay
      <4>4. Wraps(tx[u])'
        BY <2>1, <3>2, <4>1, WrapsStays
      <4>5. QED
        BY <4>1, <4>3, <4>4
    <3>3. QED
      BY <3>1, <3>2
  <2>3. SoleCarriers'
    BY <2>1, CarriersStaySole
  <2>4. QED
    BY <2>2, <2>3 DEF SecretsInOrder
<1>2. ASSUME Fewer, \A u \in Tx : tx'[u] = tx[u] \/ (Quiet /\ Knows(u, tx'[u]))
      PROVE  SecretsInOrder'
  <2>1. \A c \in Claim : /\ Carries(c)' => Carries(c)
                         /\ clm'[c].st # "none" <=> clm[c].st # "none"
                         /\ clm'[c].req = clm[c].req /\ clm'[c].s = clm[c].s
                         /\ clm'[c].st = "unused" => clm[c].st = "unused"
    BY <1>2 DEF Fewer, Carries
  <2>2. SoleCarriers'
    BY <2>1 DEF SecretsInOrder, SoleCarriers
  <2>3. ASSUME NEW u \in Tx PROVE tx'[u].op = "resend" => Marked(tx[u])'
    BY <1>2, MarksGoOn DEF SecretsInOrder
  <2>4. ASSUME NEW u \in Tx PROVE Wraps(tx[u])'
    <3>1. CASE tx'[u] = tx[u]
      <4>1. Wraps(tx[u])
        BY DEF SecretsInOrder
      <4>2. \A c \in Claim : Carries(c)' /\ clm[c].st = "unused" => clm'[c].st = "unused"
        BY <1>2, CarriersExist DEF Fewer, Carries
      <4>3. QED
        BY <2>1, <3>1, <4>1, <4>2 DEF Wraps, Unused
    <3>2. CASE Quiet /\ Knows(u, tx'[u])
      <4>1. clm' = clm /\ shown' = shown /\ Wraps(tx'[u])
        BY <3>2 DEF Quiet, tables, history, Knows, SecretsInOrder
      <4>2. QED
        BY <4>1 DEF Wraps, Carries, Unused
    <3>3. QED
      BY <1>2, <3>1, <3>2
  <2>5. QED
    BY <2>2, <2>3, <2>4 DEF SecretsInOrder
<1>3. QED
  BY <1>1, <1>2, WhoMoves

(* "the plaintext is only ever available once"                             *)
(* (integration-claim.service.ts:169), in every behaviour in which nobody  *)
(* resends a link of a request while somebody else replaces or opens one:  *)
(* a resend then takes away the link whose secret it wraps again before    *)
(* anyone sees it.  Rotations may interleave with each other, and with     *)
(* whoever opens a link.                                                   *)
THEOREM OnlyRacesShowTwice == Spec /\ []ResendsApart => []SecretsAreShownOnce
<1>1. Init => SecretsInOrder
  BY LinksBegin DEF SecretsInOrder, Wraps, Idle
<1>2. IInv /\ ResendsApart /\ SecretsInOrder /\ [Next]_vars => SecretsInOrder'
  BY SecretsStayInOrder
<1>3. SecretsInOrder => SecretsAreShownOnce
  BY DEF SecretsInOrder, SoleCarriers, SecretsAreShownOnce, Carries
<1>4. QED
  BY <1>1, <1>2, <1>3, InvariantHolds, PTL DEF Spec

=============================================================================
