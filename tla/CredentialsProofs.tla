------------------------- MODULE CredentialsProofs -------------------------
(***************************************************************************)
(* Proofs about Credentials, for any number of tokens, secrets, login      *)
(* tokens and connections.  Whatever is presented is proved against the    *)
(* epoch under the user lock, and every change of a credential moves the   *)
(* epoch under the same lock: what a connection found under it stands      *)
(* until it commits (Stands).  On that rests what the tables say of proofs *)
(* that were used (TokensSound, FactorSound, ChooserSound, LoginsSound).   *)
(***************************************************************************)
EXTENDS Credentials, FiniteSetTheorems, TLAPS

UserRow  == [exists : BOOLEAN, pw : Password \cup {None}, epoch : Nat,
             secret : Secret \cup {None}, last : Counter \cup {Never}]
TokenRow == [st : {"none", "row", "pruned"}, type : TokenType, epoch : Nat \cup {Never},
             expires : Nat, used : BOOLEAN, attempts : Nat, born : Nat]
LoginRow == [how : {"link", "code", "social", "password", "totp"},
             epoch : Nat, with : Password \cup Secret \cup {None}]
TxRecord == [op : AllOperations \cup {"none"},
             pc : {"idle", "supersede", "create", "user", "commit"},
             ref : TokenId \cup Secret \cup Jti \cup {None}, epoch : Nat \cup {Never},
             seen : BOOLEAN, given : Password \cup TokenId \cup {None}, at : Moment]

Works(x) == x.pc \in {"user", "commit"}

(* What a connection presents exists, and what it found under the lock is  *)
(* so until it commits: the epoch is the one it proves, there is no account *)
(* yet where it opens one.                                                  *)
Stands(x) ==
  /\ x.pc # "idle" => x.op \in AllOperations
  /\ x.pc \in {"supersede", "create"} => x.op \in TokenType
  /\ Works(x) /\ x.op \in TokenType =>
       /\ x.ref \in TokenId /\ tok[x.ref].st # "none"
       /\ tok[x.ref].type = x.op /\ tok[x.ref].epoch = x.epoch
  /\ Works(x) /\ x.op = "login" => user.exists /\ x.given \in Password
  /\ Works(x) /\ x.op = "enroll" =>
       x.ref \in Secret /\ setup[x.ref] # Never /\ setup[x.ref] = x.epoch
  /\ Works(x) /\ x.op = "select" => x.ref \in Jti /\ chooser[x.ref].epoch # Never
  /\ x.pc = "commit" /\ x.op \in (TokenType \ Registration) \cup Proved \cup {"enroll", "select"} =>
       user.epoch = x.epoch

Holds(x) == x.pc = "commit" /\ x.op \notin Registration /\ (x.op = "social" => x.seen)
OneHolder == \A t, u \in Tx : Holds(tx[t]) /\ Holds(tx[u]) => t = u

Opened(k) == tok[k].type \in Registration /\ uses[k] > 0

(* A token that was honoured is spent.  A recovery moved the epoch it was  *)
(* issued under, a registration opened the account.                        *)
TokensSound ==
  /\ \A k \in TokenId : uses[k] <= 1 /\ (uses[k] > 0 => tok[k].st # "none" /\ tok[k].used)
  /\ \A k \in TokenId : uses[k] > 0 /\ tok[k].type \in Recovery => tok[k].epoch < user.epoch
  /\ OneRecoveryPerEpoch
  /\ \A k \in TokenId : Opened(k) => user.exists
  /\ \A j, k \in TokenId : Opened(j) /\ Opened(k) => j = k

(* A secret that was enrolled is the account's, or the epoch its setup was *)
(* signed under has passed; no step up to the last one will be accepted.   *)
FactorSound ==
  /\ \A s \in Secret : setup[s] <= user.epoch
  /\ \A s \in Secret : enrolled[s] <= 1
  /\ \A s \in Secret : enrolled[s] = 0 => user.secret # s /\ \A c \in Counter : accepted[s][c] = 0
  /\ \A s \in Secret : enrolled[s] = 1 =>
       setup[s] # Never /\ (user.secret = s \/ setup[s] < user.epoch)
  /\ \A s \in Secret, c \in Counter :
       accepted[s][c] <= 1 /\ (accepted[s][c] = 1 /\ user.secret = s => c <= user.last)

(* A login_token that selected is recorded until it expires.               *)
ChooserSound ==
  /\ \A j \in Jti : selected[j] > 0 => j \in claimed \/ chooser[j].expires <= now
  /\ \A j \in Jti : selected[j] > 0 => chooser[j].epoch # Never

(* A login of the current epoch was made with what the account has now.    *)
LoginsSound ==
  /\ LoginsProveCurrentCredentials
  /\ \A l \in logins : l.epoch <= user.epoch
  /\ \A l \in logins : l.how = "password" => user.exists
  /\ \A l \in logins : l.how = "totp" => l.with # None

TablesSound == TokensSound /\ FactorSound /\ ChooserSound /\ LoginsSound
IInv == TypeOK /\ TablesSound /\ OneHolder /\ \A t \in Tx : Stands(tx[t])

----------------------------------------------------------------------------
(* Steps that only move a transaction on.                                  *)

Quiet == UNCHANGED <<now, user, tok, signed, claimed, history>>

Moves(t, new) ==
  /\ Quiet /\ tx' = [tx EXCEPT ![t] = new]
  /\ new \in TxRecord /\ Stands(new)
  /\ Holds(new) => \A u \in Tx : ~Holds(tx[u])

LEMMA IdleTyped == Idle \in TxRecord /\ Stands(Idle) /\ ~Holds(Idle)
BY CredentialsAssumption DEF Idle, TxRecord, Moment, Stands, Holds, Works

LEMMA Aborts == ASSUME NEW t \in Tx, Abort(t) PROVE Moves(t, Idle)
BY IdleTyped DEF Abort, End, Moves, Quiet

LEMMA Typed ==
  ASSUME TypeOK
  PROVE  /\ now \in Moment /\ user \in UserRow /\ tok \in [TokenId -> TokenRow]
         /\ logins \in SUBSET LoginRow /\ tx \in [Tx -> TxRecord]
BY DEF TypeOK, UserRow, TokenRow, LoginRow, TxRecord

LEMMA IssuesBegin ==
  ASSUME IInv, NEW t \in Tx, NEW type \in TokenType, BeginIssue(t, type)
  PROVE  \E new : Moves(t, new)
<1> DEFINE new == [Idle EXCEPT !.op = type,
                     !.pc = IF type = "LOGIN_CODE" THEN "supersede" ELSE "create",
                     !.epoch = IF type \in Registration THEN Never ELSE user.epoch,
                     !.at = now]
<1>1. user.epoch \in Nat /\ now \in Moment
  BY Typed DEF IInv, UserRow
<1>2. new \in TxRecord
  <2> DEFINE pc == IF type = "LOGIN_CODE" THEN "supersede" ELSE "create"
             e  == IF type \in Registration THEN Never ELSE user.epoch
  <2>1. pc \in {"supersede", "create"} /\ e \in Nat \cup {Never} /\ type \in AllOperations
    BY <1>1 DEF AllOperations
  <2> HIDE DEF pc, e
  <2>2. [Idle EXCEPT !.op = type, !.pc = pc, !.epoch = e, !.at = now] \in TxRecord
    BY <1>1, <2>1, IdleTyped DEF TxRecord
  <2>3. QED
    BY <2>2 DEF pc, e
<1>3. Stands(new) /\ ~Holds(new)
  BY DEF Stands, Holds, Works, AllOperations, Idle
<1>4. QED
  BY <1>2, <1>3 DEF BeginIssue, Begin, Moves, Quiet

LEMMA TokensPresented ==
  ASSUME IInv, NEW t \in Tx
  PROVE  /\ \A k \in TokenId : BeginConsume(t, k) => \E new : Moves(t, new)
         /\ BeginCode(t) => \E new : Moves(t, new)
<1>0. tok \in [TokenId -> TokenRow]
  BY Typed DEF IInv
<1>1. ASSUME NEW k \in TokenId, BeginConsume(t, k) PROVE \E new : Moves(t, new)
  <2> DEFINE new == [Idle EXCEPT !.op = tok[k].type, !.pc = "user", !.ref = k,
                       !.epoch = tok[k].epoch, !.seen = tok[k].used]
  <2>1. new \in TxRecord
    BY <1>0, IdleTyped DEF TxRecord, TokenRow, AllOperations
  <2>2. Stands(new) /\ ~Holds(new)
    BY <1>0, <1>1
    DEF BeginConsume, Exists, Stands, Holds, Works, TokenRow, AllOperations, TokenType, Registration,
        Recovery, Idle
  <2>3. QED
    BY <1>1, <2>1, <2>2 DEF BeginConsume, Begin, Moves, Quiet
<1>2. ASSUME BeginCode(t) PROVE \E new : Moves(t, new)
  <2>1. PICK k \in Candidates, typed \in TokenId \cup {None} :
          Begin(t, [Idle EXCEPT !.op = "LOGIN_CODE", !.pc = "user", !.ref = k,
                      !.epoch = tok[k].epoch, !.given = typed])
    BY <1>2 DEF BeginCode
  <2> DEFINE new == [Idle EXCEPT !.op = "LOGIN_CODE", !.pc = "user", !.ref = k,
                       !.epoch = tok[k].epoch, !.given = typed]
  <2>2. k \in TokenId /\ tok[k].st = "row" /\ tok[k].type = "LOGIN_CODE"
    BY <2>1 DEF Candidates, Exists
  <2>3. new \in TxRecord
    BY <1>0, <2>2, IdleTyped DEF TxRecord, TokenRow, AllOperations, TokenType
  <2>4. Stands(new) /\ ~Holds(new)
    BY <2>2 DEF Stands, Holds, Works, AllOperations, TokenType, Registration, Recovery, Idle
  <2>5. QED
    BY <2>1, <2>3, <2>4 DEF Begin, Moves, Quiet
<1>3. QED
  BY <1>1, <1>2

LEMMA OthersPresented ==
  ASSUME IInv, NEW t \in Tx
  PROVE  /\ \A p \in Password : BeginLogin(t, p) => \E new : Moves(t, new)
         /\ \A op \in Proved, l \in logins : BeginProved(t, op, l) => \E new : Moves(t, new)
         /\ \A s \in Secret : BeginEnroll(t, s) => \E new : Moves(t, new)
         /\ \A j \in Jti : BeginSelect(t, j) => \E new : Moves(t, new)
         /\ BeginSocial(t) => \E new : Moves(t, new)
         /\ BeginAdminReset(t) => \E new : Moves(t, new)
<1>1. ASSUME NEW p \in Password, BeginLogin(t, p) PROVE \E new : Moves(t, new)
  <2> DEFINE new == [Idle EXCEPT !.op = "login", !.pc = "user", !.given = p]
  <2>1. new \in TxRecord
    BY IdleTyped DEF TxRecord, AllOperations
  <2>2. Stands(new) /\ ~Holds(new)
    BY <1>1 DEF BeginLogin, Stands, Holds, Works, AllOperations, TokenType, Registration, Recovery,
                Idle
  <2>3. QED
    BY <1>1, <2>1, <2>2 DEF BeginLogin, Begin, Moves, Quiet
<1>2. ASSUME NEW op \in Proved, NEW l \in logins, BeginProved(t, op, l) PROVE \E new : Moves(t, new)
  <2> DEFINE new == [Idle EXCEPT !.op = op, !.pc = "user", !.epoch = l.epoch]
  <2>1. l.epoch \in Nat
    BY Typed DEF IInv, LoginRow
  <2>2. new \in TxRecord
    BY <2>1, IdleTyped DEF TxRecord, AllOperations
  <2>3. Stands(new) /\ ~Holds(new)
    BY DEF Stands, Holds, Works, AllOperations, TokenType, Registration, Recovery, Proved, Idle
  <2>4. QED
    BY <1>2, <2>2, <2>3 DEF BeginProved, Begin, Moves, Quiet
<1>3. ASSUME NEW s \in Secret, BeginEnroll(t, s) PROVE \E new : Moves(t, new)
  <2> DEFINE new == [Idle EXCEPT !.op = "enroll", !.pc = "user", !.ref = s, !.epoch = setup[s]]
  <2>1. new \in TxRecord
    BY IdleTyped DEF TxRecord, AllOperations, IInv, TypeOK
  <2>2. Stands(new) /\ ~Holds(new)
    BY <1>3 DEF BeginEnroll, Stands, Holds, Works, AllOperations, TokenType, Registration, Recovery,
                Idle
  <2>3. QED
    BY <1>3, <2>1, <2>2 DEF BeginEnroll, Begin, Moves, Quiet
<1>4. ASSUME NEW j \in Jti, BeginSelect(t, j) PROVE \E new : Moves(t, new)
  <2> DEFINE new == [Idle EXCEPT !.op = "select", !.pc = "user", !.ref = j, !.epoch = chooser[j].epoch]
  <2>1. new \in TxRecord
    BY IdleTyped DEF TxRecord, AllOperations, IInv, TypeOK
  <2>2. Stands(new) /\ ~Holds(new)
    BY <1>4 DEF BeginSelect, Stands, Holds, Works, AllOperations, TokenType, Registration, Recovery,
                Idle
  <2>3. QED
    BY <1>4, <2>1, <2>2 DEF BeginSelect, Begin, Moves, Quiet
<1>5. ASSUME BeginSocial(t) PROVE \E new : Moves(t, new)
  <2> DEFINE new == [Idle EXCEPT !.op = "social", !.pc = "user", !.seen = user.exists]
  <2>1. new \in TxRecord
    BY Typed, IdleTyped DEF TxRecord, AllOperations, IInv, UserRow
  <2>2. Stands(new) /\ ~Holds(new)
    BY DEF Stands, Holds, Works, AllOperations, TokenType, Registration, Recovery, Idle
  <2>3. QED
    BY <1>5, <2>1, <2>2 DEF BeginSocial, Begin, Moves, Quiet
<1>6. ASSUME BeginAdminReset(t) PROVE \E new : Moves(t, new)
  <2> DEFINE new == [Idle EXCEPT !.op = "adminReset", !.pc = "user"]
  <2>1. new \in TxRecord
    BY IdleTyped DEF TxRecord, AllOperations
  <2>2. Stands(new) /\ ~Holds(new)
    BY DEF Stands, Holds, Works, AllOperations, TokenType, Registration, Recovery, Idle
  <2>3. QED
    BY <1>6, <2>1, <2>2 DEF BeginAdminReset, Begin, Moves, Quiet
<1>7. QED
  BY <1>1, <1>2, <1>3, <1>4, <1>5, <1>6

LEMMA LockMoves ==
  ASSUME IInv, NEW t \in Tx, LockUser(t)
  PROVE  \E new : Moves(t, new)
<1> DEFINE x == tx[t]
           new == [x EXCEPT !.pc = "commit", !.at = now]
<1>1. CASE EpochHolds(t)
  <2>1. x \in TxRecord /\ now \in Moment /\ Stands(x) /\ x.pc = "user"
    BY Typed DEF IInv, LockUser
  <2>2. /\ new \in TxRecord /\ new.op = x.op /\ new.pc = "commit" /\ new.ref = x.ref
        /\ new.epoch = x.epoch /\ new.given = x.given /\ new.seen = x.seen /\ new.at = now
    BY <2>1 DEF TxRecord
  <2>3. /\ tx' = [tx EXCEPT ![t] = new] /\ Quiet
        /\ TakesUserLock(t) => \A u \in Tx : ~HoldsUser(u)
    <3>1. tx' = [tx EXCEPT ![t].pc = "commit", ![t].at = now] /\ Quiet
      BY <1>1 DEF LockUser, Quiet
    <3>2. QED
      BY <3>1, Typed DEF IInv, LockUser
  <2>4. Stands(new)
    BY <1>1, <2>1, <2>2 DEF EpochHolds, ChecksEpoch, Stands, Works
  <2>5. Holds(new) => \A u \in Tx : ~Holds(tx[u])
    BY <2>2, <2>3 DEF Holds, TakesUserLock, HoldsUser, IsRegistration
  <2> HIDE DEF new
  <2>6. QED
    BY <2>2, <2>3, <2>4, <2>5 DEF Moves
<1>2. CASE ~EpochHolds(t)
  BY <1>2, Aborts DEF LockUser
<1>3. QED
  BY <1>1, <1>2

----------------------------------------------------------------------------
(* Rows are not taken back while a connection holds on to them.            *)

RowsKept ==
  /\ \A k \in TokenId : tok[k].st # "none" =>
       /\ tok'[k].st # "none" /\ tok'[k].type = tok[k].type /\ tok'[k].epoch = tok[k].epoch
       /\ tok[k].used => tok'[k].used
  /\ user.exists => user'.exists
  /\ \A s \in Secret : setup[s] # Never => setup'[s] = setup[s]
  /\ \A j \in Jti : chooser[j].epoch # Never => chooser'[j] = chooser[j]
  /\ user.epoch <= user'.epoch /\ now <= now'

(* What the others stand on, next to a step that moves the epoch only      *)
(* under the user lock.                                                    *)
LEMMA OthersStand ==
  ASSUME IInv, RowsKept, NEW u \in Tx, tx'[u] = tx[u],
         user'.epoch = user.epoch \/ ~Holds(tx[u])
  PROVE  Stands(tx[u])'
<1> DEFINE x == tx[u]
<1>0. Stands(x) /\ tx'[u] = x
  BY DEF IInv
<1>1. Works(x) /\ x.op \in TokenType =>
        /\ x.ref \in TokenId /\ tok'[x.ref].st # "none"
        /\ tok'[x.ref].type = x.op /\ tok'[x.ref].epoch = x.epoch
  BY <1>0 DEF Stands, RowsKept
<1>2. Works(x) /\ x.op = "login" => user'.exists /\ x.given \in Password
  BY <1>0 DEF Stands, RowsKept
<1>3. Works(x) /\ x.op = "enroll" => x.ref \in Secret /\ setup'[x.ref] # Never /\ setup'[x.ref] = x.epoch
  BY <1>0 DEF Stands, RowsKept
<1>4. x.pc = "commit" /\ x.op \in (TokenType \ Registration) \cup Proved \cup {"enroll", "select"} =>
        user'.epoch = x.epoch
  BY <1>0 DEF Stands, Holds, TokenType, Registration, Recovery, Proved
<1>5. Works(x) /\ x.op = "select" => x.ref \in Jti /\ chooser'[x.ref].epoch # Never
  BY <1>0 DEF Stands, RowsKept
<1>6. QED
  BY <1>0, <1>1, <1>2, <1>3, <1>4, <1>5 DEF Stands, Works

LEMMA EverybodyStands ==
  ASSUME IInv, TypeOK', RowsKept, NEW t \in Tx, now' = now,
         \A u \in Tx : u # t => tx'[u] = tx[u],
         ~Holds(tx[t])' /\ Stands(tx[t])',
         user'.epoch = user.epoch \/ Holds(tx[t])
  PROVE  OneHolder' /\ \A u \in Tx : Stands(tx[u])'
<1>1. OneHolder'
  BY DEF IInv, OneHolder, Holds
<1>2. ASSUME NEW u \in Tx, u # t PROVE Stands(tx[u])'
  BY <1>2, OthersStand DEF IInv, OneHolder
<1>3. QED
  BY <1>1, <1>2

LEMMA EndTyped ==
  ASSUME TypeOK, NEW t \in Tx, End(t)
  PROVE  /\ tx' \in [Tx -> TxRecord] /\ tx'[t] = Idle /\ ~Holds(tx[t])' /\ Stands(tx[t])'
         /\ \A u \in Tx : u # t => tx'[u] = tx[u]
<1>1. tx' \in [Tx -> TxRecord] /\ tx'[t] = Idle /\ \A u \in Tx : u # t => tx'[u] = tx[u]
  BY Typed, IdleTyped DEF End
<1>2. ~Holds(tx[t])' /\ Stands(tx[t])'
  BY <1>1 DEF Holds, Stands, Works, Idle
<1>3. QED
  BY <1>1, <1>2

LEMMA Untouched ==
  ASSUME TablesSound
  PROVE  /\ UNCHANGED <<uses, tok, user>> => TokensSound'
         /\ UNCHANGED <<enrolled, accepted, user, setup>> => FactorSound'
         /\ UNCHANGED <<selected, claimed, chooser, now>> => ChooserSound'
         /\ UNCHANGED <<logins, user>> => LoginsSound'
<1>1. UNCHANGED <<uses, tok, user>> => TokensSound'
  BY DEF TablesSound, TokensSound, OneRecoveryPerEpoch, Opened
<1>2. UNCHANGED <<enrolled, accepted, user, setup>> => FactorSound'
  BY DEF TablesSound, FactorSound
<1>3. UNCHANGED <<selected, claimed, chooser, now>> => ChooserSound'
  BY DEF TablesSound, ChooserSound
<1>4. UNCHANGED <<logins, user>> => LoginsSound'
  BY DEF TablesSound, LoginsSound, LoginsProveCurrentCredentials
<1>5. QED
  BY <1>1, <1>2, <1>3, <1>4

----------------------------------------------------------------------------
(* What a change of the account does to each table.                        *)

Grows == user.epoch <= user'.epoch /\ (user.exists => user'.exists)

Presented(t) == tx[t].op \in TokenType /\ tx[t].pc = "commit" /\ Honoured(t)

(* Honouring what the connection presents: it was not honoured before.     *)
LEMMA SpendFacts ==
  ASSUME IInv, NEW t \in Tx, Presented(t), Spend(tx[t].ref)
  PROVE  /\ tx[t].ref \in TokenId /\ uses[tx[t].ref] = 0
         /\ tok[tx[t].ref].type = tx[t].op /\ tok[tx[t].ref].epoch = tx[t].epoch
         /\ tok' \in [TokenId -> TokenRow] /\ uses' \in [TokenId -> Nat]
         /\ tok[tx[t].ref].st = "row"
         /\ \A j \in TokenId : /\ tok'[j].st = tok[j].st /\ tok'[j].type = tok[j].type
                               /\ tok'[j].epoch = tok[j].epoch
                               /\ (tok[j].used \/ j = tx[t].ref) => tok'[j].used
                               /\ uses'[j] = IF j = tx[t].ref THEN 1 ELSE uses[j]
         /\ UNCHANGED <<wrong, accepted, enrolled, selected>>
<1> DEFINE k == tx[t].ref
<1>1. k \in TokenId /\ tok[k].type = tx[t].op /\ tok[k].epoch = tx[t].epoch
  BY DEF IInv, Presented, Stands, Works
<1>2. tok[k].st = "row" /\ ~tok[k].used
  BY DEF Presented, Honoured, Claimable, Exists
<1>3. tok \in [TokenId -> TokenRow] /\ uses \in [TokenId -> Nat]
  BY Typed DEF IInv, TypeOK
<1>4. uses[k] = 0
  <2>1. uses[k] \in Nat /\ (uses[k] > 0 => tok[k].used)
    BY <1>1, <1>3 DEF IInv, TablesSound, TokensSound
  <2>2. QED
    BY <1>2, <2>1
<1>5. tok' = [tok EXCEPT ![k].used = TRUE] /\ uses' = [uses EXCEPT ![k] = @ + 1]
  BY DEF Spend
<1>6. tok' \in [TokenId -> TokenRow]
  <2> DEFINE row == [tok[k] EXCEPT !.used = TRUE]
  <2>1. tok[k] \in TokenRow
    BY <1>1, <1>3
  <2>2. row \in TokenRow
    BY <2>1 DEF TokenRow
  <2>3. tok' = [tok EXCEPT ![k] = row]
    BY <1>5
  <2> HIDE DEF row
  <2>4. QED
    BY <1>3, <2>2, <2>3
<1>7. uses' \in [TokenId -> Nat]
  BY <1>1, <1>3, <1>5
<1>8. \A j \in TokenId : /\ tok'[j].st = tok[j].st /\ tok'[j].type = tok[j].type
                        /\ tok'[j].epoch = tok[j].epoch
                        /\ (tok[j].used \/ j = k) => tok'[j].used
  BY <1>1, <1>2, <1>3, <1>5 DEF TokenRow
<1>9. \A j \in TokenId : uses'[j] = IF j = k THEN 1 ELSE uses[j]
  BY <1>1, <1>3, <1>4, <1>5
<1>10. QED
  BY <1>1, <1>2, <1>4, <1>6, <1>7, <1>8, <1>9 DEF Spend

LEMMA SpendKeepsTokens ==
  ASSUME IInv, TypeOK', NEW t \in Tx, Presented(t), Spend(tx[t].ref), Grows,
         tx[t].op \in Recovery => user.epoch < user'.epoch,
         tx[t].op \in Registration => ~user.exists /\ user'.exists
  PROVE  TokensSound'
<1> DEFINE k == tx[t].ref
<1>0. user.epoch \in Nat /\ user'.epoch \in Nat /\ TokensSound
  BY TypeOK' DEF IInv, TypeOK, TablesSound
<1>1. tx[t].op \in Recovery => user.epoch = tx[t].epoch
  BY DEF IInv, Presented, Stands, Recovery, Registration, TokenType
<1>2. ASSUME NEW j \in TokenId
      PROVE  (uses[j] <= 1 /\ (uses[j] > 0 => tok[j].st # "none" /\ tok[j].used))'
  <2>1. CASE j = k
    BY <2>1, SpendFacts
  <2>2. CASE j # k
    BY <1>0, <2>2, SpendFacts DEF TokensSound
  <2>3. QED
    BY <2>1, <2>2
<1>3. \A j \in TokenId : uses'[j] > 0 /\ tok'[j].type \in Recovery => tok'[j].epoch < user'.epoch
  <2> SUFFICES ASSUME NEW j \in TokenId, uses'[j] > 0, tok'[j].type \in Recovery
               PROVE  tok'[j].epoch < user'.epoch
    OBVIOUS
  <2>1. CASE j = k
    BY <1>0, <1>1, <2>1, SpendFacts
  <2>2. CASE j # k
    <3>1. tok[j].epoch < user.epoch
      BY <1>0, <2>2, SpendFacts DEF TokensSound
    <3>2. tok[j].epoch \in Int
      BY Typed DEF IInv, TokenRow, Never
    <3>3. QED
      BY <1>0, <3>1, <3>2, SpendFacts DEF Grows
  <2>3. QED
    BY <2>1, <2>2
<1>4. OneRecoveryPerEpoch'
  <2> SUFFICES ASSUME NEW i \in TokenId, NEW j \in TokenId,
                      tok[i].type \in Recovery, tok[j].type \in Recovery,
                      uses'[i] > 0, uses'[j] > 0, tok[i].epoch = tok[j].epoch
               PROVE  i = j
    BY SpendFacts DEF OneRecoveryPerEpoch
  <2>1. CASE i # k /\ j # k
    BY <1>0, <2>1, SpendFacts DEF TokensSound, OneRecoveryPerEpoch
  <2>2. ASSUME NEW b \in TokenId, tok[b].type \in Recovery, b # k, uses'[b] > 0,
               tok[k].type \in Recovery, tok[b].epoch = tok[k].epoch
        PROVE  FALSE
    <3>1. tok[b].epoch < user.epoch
      BY <1>0, <2>2, SpendFacts DEF TokensSound
    <3>2. QED
      BY <1>0, <1>1, <2>2, <3>1, SpendFacts
  <2>3. QED
    BY <2>1, <2>2
<1>5. \A j \in TokenId : Opened(j)' => user'.exists
  BY <1>0, SpendFacts DEF TokensSound, Opened, Grows
<1>6. \A i, j \in TokenId : Opened(i)' /\ Opened(j)' => i = j
  BY <1>0, SpendFacts DEF TokensSound, Opened
<1>7. QED
  <2> HIDE DEF k
  <2>1. (\A j \in TokenId : uses[j] <= 1 /\ (uses[j] > 0 => tok[j].st # "none" /\ tok[j].used))'
    BY <1>2
  <2>2. (\A j \in TokenId : uses[j] > 0 /\ tok[j].type \in Recovery => tok[j].epoch < user.epoch)'
    BY <1>3
  <2>3. (\A j \in TokenId : Opened(j) => user.exists)'
    BY <1>5
  <2>4. (\A i, j \in TokenId : Opened(i) /\ Opened(j) => i = j)'
    BY <1>6
  <2>5. QED
    BY <1>4, <2>1, <2>2, <2>3, <2>4 DEF TokensSound

(* Where no token is honoured, or the second factor has nothing to do.     *)
LEMMA TokensStill ==
  ASSUME IInv, TypeOK', RowsKept, Grows, uses' = uses
  PROVE  TokensSound'
<1>0. TokensSound /\ user.epoch \in Nat /\ user'.epoch \in Nat /\ uses \in [TokenId -> Nat]
  BY TypeOK' DEF IInv, TablesSound, TypeOK
<1>1. \A k \in TokenId : uses[k] > 0 => /\ tok'[k].st # "none" /\ tok'[k].type = tok[k].type
                                       /\ tok'[k].epoch = tok[k].epoch /\ tok'[k].used
  BY <1>0 DEF TokensSound, RowsKept
<1>2. \A k \in TokenId : uses[k] > 0 /\ tok[k].type \in Recovery => tok[k].epoch < user'.epoch
  <2>1. \A k \in TokenId : tok[k].epoch \in Int
    BY Typed DEF IInv, TokenRow, Never
  <2>2. QED
    BY <1>0, <2>1 DEF TokensSound, Grows
<1>3. QED
  BY <1>0, <1>1, <1>2 DEF TokensSound, OneRecoveryPerEpoch, Opened, Grows

LEMMA FactorStill ==
  ASSUME IInv, TypeOK', Grows, UNCHANGED <<setup, enrolled, accepted>>,
         \/ user'.secret = user.secret /\ user'.last = user.last
         \/ user'.secret = None /\ user.epoch < user'.epoch
  PROVE  FactorSound'
<1>0. /\ FactorSound /\ user.epoch \in Nat /\ user'.epoch \in Nat
      /\ \A s \in Secret : s # None /\ setup[s] \in Int
  BY TypeOK', CredentialsAssumption DEF IInv, TablesSound, TypeOK, Never
<1>1. \A s \in Secret : enrolled[s] = 1 => setup[s] # Never /\ (user'.secret = s \/ setup[s] < user'.epoch)
  <2> SUFFICES ASSUME NEW s \in Secret, enrolled[s] = 1
               PROVE  setup[s] # Never /\ (user'.secret = s \/ setup[s] < user'.epoch)
    OBVIOUS
  <2>1. setup[s] # Never /\ (user.secret = s \/ setup[s] < user.epoch)
    BY <1>0 DEF FactorSound
  <2>2. CASE setup[s] < user.epoch
    BY <1>0, <2>1, <2>2 DEF Grows
  <2>3. CASE user'.secret = user.secret
    BY <1>0, <2>1, <2>2, <2>3
  <2>4. CASE user'.secret = None /\ user.epoch < user'.epoch /\ user.secret = s
    BY <1>0, <2>1, <2>4 DEF FactorSound
  <2>5. QED
    BY <2>1, <2>2, <2>3, <2>4
<1>2. \A s \in Secret : setup[s] <= user'.epoch
  BY <1>0 DEF FactorSound, Grows
<1>3. QED
  BY <1>0, <1>1, <1>2 DEF FactorSound

(* A new epoch ends what every login proved.                               *)
LEMMA LoginsEnd ==
  ASSUME IInv, TypeOK', logins' = logins, user.exists => user'.exists,
         user.epoch < user'.epoch
  PROVE  LoginsSound'
<1>0. /\ LoginsSound /\ user.epoch \in Int /\ user'.epoch \in Int
      /\ \A l \in logins : l.epoch \in Int
  BY TypeOK', Typed DEF IInv, TablesSound, TypeOK, LoginRow
<1>1. \A l \in logins : l.epoch < user'.epoch
  BY <1>0 DEF LoginsSound
<1>2. QED
  BY <1>0, <1>1 DEF LoginsSound, LoginsProveCurrentCredentials

(* A login is granted for what the account has, or for what it had before  *)
(* there was an account.                                                   *)
LEMMA LoginsGrow ==
  ASSUME IInv, NEW how \in {"link", "code", "social", "password", "totp"},
         NEW with \in Password \cup Secret \cup {None},
         Grant(how, with), user'.epoch = user.epoch, user.exists => user'.exists,
         how = "password" => with = user'.pw /\ user'.exists,
         how = "totp" => with = user'.secret /\ with # None,
         user'.secret = user.secret,
         user.exists => user'.pw = user.pw
  PROVE  LoginsSound' /\ logins' \in SUBSET LoginRow
<1> DEFINE new == [how |-> how, epoch |-> user.epoch, with |-> with]
<1>0. LoginsSound /\ user.epoch \in Nat /\ logins \in SUBSET LoginRow
  BY Typed DEF IInv, TablesSound, UserRow
<1>1. logins' = logins \cup {new} /\ new \in LoginRow
  BY <1>0 DEF Grant, LoginRow
<1>2. \A l \in logins' : l.epoch <= user'.epoch /\ (l.how = "totp" => l.with # None)
  BY <1>0, <1>1 DEF LoginsSound
<1>3. \A l \in logins' : l.how = "password" => user'.exists
  BY <1>0, <1>1 DEF LoginsSound
<1>4. \A l \in logins' : l.epoch = user'.epoch =>
        /\ l.how = "password" => l.with = user'.pw
        /\ l.how = "totp" => l.with = user'.secret
  BY <1>0, <1>1 DEF LoginsSound, LoginsProveCurrentCredentials
<1>5. QED
  BY <1>0, <1>1, <1>2, <1>3, <1>4 DEF LoginsSound, LoginsProveCurrentCredentials

----------------------------------------------------------------------------
(* Each step that writes.                                                  *)

(* All variables but what the step names have their types as before.       *)
LEMMA TypesAgain ==
  ASSUME user' \in UserRow, tok' \in [TokenId -> TokenRow], logins' \in SUBSET LoginRow,
         tx' \in [Tx -> TxRecord], now' \in Moment,
         setup' \in [Secret -> Nat \cup {Never}],
         chooser' \in [Jti -> [epoch : Nat \cup {Never}, expires : Nat]], claimed' \subseteq Jti,
         uses' \in [TokenId -> Nat], wrong' \in [TokenId -> Nat],
         accepted' \in [Secret -> [Counter -> Nat]],
         enrolled' \in [Secret -> Nat], selected' \in [Jti -> Nat]
  PROVE  TypeOK'
BY DEF TypeOK, UserRow, TokenRow, LoginRow, TxRecord

LEMMA EpochMoves ==
  ASSUME NEW u \in UserRow
  PROVE  /\ NewEpoch(u) \in UserRow /\ NewEpoch(u).exists = u.exists
         /\ NewEpoch(u).epoch = u.epoch + 1
         /\ NewEpoch(u).secret = u.secret /\ NewEpoch(u).last = u.last
BY DEF NewEpoch, UserRow

LEMMA FactorLeaves ==
  ASSUME NEW u \in UserRow
  PROVE  /\ WithoutFactor(u) \in UserRow /\ WithoutFactor(u).exists = u.exists
         /\ WithoutFactor(u).epoch = u.epoch /\ WithoutFactor(u).secret = None
BY DEF WithoutFactor, UserRow

LEMMA PasswordChanges ==
  ASSUME NEW u \in UserRow, NEW p \in Password \cup {None}
  PROVE  LET v == [u EXCEPT !.pw = p] IN
         /\ v \in UserRow /\ v.exists = u.exists /\ v.epoch = u.epoch
         /\ v.secret = u.secret /\ v.last = u.last
BY DEF UserRow

LEMMA AccountOpens ==
  ASSUME user \in UserRow, NEW p \in Password \cup {None}, CreateAccount(p)
  PROVE  /\ user' \in UserRow /\ ~user.exists /\ user'.exists /\ user'.epoch = user.epoch
         /\ user'.secret = user.secret /\ user'.last = user.last
BY DEF CreateAccount, UserRow

(* The e-mailed recovery.                                                  *)
LEMMA RecoveryKeeps ==
  ASSUME IInv, NEW t \in Tx, Honoured(t), ResetPassword(t) \/ ResetTwoFa(t)
  PROVE  IInv'
<1> DEFINE x == tx[t]
<1>0. /\ TypeOK /\ TablesSound /\ user \in UserRow /\ Presented(t) /\ Holds(x)
      /\ x.op \in Recovery
  BY Typed DEF IInv, ResetPassword, ResetTwoFa, Committing, Presented, Holds, TokenType, Recovery,
               Registration
<1>1. Spend(x.ref) /\ End(t) /\ UNCHANGED <<now, signed, claimed>>
  BY DEF ResetPassword, ResetTwoFa
<1>2. /\ user' \in UserRow /\ user'.epoch = user.epoch + 1 /\ user'.exists = user.exists
      /\ \/ user'.secret = user.secret /\ user'.last = user.last
         \/ user'.secret = None
  <2>1. CASE ResetPassword(t)
    <3>1. PICK p \in Password : user' = NewEpoch([user EXCEPT !.pw = p])
      BY <2>1 DEF ResetPassword
    <3> DEFINE v == [user EXCEPT !.pw = p]
    <3>2. /\ v \in UserRow /\ v.exists = user.exists /\ v.epoch = user.epoch
          /\ v.secret = user.secret /\ v.last = user.last
      BY <1>0, PasswordChanges
    <3>3. user' = NewEpoch(v)
      BY <3>1
    <3> HIDE DEF v
    <3>4. QED
      BY <3>2, <3>3, EpochMoves
  <2>2. CASE ResetTwoFa(t)
    <3>1. user' = NewEpoch(WithoutFactor(user))
      BY <2>2 DEF ResetTwoFa
    <3>2. QED
      BY <1>0, <3>1, FactorLeaves, EpochMoves
  <2>3. QED
    BY <2>1, <2>2
<1>3. user.epoch \in Nat /\ Grows /\ user.epoch < user'.epoch
  BY <1>0, <1>2 DEF UserRow, Grows
<1>4. TypeOK'
  BY <1>0, <1>1, <1>2, SpendFacts, EndTyped, Typed, TypesAgain DEF TypeOK, signed
<1>5. RowsKept
  BY <1>0, <1>1, <1>3, SpendFacts DEF RowsKept, Grows, signed, TypeOK, Moment
<1>6. TokensSound'
  BY <1>0, <1>1, <1>3, <1>4, SpendKeepsTokens DEF Recovery, Registration
<1>7. FactorSound'
  BY <1>0, <1>1, <1>2, <1>3, <1>4, SpendFacts, FactorStill DEF signed
<1>8. ChooserSound' /\ LoginsSound'
  BY <1>0, <1>1, <1>2, <1>3, <1>4, SpendFacts, Untouched, LoginsEnd DEF signed
<1>9. OneHolder' /\ \A u \in Tx : Stands(tx[u])'
  BY <1>0, <1>1, <1>4, <1>5, EndTyped, EverybodyStands
<1>10. QED
  BY <1>4, <1>6, <1>7, <1>8, <1>9 DEF IInv, TablesSound

(* Logging in by an e-mailed link or code, and opening the account.        *)
LEMMA MailLoginKeeps ==
  ASSUME IInv, NEW t \in Tx, Honoured(t), LoginByLink(t) \/ LoginByCode(t) \/ Register(t)
  PROVE  IInv'
<1> DEFINE x == tx[t]
<1>0. /\ TypeOK /\ TablesSound /\ user \in UserRow /\ Presented(t)
      /\ x.op \in Registration \cup {"LOGIN_LINK", "LOGIN_CODE"}
  BY Typed DEF IInv, LoginByLink, LoginByCode, Register, Committing, IsRegistration, Presented,
               TokenType
<1>1. /\ Spend(x.ref) /\ End(t) /\ UNCHANGED <<now, setup, chooser, claimed>>
      /\ \E how \in {"link", "code"} : Grant(how, None)
  BY DEF LoginByLink, LoginByCode, Register
<1>2. /\ user' \in UserRow /\ user'.epoch = user.epoch /\ user'.secret = user.secret
      /\ user'.last = user.last /\ (user.exists => user' = user)
      /\ x.op \in Registration => ~user.exists /\ user'.exists
  <2>1. CASE Register(t)
    <3>1. PICK p \in Password \cup {None} : CreateAccount(p)
      BY <2>1 DEF Register
    <3>2. QED
      BY <1>0, <3>1, AccountOpens
  <2>2. CASE LoginByLink(t) \/ LoginByCode(t)
    BY <1>0, <2>2 DEF LoginByLink, LoginByCode, Committing, Registration
  <2>3. QED
    BY <2>1, <2>2
<1>3. user.epoch \in Nat /\ Grows
  BY <1>0, <1>2 DEF UserRow, Grows
<1>4. LoginsSound' /\ logins' \in SUBSET LoginRow
  <2>1. PICK how \in {"link", "code"} : Grant(how, None)
    BY <1>1
  <2>2. QED
    BY <1>2, <2>1, LoginsGrow
<1>5. TypeOK'
  BY <1>0, <1>1, <1>2, <1>4, SpendFacts, EndTyped, Typed, TypesAgain DEF TypeOK
<1>6. RowsKept
  BY <1>0, <1>1, <1>3, SpendFacts DEF RowsKept, Grows, TypeOK, Moment
<1>7. TokensSound'
  BY <1>0, <1>1, <1>2, <1>3, <1>5, SpendKeepsTokens DEF Recovery, Registration
<1>8. FactorSound' /\ ChooserSound'
  BY <1>0, <1>1, <1>2, <1>3, <1>5, SpendFacts, FactorStill, Untouched
<1>9. OneHolder' /\ \A u \in Tx : Stands(tx[u])'
  BY <1>0, <1>1, <1>2, <1>5, <1>6, EndTyped, EverybodyStands
<1>10. QED
  BY <1>4, <1>5, <1>7, <1>8, <1>9 DEF IInv, TablesSound

(* A wrong code changes nothing but the history.                           *)
LEMMA WrongCodeKeeps ==
  ASSUME IInv, NEW t \in Tx, WrongCode(t)
  PROVE  IInv'
<1>0. TypeOK /\ TablesSound /\ user.epoch \in Nat /\ tx[t].ref \in TokenId
  BY Typed DEF IInv, UserRow, WrongCode, Committing, Stands, Works, TokenType
<1>1. End(t) /\ UNCHANGED <<now, user, tok, signed, claimed, uses, accepted, enrolled, selected>>
  BY DEF WrongCode
<1>2. wrong' \in [TokenId -> Nat]
  BY <1>0 DEF WrongCode, TypeOK
<1>3. TypeOK'
  BY <1>0, <1>1, <1>2, EndTyped, Typed, TypesAgain DEF TypeOK, signed
<1>4. RowsKept
  BY <1>0, <1>1 DEF RowsKept, signed, TypeOK, Moment
<1>5. TablesSound'
  BY <1>0, <1>1, Untouched DEF TablesSound, signed
<1>6. OneHolder' /\ \A u \in Tx : Stands(tx[u])'
  BY <1>0, <1>1, <1>3, <1>4, EndTyped, EverybodyStands
<1>7. QED
  BY <1>3, <1>5, <1>6 DEF IInv

(* Logging in with a provider, or with the password that still is.         *)
LEMMA DirectLoginKeeps ==
  ASSUME IInv, NEW t \in Tx,
         SocialLogin(t) \/ (LoginByPassword(t) /\ VerifiedNow(tx[t].given))
  PROVE  IInv'
<1> DEFINE x == tx[t]
<1>0. TypeOK /\ TablesSound /\ user \in UserRow /\ user.epoch \in Nat
  BY Typed DEF IInv, UserRow
<1>1. End(t) /\ UNCHANGED <<now, tok, setup, chooser, claimed, history>>
  BY DEF SocialLogin, LoginByPassword
<1>2. /\ user' \in UserRow /\ user'.epoch = user.epoch /\ user'.secret = user.secret
      /\ user'.last = user.last /\ (user.exists => user' = user)
  <2>1. CASE user' = user
    BY <1>0, <2>1
  <2>2. CASE CreateAccount(None)
    BY <1>0, <2>2, AccountOpens
  <2>3. QED
    BY <2>1, <2>2 DEF SocialLogin, LoginByPassword
<1>3. LoginsSound' /\ logins' \in SUBSET LoginRow
  <2>1. CASE SocialLogin(t)
    BY <1>2, <2>1, LoginsGrow DEF SocialLogin
  <2>2. CASE LoginByPassword(t) /\ VerifiedNow(x.given)
    <3>1. user.exists /\ x.given \in Password /\ user.pw = x.given
      BY <2>2 DEF LoginByPassword, Committing, VerifiedNow, IInv, Stands, Works
    <3>2. Grant("password", x.given) /\ user' = user
      BY <2>2 DEF LoginByPassword
    <3>3. QED
      BY <3>1, <3>2, LoginsGrow
  <2>3. QED
    BY <2>1, <2>2
<1>4. TypeOK'
  BY <1>0, <1>1, <1>2, <1>3, EndTyped, Typed, TypesAgain DEF TypeOK, history
<1>5. RowsKept /\ Grows
  BY <1>0, <1>1, <1>2 DEF RowsKept, Grows, TypeOK, Moment
<1>6. TokensSound' /\ FactorSound' /\ ChooserSound'
  BY <1>0, <1>1, <1>2, <1>4, <1>5, TokensStill, FactorStill, Untouched DEF history
<1>7. OneHolder' /\ \A u \in Tx : Stands(tx[u])'
  BY <1>0, <1>1, <1>2, <1>4, <1>5, EndTyped, EverybodyStands
<1>8. QED
  BY <1>3, <1>4, <1>6, <1>7 DEF IInv, TablesSound

(* A setup token is signed for a secret nobody has seen before.            *)
LEMMA StartSetupKeeps ==
  ASSUME IInv, NEW t \in Tx, StartSetup(t)
  PROVE  IInv'
<1>0. TypeOK /\ TablesSound /\ FactorSound /\ user.epoch \in Nat
  BY Typed DEF IInv, UserRow, TablesSound
<1>1. End(t) /\ UNCHANGED <<now, user, tok, chooser, claimed, logins, history>>
  BY DEF StartSetup
<1>2. PICK s \in Secret : setup[s] = Never /\ setup' = [setup EXCEPT ![s] = user.epoch]
  BY DEF StartSetup
<1>3. setup \in [Secret -> Nat \cup {Never}] /\ setup' \in [Secret -> Nat \cup {Never}]
  BY <1>0, <1>2 DEF TypeOK
<1>4. TypeOK'
  BY <1>0, <1>1, <1>3, EndTyped, Typed, TypesAgain DEF TypeOK, history
<1>5. RowsKept
  BY <1>0, <1>1, <1>2, <1>3 DEF RowsKept, TypeOK, Moment
<1>6. FactorSound'
  <2>1. \A r \in Secret : setup'[r] <= user.epoch
    BY <1>0, <1>2, <1>3 DEF FactorSound
  <2>2. \A r \in Secret : enrolled[r] = 1 => r # s /\ setup'[r] = setup[r]
    BY <1>0, <1>2, <1>3 DEF FactorSound
  <2>3. QED
    BY <1>0, <1>1, <2>1, <2>2 DEF FactorSound, history
<1>7. TokensSound' /\ ChooserSound' /\ LoginsSound'
  BY <1>0, <1>1, Untouched DEF history
<1>8. OneHolder' /\ \A u \in Tx : Stands(tx[u])'
  BY <1>0, <1>1, <1>4, <1>5, EndTyped, EverybodyStands
<1>9. QED
  BY <1>4, <1>6, <1>7, <1>8 DEF IInv, TablesSound

(* One more step of a secret is accepted.                                  *)
LEMMA AcceptFacts ==
  ASSUME TypeOK, NEW s \in Secret, NEW c \in Window, Accept(s, c)
  PROVE  /\ c \in Counter
         /\ accepted' \in [Secret -> [Counter -> Nat]]
         /\ \A r \in Secret, d \in Counter :
              accepted'[r][d] = IF r = s /\ d = c THEN accepted[r][d] + 1 ELSE accepted[r][d]
<1>1. c \in Counter
  BY DEF Window
<1>2. accepted \in [Secret -> [Counter -> Nat]] /\ accepted[s] \in [Counter -> Nat]
  BY DEF TypeOK
<1> DEFINE row == [accepted[s] EXCEPT ![c] = @ + 1]
<1>3. row \in [Counter -> Nat] /\ \A d \in Counter : row[d] = IF d = c THEN accepted[s][d] + 1 ELSE accepted[s][d]
  BY <1>1, <1>2
<1>4. accepted' = [accepted EXCEPT ![s] = row]
  BY <1>2 DEF Accept
<1> HIDE DEF row
<1>5. accepted' \in [Secret -> [Counter -> Nat]]
  BY <1>2, <1>3, <1>4
<1>6. \A r \in Secret : accepted'[r] = IF r = s THEN row ELSE accepted[r]
  BY <1>2, <1>4
<1>7. QED
  BY <1>1, <1>3, <1>5, <1>6

LEMMA EnrollKeeps ==
  ASSUME IInv, NEW t \in Tx, Enroll(t)
  PROVE  IInv'
<1> DEFINE s == tx[t].ref
<1>0. /\ TypeOK /\ TablesSound /\ FactorSound /\ LoginsSound /\ user \in UserRow
      /\ user.epoch \in Nat /\ user.secret = None
  BY Typed DEF IInv, UserRow, TablesSound, Enroll
<1>1. /\ s \in Secret /\ setup[s] # Never /\ setup[s] = user.epoch
  BY DEF IInv, Stands, Works, Enroll, Committing
<1>2. /\ End(t) /\ UNCHANGED <<now, tok, signed, claimed, uses, wrong, selected>>
      /\ enrolled' = [enrolled EXCEPT ![s] = @ + 1]
  BY DEF Enroll
<1>3. PICK c \in Window : user' = Enrolled(s, c) /\ Accept(s, c)
  BY DEF Enroll
<1>4. /\ s # None /\ c \in Counter /\ accepted' \in [Secret -> [Counter -> Nat]]
      /\ \A r \in Secret, d \in Counter :
           accepted'[r][d] = IF r = s /\ d = c THEN accepted[r][d] + 1 ELSE accepted[r][d]
  BY <1>0, <1>1, <1>3, AcceptFacts, CredentialsAssumption
<1>5. /\ user' \in UserRow /\ user'.exists = user.exists /\ user'.epoch = user.epoch
      /\ user'.pw = user.pw /\ user'.secret = s /\ user'.last = c
  BY <1>0, <1>1, <1>3, <1>4 DEF Enrolled, UserRow
<1>6. /\ enrolled \in [Secret -> Nat] /\ enrolled' \in [Secret -> Nat] /\ enrolled[s] = 0
      /\ \A r \in Secret : enrolled'[r] = IF r = s THEN 1 ELSE enrolled[r]
  <2>1. enrolled \in [Secret -> Nat]
    BY <1>0 DEF TypeOK
  <2>2. enrolled[s] = 0
    <3>1. enrolled[s] <= 1 /\ (enrolled[s] = 1 => user.secret = s \/ setup[s] < user.epoch)
      BY <1>0, <1>1 DEF FactorSound
    <3>2. enrolled[s] # 1
      BY <1>0, <1>1, <1>4, <3>1
    <3>3. QED
      BY <1>1, <2>1, <3>1, <3>2
  <2>3. QED
    BY <1>1, <1>2, <2>1, <2>2
<1>7. TypeOK'
  BY <1>0, <1>2, <1>4, <1>5, <1>6, EndTyped, Typed, TypesAgain DEF TypeOK, signed
<1>8. RowsKept /\ Grows
  BY <1>0, <1>2, <1>5 DEF RowsKept, Grows, TypeOK, Moment, signed
<1>9. FactorSound'
  <2>1. \A r \in Secret : /\ enrolled'[r] <= 1
                          /\ enrolled'[r] = 0 => r # s /\ enrolled[r] = 0
                          /\ enrolled'[r] = 1 => r = s \/ enrolled[r] = 1
    BY <1>0, <1>6 DEF FactorSound
  <2>2. \A r \in Secret : enrolled'[r] = 0 => user'.secret # r /\ \A d \in Counter : accepted'[r][d] = 0
    BY <1>0, <1>4, <1>5, <2>1 DEF FactorSound
  <2>3. \A r \in Secret : enrolled'[r] = 1 => setup[r] # Never /\ (user'.secret = r \/ setup[r] < user'.epoch)
    BY <1>0, <1>1, <1>4, <1>5, <2>1, CredentialsAssumption DEF FactorSound
  <2>4. \A r \in Secret, d \in Counter :
          accepted'[r][d] <= 1 /\ (accepted'[r][d] = 1 /\ user'.secret = r => d <= user'.last)
    <3>1. \A d \in Counter : accepted[s][d] = 0
      BY <1>0, <1>1, <1>6 DEF FactorSound
    <3>2. c \in Int
      BY <1>4 DEF Counter
    <3>3. QED
      BY <1>0, <1>4, <1>5, <3>1, <3>2 DEF FactorSound
  <2>5. \A r \in Secret : setup[r] <= user'.epoch
    BY <1>0, <1>5 DEF FactorSound
  <2>6. QED
    BY <1>2, <2>1, <2>2, <2>3, <2>4, <2>5 DEF FactorSound, signed
<1>10. LoginsSound'
  <2>1. logins' = logins /\ \A l \in logins : l.how = "totp" => l.epoch # user.epoch
    BY <1>0, <1>2 DEF LoginsSound, LoginsProveCurrentCredentials, signed
  <2>2. QED
    BY <1>0, <1>5, <2>1 DEF LoginsSound, LoginsProveCurrentCredentials
<1>11. TokensSound' /\ ChooserSound'
  BY <1>0, <1>2, <1>7, <1>8, TokensStill, Untouched DEF signed
<1>12. OneHolder' /\ \A u \in Tx : Stands(tx[u])'
  BY <1>0, <1>2, <1>5, <1>7, <1>8, EndTyped, EverybodyStands
<1>13. QED
  BY <1>7, <1>9, <1>10, <1>11, <1>12 DEF IInv, TablesSound

(* A step newer than the last one was never accepted.                      *)
LEMMA FreshFacts ==
  ASSUME IInv, NEW c \in Window, Fresh(c), Accept(user.secret, c)
  PROVE  /\ user.secret \in Secret /\ user.secret # None /\ c \in Counter
         /\ accepted' \in [Secret -> [Counter -> Nat]]
         /\ \A r \in Secret, d \in Counter :
              accepted'[r][d] <= 1 /\ (accepted'[r][d] = 1 /\ r = user.secret => d <= c)
         /\ \A r \in Secret : enrolled[r] = 0 => \A d \in Counter : accepted'[r][d] = 0
<1> DEFINE s == user.secret
<1>1. /\ TypeOK /\ FactorSound /\ s \in Secret /\ s # None /\ c > user.last
      /\ user.last \in Counter \cup {Never}
  BY Typed DEF IInv, TablesSound, Fresh, UserRow
<1>2. /\ c \in Counter /\ accepted' \in [Secret -> [Counter -> Nat]]
      /\ \A r \in Secret, d \in Counter :
           accepted'[r][d] = IF r = s /\ d = c THEN accepted[r][d] + 1 ELSE accepted[r][d]
  BY <1>1, AcceptFacts
<1>3. \A d \in Counter : accepted[s][d] \in Nat /\ accepted[s][d] <= 1 /\ (accepted[s][d] = 1 => d <= user.last)
  <2>1. \A d \in Counter : accepted[s][d] <= 1 /\ (accepted[s][d] = 1 => d <= user.last)
    BY <1>1 DEF FactorSound
  <2>2. accepted[s] \in [Counter -> Nat]
    BY <1>1 DEF TypeOK
  <2>3. QED
    BY <2>1, <2>2
<1>4. c \in Int /\ user.last \in Int /\ \A d \in Counter : d \in Int
  BY <1>1, <1>2, CredentialsAssumption DEF Counter, Never
<1>5. accepted[s][c] = 0
  <2>1. accepted[s][c] \in Nat /\ accepted[s][c] <= 1 /\ (accepted[s][c] = 1 => c <= user.last)
    BY <1>2, <1>3
  <2>2. ~(c <= user.last)
    BY <1>1, <1>4
  <2>3. QED
    BY <2>1, <2>2
<1>6. \A r \in Secret, d \in Counter : accepted[r][d] <= 1
  BY <1>1 DEF FactorSound
<1>7. \A r \in Secret, d \in Counter :
        accepted'[r][d] <= 1 /\ (accepted'[r][d] = 1 /\ r = s => d <= c)
  <2> SUFFICES ASSUME NEW r \in Secret, NEW d \in Counter
               PROVE  accepted'[r][d] <= 1 /\ (accepted'[r][d] = 1 /\ r = s => d <= c)
    OBVIOUS
  <2>1. CASE r = s /\ d = c
    BY <1>2, <1>4, <1>5, <2>1
  <2>2. CASE ~(r = s /\ d = c)
    <3>1. accepted'[r][d] = accepted[r][d]
      BY <1>2, <2>2
    <3>2. QED
      BY <1>1, <1>3, <1>4, <1>6, <3>1
  <2>3. QED
    BY <2>1, <2>2
<1>8. \A r \in Secret : enrolled[r] = 0 => \A d \in Counter : accepted'[r][d] = 0
  BY <1>1, <1>2 DEF FactorSound
<1>9. QED
  BY <1>1, <1>2, <1>7, <1>8

LEMMA VerifyTwoFaKeeps ==
  ASSUME IInv, NEW t \in Tx, VerifyTwoFa(t)
  PROVE  IInv'
<1> DEFINE s == user.secret
<1>0. TypeOK /\ TablesSound /\ FactorSound /\ user \in UserRow /\ user.epoch \in Nat
  BY Typed DEF IInv, UserRow, TablesSound
<1>1. /\ End(t) /\ Grant("totp", s)
      /\ UNCHANGED <<now, tok, setup, chooser, claimed, uses, wrong, enrolled, selected>>
  BY DEF VerifyTwoFa
<1>2. PICK c \in Window : Fresh(c) /\ Accept(s, c) /\ user' = [user EXCEPT !.last = c]
  BY DEF VerifyTwoFa
<1>3. /\ s \in Secret /\ s # None /\ c \in Counter
      /\ accepted' \in [Secret -> [Counter -> Nat]]
      /\ \A r \in Secret, d \in Counter :
           accepted'[r][d] <= 1 /\ (accepted'[r][d] = 1 /\ r = s => d <= c)
      /\ \A r \in Secret : enrolled[r] = 0 => \A d \in Counter : accepted'[r][d] = 0
  BY <1>2, FreshFacts
<1>4. /\ user' \in UserRow /\ user'.exists = user.exists /\ user'.epoch = user.epoch
      /\ user'.pw = user.pw /\ user'.secret = s /\ user'.last = c
  BY <1>0, <1>2, <1>3 DEF UserRow
<1>5. LoginsSound' /\ logins' \in SUBSET LoginRow
  BY <1>1, <1>3, <1>4, LoginsGrow
<1>6. TypeOK'
  BY <1>0, <1>1, <1>3, <1>4, <1>5, EndTyped, Typed, TypesAgain DEF TypeOK
<1>7. RowsKept /\ Grows
  BY <1>0, <1>1, <1>4 DEF RowsKept, Grows, TypeOK, Moment
<1>8. FactorSound'
  <2>1. \A r \in Secret : enrolled[r] = 0 => user'.secret # r /\ \A d \in Counter : accepted'[r][d] = 0
    BY <1>0, <1>3, <1>4 DEF FactorSound
  <2>2. \A r \in Secret, d \in Counter :
          accepted'[r][d] <= 1 /\ (accepted'[r][d] = 1 /\ user'.secret = r => d <= user'.last)
    BY <1>3, <1>4
  <2>3. \A r \in Secret : setup[r] <= user'.epoch
    BY <1>0, <1>4 DEF FactorSound
  <2>4. \A r \in Secret : enrolled[r] = 1 => setup[r] # Never /\ (user'.secret = r \/ setup[r] < user'.epoch)
    BY <1>0, <1>4 DEF FactorSound
  <2>5. \A r \in Secret : enrolled[r] <= 1
    BY <1>0 DEF FactorSound
  <2>6. QED
    BY <1>1, <2>1, <2>2, <2>3, <2>4, <2>5 DEF FactorSound
<1>9. TokensSound' /\ ChooserSound'
  BY <1>0, <1>1, <1>6, <1>7, TokensStill, Untouched
<1>10. OneHolder' /\ \A u \in Tx : Stands(tx[u])'
  BY <1>0, <1>1, <1>4, <1>6, <1>7, EndTyped, EverybodyStands
<1>11. QED
  BY <1>5, <1>6, <1>8, <1>9, <1>10 DEF IInv, TablesSound

(* Disabling the second factor, and an administrator removing it: the      *)
(* secret goes and the epoch moves.                                        *)
LEMMA FactorGoes ==
  ASSUME user \in UserRow, user' = NewEpoch(WithoutFactor(user))
  PROVE  /\ user' \in UserRow /\ user'.exists = user.exists /\ user'.epoch = user.epoch + 1
         /\ user'.secret = None /\ user.epoch \in Nat
BY FactorLeaves, EpochMoves DEF UserRow

LEMMA DisableTwoFaKeeps ==
  ASSUME IInv, NEW t \in Tx, DisableTwoFa(t)
  PROVE  IInv'
<1>0. /\ TypeOK /\ TablesSound /\ FactorSound /\ user \in UserRow /\ user.epoch \in Nat
      /\ Holds(tx[t])
  BY Typed DEF IInv, UserRow, TablesSound, DisableTwoFa, Committing, Holds, Registration
<1>1. /\ End(t) /\ UNCHANGED <<now, tok, signed, claimed, uses, wrong, enrolled, selected>>
  BY DEF DisableTwoFa
<1>2. PICK c \in Window : Fresh(c) /\ Accept(user.secret, c)
  BY DEF DisableTwoFa
<1>3. /\ accepted' \in [Secret -> [Counter -> Nat]]
      /\ \A r \in Secret, d \in Counter : accepted'[r][d] <= 1
      /\ \A r \in Secret : enrolled[r] = 0 => \A d \in Counter : accepted'[r][d] = 0
  BY <1>2, FreshFacts
<1>4. /\ user' \in UserRow /\ user'.exists = user.exists /\ user'.epoch = user.epoch + 1
      /\ user'.secret = None
  BY <1>0, FactorGoes DEF DisableTwoFa
<1>5. TypeOK'
  BY <1>0, <1>1, <1>3, <1>4, EndTyped, Typed, TypesAgain DEF TypeOK, signed
<1>6. RowsKept /\ Grows /\ user.epoch < user'.epoch
  BY <1>0, <1>1, <1>4 DEF RowsKept, Grows, TypeOK, Moment, signed
<1>7. FactorSound'
  <2>1. \A r \in Secret : r # None /\ setup[r] \in Int
    BY <1>0, CredentialsAssumption DEF TypeOK, Never
  <2>2. \A r \in Secret : setup[r] < user'.epoch
    BY <1>0, <1>4, <2>1 DEF FactorSound
  <2>3. \A r \in Secret : setup[r] <= user'.epoch
    BY <1>0, <1>4, <2>1, <2>2
  <2>4. \A r \in Secret : enrolled[r] = 1 => setup[r] # Never
    BY <1>0 DEF FactorSound
  <2>5. \A r \in Secret : enrolled[r] <= 1
    BY <1>0 DEF FactorSound
  <2>6. \A r \in Secret : user'.secret # r
    BY <1>4, <2>1
  <2>7. QED
    BY <1>1, <1>3, <2>2, <2>3, <2>4, <2>5, <2>6 DEF FactorSound, signed
<1>8. TokensSound' /\ ChooserSound' /\ LoginsSound'
  BY <1>0, <1>1, <1>4, <1>5, <1>6, TokensStill, LoginsEnd, Untouched DEF signed
<1>9. OneHolder' /\ \A u \in Tx : Stands(tx[u])'
  BY <1>0, <1>1, <1>5, <1>6, EndTyped, EverybodyStands
<1>10. QED
  BY <1>5, <1>7, <1>8, <1>9 DEF IInv, TablesSound

LEMMA AdminResetKeeps ==
  ASSUME IInv, NEW t \in Tx, AdminReset(t)
  PROVE  IInv'
<1>0. TypeOK /\ TablesSound /\ user \in UserRow /\ user.epoch \in Nat /\ Holds(tx[t])
  BY Typed DEF IInv, UserRow, AdminReset, Committing, Holds, Registration
<1>1. End(t) /\ UNCHANGED <<now, tok, signed, claimed, history>>
  BY DEF AdminReset
<1>2. /\ user' \in UserRow /\ user'.exists = user.exists /\ user'.epoch = user.epoch + 1
      /\ user'.secret = None
  BY <1>0, FactorGoes DEF AdminReset
<1>3. TypeOK'
  BY <1>0, <1>1, <1>2, EndTyped, Typed, TypesAgain DEF TypeOK, signed, history
<1>4. RowsKept /\ Grows /\ user.epoch < user'.epoch
  BY <1>0, <1>1, <1>2 DEF RowsKept, Grows, TypeOK, Moment, signed
<1>5. TokensSound' /\ FactorSound' /\ ChooserSound' /\ LoginsSound'
  BY <1>0, <1>1, <1>2, <1>3, <1>4, TokensStill, FactorStill, LoginsEnd, Untouched DEF signed, history
<1>6. OneHolder' /\ \A u \in Tx : Stands(tx[u])'
  BY <1>0, <1>1, <1>3, <1>4, EndTyped, EverybodyStands
<1>7. QED
  BY <1>3, <1>5, <1>6 DEF IInv, TablesSound

(* A login_token is signed once and spent while it is on record.           *)
LEMMA SignChooserKeeps ==
  ASSUME IInv, NEW t \in Tx, SignChooser(t)
  PROVE  IInv'
<1>0. /\ TypeOK /\ TablesSound /\ ChooserSound /\ user.epoch \in Nat
      /\ now \in Nat /\ ChooserTtl \in Nat
  BY Typed, CredentialsAssumption DEF IInv, UserRow, TablesSound, Moment
<1>1. End(t) /\ UNCHANGED <<now, user, tok, setup, claimed, logins, history>>
  BY DEF SignChooser
<1>2. PICK j \in Jti :
        /\ chooser[j].epoch = Never
        /\ chooser' = [chooser EXCEPT ![j] = [epoch |-> user.epoch, expires |-> now + ChooserTtl]]
  BY DEF SignChooser
<1>3. /\ chooser \in [Jti -> [epoch : Nat \cup {Never}, expires : Nat]]
      /\ chooser' \in [Jti -> [epoch : Nat \cup {Never}, expires : Nat]]
      /\ \A i \in Jti : i # j => chooser'[i] = chooser[i]
  BY <1>0, <1>2 DEF TypeOK
<1>4. TypeOK'
  BY <1>0, <1>1, <1>3, EndTyped, Typed, TypesAgain DEF TypeOK, history
<1>5. RowsKept
  BY <1>0, <1>1, <1>2, <1>3 DEF RowsKept, TypeOK
<1>6. ChooserSound'
  <2>1. \A i \in Jti : selected[i] > 0 => chooser'[i] = chooser[i]
    BY <1>0, <1>2, <1>3 DEF ChooserSound
  <2>2. QED
    BY <1>0, <1>1, <2>1 DEF ChooserSound, history
<1>7. TokensSound' /\ FactorSound' /\ LoginsSound'
  BY <1>0, <1>1, Untouched DEF history
<1>8. OneHolder' /\ \A u \in Tx : Stands(tx[u])'
  BY <1>0, <1>1, <1>4, <1>5, EndTyped, EverybodyStands
<1>9. QED
  BY <1>4, <1>6, <1>7, <1>8 DEF IInv, TablesSound

LEMMA SelectTeamKeeps ==
  ASSUME IInv, NEW t \in Tx, SelectTeam(t),
         chooser[tx[t].ref].expires > tx[t].at, Unclaimed(tx[t].ref)
  PROVE  IInv'
<1> DEFINE j == tx[t].ref
<1>0. /\ TypeOK /\ TablesSound /\ ChooserSound /\ user.epoch \in Nat
      /\ now \in Int /\ tx[t] \in TxRecord /\ tx[t].at \in Int
  BY Typed DEF IInv, UserRow, TablesSound, Moment, TxRecord
<1>1. j \in Jti /\ chooser[j].epoch # Never /\ chooser[j].expires \in Int
  BY <1>0 DEF IInv, Stands, Works, SelectTeam, Committing, TypeOK
<1>2. /\ claimed' = claimed \cup {j} /\ selected' = [selected EXCEPT ![j] = @ + 1] /\ End(t)
      /\ UNCHANGED <<now, user, tok, signed, uses, wrong, accepted, enrolled>>
  BY <1>0, <1>1 DEF SelectTeam
<1>3. /\ selected \in [Jti -> Nat] /\ selected' \in [Jti -> Nat] /\ claimed' \subseteq Jti
      /\ selected'[j] = selected[j] + 1 /\ \A i \in Jti : i # j => selected'[i] = selected[i]
  BY <1>0, <1>1, <1>2 DEF TypeOK
<1>4. TypeOK'
  BY <1>0, <1>2, <1>3, EndTyped, Typed, TypesAgain DEF TypeOK, signed
<1>5. RowsKept
  BY <1>0, <1>2 DEF RowsKept, TypeOK, Moment, signed
<1>6. ChooserSound'
  <2>1. \A i \in Jti : selected'[i] > 0 => i \in claimed' \/ chooser[i].expires <= now
    BY <1>0, <1>2, <1>3 DEF ChooserSound
  <2>2. \A i \in Jti : selected'[i] > 0 => chooser[i].epoch # Never
    BY <1>0, <1>1, <1>3 DEF ChooserSound
  <2>3. QED
    BY <1>2, <2>1, <2>2 DEF ChooserSound, signed
<1>7. TokensSound' /\ FactorSound' /\ LoginsSound'
  BY <1>0, <1>2, Untouched DEF signed
<1>8. OneHolder' /\ \A u \in Tx : Stands(tx[u])'
  BY <1>0, <1>2, <1>4, <1>5, EndTyped, EverybodyStands
<1>9. QED
  BY <1>4, <1>6, <1>7, <1>8 DEF IInv, TablesSound

(* The statements that issue a token: what is on the way out holds no lock *)
(* and touches no token that was presented.                                *)
LEMMA SupersedeKeeps ==
  ASSUME IInv, NEW t \in Tx, Supersede(t)
  PROVE  IInv'
<1> DEFINE new == [tx[t] EXCEPT !.pc = "create"]
<1>0. /\ TypeOK /\ TablesSound /\ user.epoch \in Nat /\ tx \in [Tx -> TxRecord]
      /\ tok \in [TokenId -> TokenRow]
  BY Typed DEF IInv, UserRow
<1>1. /\ tok' = [k \in TokenId |->
                   IF Exists(k) /\ tok[k].type = "LOGIN_CODE" /\ ~tok[k].used
                   THEN [tok[k] EXCEPT !.used = TRUE] ELSE tok[k]]
      /\ tx' = [tx EXCEPT ![t].pc = "create"]
      /\ UNCHANGED <<now, user, signed, claimed, history>>
  BY DEF Supersede
<1>2. /\ new \in TxRecord /\ new.pc = "create" /\ new.op = tx[t].op /\ new.op \in TokenType
  BY <1>0 DEF TxRecord, IInv, Stands, Supersede
<1>3. /\ tx' \in [Tx -> TxRecord] /\ tx'[t] = new
      /\ \A u \in Tx : u # t => tx'[u] = tx[u]
  BY <1>0, <1>1, <1>2
<1>4. tok' \in [TokenId -> TokenRow]
  BY <1>0, <1>1 DEF TokenRow
<1>5. \A k \in TokenId : /\ tok'[k].st = tok[k].st /\ tok'[k].type = tok[k].type
                         /\ tok'[k].epoch = tok[k].epoch /\ (tok[k].used => tok'[k].used)
  BY <1>0, <1>1 DEF TokenRow
<1> HIDE DEF new
<1>6. TypeOK'
  BY <1>0, <1>1, <1>3, <1>4, Typed, TypesAgain DEF TypeOK, signed, history
<1>7. RowsKept /\ Grows
  BY <1>0, <1>1, <1>5 DEF RowsKept, Grows, TypeOK, Moment, signed
<1>8. TokensSound' /\ FactorSound' /\ ChooserSound' /\ LoginsSound'
  BY <1>0, <1>1, <1>6, <1>7, TokensStill, Untouched DEF signed, history
<1>9. ~Holds(tx[t])' /\ Stands(tx[t])'
  BY <1>2, <1>3 DEF Holds, Stands, Works, AllOperations
<1>10. OneHolder' /\ \A u \in Tx : Stands(tx[u])'
  BY <1>1, <1>3, <1>6, <1>7, <1>9, EverybodyStands
<1>11. QED
  BY <1>6, <1>8, <1>10 DEF IInv, TablesSound

LEMMA CreateTokenKeeps ==
  ASSUME IInv, NEW t \in Tx, CreateToken(t)
  PROVE  IInv'
<1> DEFINE x == tx[t]
           expires == x.at + (IF x.op = "LOGIN_CODE" THEN CodeTtl ELSE TokenTtl)
           born == Cardinality({j \in TokenId : tok[j].st # "none"})
           row == [st |-> "row", type |-> x.op, epoch |-> x.epoch, expires |-> expires,
                   used |-> FALSE, attempts |-> 0, born |-> born]
<1>0. /\ TypeOK /\ TablesSound /\ user.epoch \in Nat /\ x \in TxRecord
      /\ tok \in [TokenId -> TokenRow]
  BY Typed DEF IInv, UserRow
<1>1. End(t) /\ UNCHANGED <<now, user, signed, claimed, history>>
  BY DEF CreateToken
<1>2. PICK k \in TokenId : tok[k].st = "none" /\ tok' = [tok EXCEPT ![k] = row]
  BY DEF CreateToken
<1>3. x.op \in TokenType /\ x.epoch \in Nat \cup {Never}
  BY <1>0 DEF TxRecord, IInv, Stands, CreateToken
<1>4. expires \in Nat
  BY <1>0, CredentialsAssumption DEF TxRecord, Moment
<1>5. born \in Nat
  BY FS_Subset, FS_CardinalityType, CredentialsAssumption
<1> HIDE DEF expires, born
<1>6. row \in TokenRow
  BY <1>3, <1>4, <1>5 DEF TokenRow
<1> HIDE DEF row
<1>7. tok' \in [TokenId -> TokenRow] /\ \A j \in TokenId : j # k => tok'[j] = tok[j]
  BY <1>0, <1>2, <1>6
<1>8. TypeOK'
  BY <1>0, <1>1, <1>7, EndTyped, Typed, TypesAgain DEF TypeOK, signed, history
<1>9. RowsKept /\ Grows
  <2>1. \A j \in TokenId : tok[j].st # "none" => tok'[j] = tok[j]
    BY <1>2, <1>7
  <2>2. QED
    BY <1>0, <1>1, <2>1 DEF RowsKept, Grows, TypeOK, Moment, signed
<1>10. TokensSound' /\ FactorSound' /\ ChooserSound' /\ LoginsSound'
  BY <1>0, <1>1, <1>8, <1>9, TokensStill, Untouched DEF signed, history
<1>11. OneHolder' /\ \A u \in Tx : Stands(tx[u])'
  BY <1>0, <1>1, <1>8, <1>9, EndTyped, EverybodyStands
<1>12. QED
  BY <1>8, <1>10, <1>11 DEF IInv, TablesSound

----------------------------------------------------------------------------
(* Steps that belong to no connection, and steps that write nothing.       *)

LEMMA PruneKeeps ==
  ASSUME IInv, Prune
  PROVE  IInv'
<1> DEFINE old  == {k \in TokenId : Exists(k) /\ tok[k].expires < now}
           past == {j \in claimed : UseExpired(j)}
<1>0. /\ TypeOK /\ TablesSound /\ ChooserSound /\ user.epoch \in Nat
      /\ tok \in [TokenId -> TokenRow]
  BY Typed DEF IInv, UserRow, TablesSound
<1>1. /\ tok' = [k \in TokenId |-> IF k \in old THEN [tok[k] EXCEPT !.st = "pruned"] ELSE tok[k]]
      /\ claimed' = claimed \ past /\ UNCHANGED <<now, user, signed, tx, history>>
  BY DEF Prune
<1>2. tok' \in [TokenId -> TokenRow]
  <2> HIDE DEF old
  <2>1. QED
    BY <1>0, <1>1 DEF TokenRow
<1>3. \A k \in TokenId : /\ tok[k].st # "none" => tok'[k].st # "none"
                         /\ tok'[k].type = tok[k].type /\ tok'[k].epoch = tok[k].epoch
                         /\ tok[k].used => tok'[k].used
  <2> HIDE DEF old
  <2>1. QED
    BY <1>0, <1>1 DEF TokenRow
<1>4. TypeOK'
  BY <1>0, <1>1, <1>2, Typed, TypesAgain DEF TypeOK, signed, history
<1>5. RowsKept /\ Grows
  BY <1>0, <1>1, <1>3 DEF RowsKept, Grows, TypeOK, Moment, signed
<1>6. ChooserSound'
  BY <1>0, <1>1 DEF ChooserSound, UseExpired, signed, history
<1>7. TokensSound' /\ FactorSound' /\ LoginsSound'
  BY <1>0, <1>1, <1>4, <1>5, TokensStill, Untouched DEF signed, history
<1>8. OneHolder'
  BY <1>1 DEF IInv, OneHolder, Holds
<1>9. \A u \in Tx : Stands(tx[u])'
  BY <1>1, <1>5, OthersStand
<1>10. QED
  BY <1>4, <1>6, <1>7, <1>8, <1>9 DEF IInv, TablesSound

LEMMA TickKeeps ==
  ASSUME IInv, Tick
  PROVE  IInv'
<1>0. /\ TypeOK /\ TablesSound /\ ChooserSound /\ user.epoch \in Nat /\ now \in Int
      /\ \A j \in Jti : chooser[j].expires \in Int
  BY Typed DEF IInv, UserRow, TablesSound, Moment, TypeOK
<1>1. now' = now + 1 /\ UNCHANGED <<user, tok, signed, claimed, tx, history>>
  BY DEF Tick
<1>2. now' \in Moment
  BY <1>0, CredentialsAssumption DEF Tick, TypeOK, Moment
<1>3. TypeOK'
  BY <1>0, <1>1, <1>2, Typed, TypesAgain DEF TypeOK, signed, history
<1>4. RowsKept
  BY <1>0, <1>1 DEF RowsKept, signed
<1>5. ChooserSound'
  <2>1. \A j \in Jti : chooser[j].expires <= now => chooser[j].expires <= now'
    BY <1>0, <1>1
  <2>2. QED
    BY <1>0, <1>1, <2>1 DEF ChooserSound, signed, history
<1>6. TokensSound' /\ FactorSound' /\ LoginsSound'
  BY <1>0, <1>1, Untouched DEF signed, history
<1>7. OneHolder'
  BY <1>1 DEF IInv, OneHolder, Holds
<1>8. \A u \in Tx : Stands(tx[u])'
  BY <1>1, <1>4, OthersStand DEF Tick, Committing
<1>9. QED
  BY <1>3, <1>5, <1>6, <1>7, <1>8 DEF IInv, TablesSound

LEMMA MovesKeeps ==
  ASSUME IInv, NEW t \in Tx, NEW new, Moves(t, new)
  PROVE  IInv'
<1>0. TypeOK /\ TablesSound /\ tx \in [Tx -> TxRecord]
  BY Typed DEF IInv
<1>1. Quiet /\ tx' \in [Tx -> TxRecord] /\ tx'[t] = new /\ \A u \in Tx : u # t => tx'[u] = tx[u]
  BY <1>0 DEF Moves
<1>2. TypeOK'
  BY <1>0, <1>1, Typed, TypesAgain DEF TypeOK, Quiet, signed, history
<1>3. TablesSound'
  BY <1>0, <1>1, Untouched DEF TablesSound, Quiet, signed, history
<1>4. OneHolder'
  BY <1>1 DEF IInv, OneHolder, Moves, Holds
<1>5. \A u \in Tx : Stands(tx[u])'
  <2>1. Stands(tx[t])'
    BY <1>1 DEF Moves, Stands, Quiet, signed
  <2>2. ASSUME NEW u \in Tx, u # t PROVE Stands(tx[u])'
    BY <1>1, <2>2 DEF IInv, Stands, Quiet, signed
  <2>3. QED
    BY <2>1, <2>2
<1>6. QED
  BY <1>2, <1>3, <1>4, <1>5 DEF IInv

----------------------------------------------------------------------------
(* The inductive invariant.                                                *)

LEMMA InvariantBegins ==
  ASSUME Init
  PROVE  IInv
<1>1. user \in UserRow /\ user.epoch = 0 /\ user.secret = None
  <2> DEFINE row(e, p) == [exists : {e}, pw : p, epoch : {0}, secret : {None}, last : {Never}]
  <2>1. user \in row(FALSE, {None}) \/ user \in row(TRUE, Password \cup {None})
    BY DEF Init
  <2>2. \A e \in BOOLEAN, p \in SUBSET (Password \cup {None}) :
          \A u \in row(e, p) : u \in UserRow /\ u.epoch = 0 /\ u.secret = None
    BY DEF UserRow
  <2>3. QED
    BY <2>1, <2>2
<1>2. tok \in [TokenId -> TokenRow]
  BY DEF Init, BlankToken, TokenRow, TokenType
<1>3. tx \in [Tx -> TxRecord] /\ \A t \in Tx : tx[t] = Idle
  BY IdleTyped DEF Init
<1>4. TypeOK
  BY <1>1, <1>2, <1>3, CredentialsAssumption
  DEF Init, TypeOK, UserRow, TokenRow, TxRecord, Moment
<1>5. TokensSound
  BY DEF Init, TokensSound, OneRecoveryPerEpoch, Opened
<1>6. FactorSound
  BY <1>1, CredentialsAssumption DEF Init, FactorSound, Never
<1>7. ChooserSound /\ LoginsSound
  BY DEF Init, ChooserSound, LoginsSound, LoginsProveCurrentCredentials
<1>8. OneHolder /\ \A t \in Tx : Stands(tx[t])
  BY <1>3, IdleTyped DEF OneHolder
<1>9. QED
  BY <1>4, <1>5, <1>6, <1>7, <1>8 DEF IInv, TablesSound

LEMMA InvariantStays ==
  ASSUME IInv, [Next]_vars
  PROVE  IInv'
<1>1. ASSUME NEW t \in Tx, Issue(t) PROVE IInv'
  BY <1>1, IssuesBegin, MovesKeeps, SupersedeKeeps, CreateTokenKeeps DEF Issue
<1>2. ASSUME NEW t \in Tx, Present(t) PROVE IInv'
  <2>1. \E new : Moves(t, new)
    BY <1>2, TokensPresented, OthersPresented DEF Present
  <2>2. QED
    BY <2>1, MovesKeeps
<1>3. ASSUME NEW t \in Tx, LockUser(t) PROVE IInv'
  BY <1>3, LockMoves, MovesKeeps
<1>4. ASSUME NEW t \in Tx, Abort(t) PROVE IInv'
  BY <1>4, Aborts, MovesKeeps
<1>5. ASSUME NEW t \in Tx, Commit(t) PROVE IInv'
  <2>1. CASE ResetPassword(t) \/ ResetTwoFa(t)
    BY <1>4, <2>1, RecoveryKeeps DEF ResetPassword, ResetTwoFa
  <2>2. CASE LoginByLink(t) \/ LoginByCode(t) \/ Register(t)
    BY <1>4, <2>2, MailLoginKeeps DEF LoginByLink, LoginByCode, Register
  <2>3. CASE SocialLogin(t) \/ LoginByPassword(t)
    BY <1>4, <2>3, DirectLoginKeeps DEF LoginByPassword
  <2>4. CASE SelectTeam(t)
    <3>1. CASE chooser[tx[t].ref].expires <= tx[t].at \/ ~Unclaimed(tx[t].ref)
      BY <1>4, <2>4, <3>1 DEF SelectTeam
    <3>2. CASE ~(chooser[tx[t].ref].expires <= tx[t].at) /\ Unclaimed(tx[t].ref)
      <4>1. chooser[tx[t].ref].expires \in Int /\ tx[t].at \in Int
        BY <2>4, Typed DEF IInv, Stands, Works, SelectTeam, Committing, TypeOK, TxRecord, Moment
      <4>2. QED
        BY <2>4, <3>2, <4>1, SelectTeamKeeps
    <3>3. QED
      BY <3>1, <3>2
  <2>5. QED
    BY <1>5, <2>1, <2>2, <2>3, <2>4, WrongCodeKeeps, StartSetupKeeps, EnrollKeeps,
       VerifyTwoFaKeeps, DisableTwoFaKeeps, AdminResetKeeps, SignChooserKeeps DEF Commit
<1>6. CASE UNCHANGED vars
  <2>1. TypeOK' /\ TablesSound'
    BY <1>6, Untouched DEF IInv, TypeOK, TablesSound, vars, signed, history
  <2>2. OneHolder' /\ \A u \in Tx : Stands(tx[u])'
    BY <1>6 DEF IInv, OneHolder, Holds, Stands, vars, signed
  <2>3. QED
    BY <2>1, <2>2 DEF IInv
<1>7. QED
  BY <1>1, <1>2, <1>3, <1>4, <1>5, <1>6, PruneKeeps, TickKeeps DEF Next, Fail

LEMMA InvariantHolds == Spec => []IInv
<1>1. Init => IInv
  BY InvariantBegins
<1>2. IInv /\ [Next]_vars => IInv'
  BY InvariantStays
<1>3. QED
  BY <1>1, <1>2, PTL DEF Spec

----------------------------------------------------------------------------
(* Every variable has its type: the login of a code compares with a row,   *)
(* a setup or a login_token is one that was signed.                        *)
THEOREM TypeCorrect == Spec => []TypeOK
<1>1. IInv => TypeOK
  BY DEF IInv
<1>2. QED
  BY <1>1, InvariantHolds, PTL

(* Of any number of registration and recovery e-mails in an inbox, clicked *)
(* in any order and at once: one opens the account, one of an epoch        *)
(* recovers it (auth-register, auth-reset-password and twofactor-reset     *)
(* consume under the user lock, or through the unique userKey).            *)
THEOREM OneLinkIsEnough == Spec => []OneLinkWins
<1>1. ASSUME IInv PROVE OneRegistrationPerAccount
  <2> DEFINE S == {k \in TokenId : Opened(k)}
  <2>1. \A j, k \in S : j = k
    BY <1>1 DEF IInv, TablesSound, TokensSound
  <2>2. Cardinality(S) <= 1
    <3>1. CASE S = {}
      BY <3>1, FS_EmptySet
    <3>2. CASE S # {}
      <4>1. PICK k \in S : TRUE
        BY <3>2
      <4>2. S = {k}
        BY <2>1, <4>1
      <4>3. Cardinality({k}) = 1
        BY FS_Singleton
      <4>4. QED
        BY <4>2, <4>3
    <3>3. QED
      BY <3>1, <3>2
  <2>3. QED
    BY <2>2 DEF OneRegistrationPerAccount, Opened
<1>2. IInv => OneLinkWins
  BY <1>1 DEF OneLinkWins, IInv, TablesSound, TokensSound
<1>3. QED
  BY <1>2, InvariantHolds, PTL

(* A login of the current epoch was made with the password and the second  *)
(* factor the account has: whatever changes either moves the epoch.        *)
THEOREM LoginsAreCurrent == Spec => []LoginsProveCurrentCredentials
<1>1. IInv => LoginsProveCurrentCredentials
  BY DEF IInv, TablesSound, LoginsSound
<1>2. QED
  BY <1>1, InvariantHolds, PTL

(* Who selects a workspace found no record of an earlier use, which there  *)
(* is until the login_token expires.                                       *)
LEMMA SelectionsInTime ==
  ASSUME IInv, NEW t \in Tx, SelectTeam(t), NEW j \in Jti, selected'[j] # selected[j]
  PROVE  selected[j] = 0 \/ (RecordedLate(t, j) /\ tx'[t] # tx[t])
<1>0. /\ TypeOK /\ ChooserSound /\ now \in Int /\ tx[t].at \in Int
      /\ chooser[j].expires \in Int /\ selected[j] \in Nat
  BY Typed DEF IInv, TablesSound, TypeOK, Moment, TxRecord
<1>1. /\ ~(chooser[tx[t].ref].expires <= tx[t].at) /\ Unclaimed(tx[t].ref)
      /\ selected' = [selected EXCEPT ![tx[t].ref] = @ + 1] /\ End(t)
  BY <1>0 DEF SelectTeam, Abort, history
<1>2. tx[t].ref = j
  BY <1>0, <1>1 DEF TypeOK
<1>3. tx'[t] # tx[t] /\ Committing(t, "select")
  BY <1>0, <1>1, EndTyped DEF SelectTeam, Committing, Idle
<1>4. selected[j] > 0 => chooser[j].expires <= now
  BY <1>0, <1>1, <1>2 DEF ChooserSound, Unclaimed
<1>5. QED
  BY <1>0, <1>1, <1>2, <1>3, <1>4 DEF RecordedLate

LEMMA OnlySelectionsSelect ==
  ASSUME [Next]_vars, \A t \in Tx : ~SelectTeam(t)
  PROVE  selected' = selected
<1>1. ASSUME NEW t \in Tx, Abort(t) \/ Issue(t) PROVE selected' = selected
  BY <1>1 DEF Abort, Issue, BeginIssue, Begin, Supersede, CreateToken, history
<1>2. ASSUME NEW t \in Tx, Present(t) PROVE selected' = selected
  BY <1>2 DEF Present, Begin, BeginConsume, BeginLogin, BeginProved, BeginEnroll, BeginSelect,
              BeginCode, BeginSocial, BeginAdminReset, history
<1>3. ASSUME NEW t \in Tx, LockUser(t) PROVE selected' = selected
  BY <1>1, <1>3 DEF LockUser, history
<1>4. ASSUME NEW t \in Tx, Commit(t) PROVE selected' = selected
  <2>1. CASE ResetPassword(t) \/ ResetTwoFa(t) \/ LoginByLink(t) \/ LoginByCode(t) \/ WrongCode(t)
    BY <1>1, <2>1 DEF ResetPassword, ResetTwoFa, LoginByLink, LoginByCode, WrongCode, Spend
  <2>2. CASE Register(t) \/ SocialLogin(t) \/ LoginByPassword(t) \/ StartSetup(t) \/ Enroll(t)
    BY <1>1, <2>2 DEF Register, SocialLogin, LoginByPassword, StartSetup, Enroll, Spend, history
  <2>3. CASE VerifyTwoFa(t) \/ DisableTwoFa(t) \/ AdminReset(t) \/ SignChooser(t)
    BY <2>3 DEF VerifyTwoFa, DisableTwoFa, AdminReset, SignChooser, history
  <2>4. QED
    BY <1>4, <2>1, <2>2, <2>3 DEF Commit
<1>5. Prune \/ Tick \/ UNCHANGED vars => selected' = selected
  BY DEF Prune, Tick, vars, history
<1>6. QED
  BY <1>1, <1>2, <1>3, <1>4, <1>5 DEF Next, Fail

(* Whatever the clock and the pruning do meanwhile: links, codes, TOTP     *)
(* steps and setup secrets count once, and who records the use of a        *)
(* chooser login_token before it expires is its only user.                 *)
THEOREM EveryProofCountsOnce == Spec => ProofsCountOnce
<1>1. IInv => TokensAreSingleUse /\ TotpStepsAreSingleUse /\ SecretsAreEnrolledOnce
  BY DEF IInv, TablesSound, TokensSound, FactorSound, TokensAreSingleUse, TotpStepsAreSingleUse,
         SecretsAreEnrolledOnce
<1>2. IInv /\ [Next]_vars =>
        [\A j \in Jti : selected'[j] # selected[j] =>
           \/ selected[j] = 0
           \/ \E t \in Tx : RecordedLate(t, j) /\ tx'[t] # tx[t]]_vars
  BY SelectionsInTime, OnlySelectionsSelect
<1>3. QED
  BY <1>1, <1>2, InvariantHolds, PTL DEF Spec, ProofsCountOnce, ChoosersCountOnce

(* No use of a login_token is about to be recorded late.                   *)
UsesInTime == \A t \in Tx, j \in Jti : ~RecordedLate(t, j)

(* "Exactly once" fails through late records and nothing else: a chooser   *)
(* login_token selects one workspace in every behaviour in which no use of *)
(* it waits past its expiry for its insert (ChooserPruning.cfg).           *)
THEOREM OnlyLateRecordsReuseChoosers == Spec /\ []UsesInTime => []ChooserIsSingleUse
<1>1. Init => ChooserIsSingleUse
  BY DEF Init, ChooserIsSingleUse
<1>2. IInv /\ ChooserIsSingleUse /\ UsesInTime /\ [Next]_vars => ChooserIsSingleUse'
  <2> SUFFICES ASSUME IInv, ChooserIsSingleUse, UsesInTime, [Next]_vars, NEW j \in Jti
               PROVE  selected'[j] <= 1
    BY DEF ChooserIsSingleUse
  <2>1. CASE \E t \in Tx : SelectTeam(t)
    <3>1. PICK t \in Tx : SelectTeam(t)
      BY <2>1
    <3>2. selected'[j] # selected[j] => selected[j] = 0
      BY <3>1, SelectionsInTime DEF UsesInTime
    <3>3. selected' = selected \/ selected' = [selected EXCEPT ![tx[t].ref] = @ + 1]
      BY <3>1 DEF SelectTeam, Abort, history
    <3>4. QED
      BY <3>2, <3>3 DEF ChooserIsSingleUse, IInv, TypeOK
  <2>2. CASE \A t \in Tx : ~SelectTeam(t)
    BY <2>2, OnlySelectionsSelect DEF ChooserIsSingleUse
  <2>3. QED
    BY <2>1, <2>2
<1>3. QED
  BY <1>1, <1>2, InvariantHolds, PTL DEF Spec

----------------------------------------------------------------------------
(* Retiring the older login codes and inserting the new one are two        *)
(* statements; ActiveCodes shows what comes between them, and nothing but  *)
(* the same two statements of another request can.                         *)

UnusedCodes == {k \in TokenId : Exists(k) /\ tok[k].type = "LOGIN_CODE" /\ ~tok[k].used}
InsertsCode(t) == tx[t].pc = "create" /\ tx[t].op = "LOGIN_CODE"

(* No two are between those statements at the same time.                   *)
InsertsApart == \A s, t \in Tx : InsertsCode(s) /\ InsertsCode(t) => s = t

OneUnusedCode ==
  /\ \A j, k \in UnusedCodes : j = k
  /\ \A t \in Tx : InsertsCode(t) => UnusedCodes = {}

(* All steps but the two statements of issueLoginCode leave codes alone or *)
(* use them up.                                                            *)
CodesDwindle == UnusedCodes' \subseteq UnusedCodes
                /\ \A t \in Tx : InsertsCode(t)' => InsertsCode(t)

LEMMA QuietDwindles ==
  ASSUME IInv, NEW t \in Tx, NEW new, tx' = [tx EXCEPT ![t] = new], tok' = tok,
         ~(new.pc = "create" /\ new.op = "LOGIN_CODE")
  PROVE  CodesDwindle
<1>1. tx'[t] = new /\ \A u \in Tx : u # t => tx'[u] = tx[u]
  BY Typed DEF IInv
<1>2. UnusedCodes' = UnusedCodes
  BY DEF UnusedCodes, Exists
<1>3. QED
  BY <1>1, <1>2 DEF CodesDwindle, InsertsCode

LEMMA EndDwindles ==
  ASSUME IInv, NEW t \in Tx, End(t),
         tok' = tok \/ \E k \in TokenId : tok' = [tok EXCEPT ![k].used = TRUE]
  PROVE  CodesDwindle
<1>1. tx'[t] = Idle /\ \A u \in Tx : u # t => tx'[u] = tx[u]
  BY Typed DEF IInv, End
<1>2. UnusedCodes' \subseteq UnusedCodes
  <2>1. CASE tok' = tok
    BY <2>1 DEF UnusedCodes, Exists
  <2>2. CASE \E k \in TokenId : tok' = [tok EXCEPT ![k].used = TRUE]
    <3>1. PICK k \in TokenId : tok' = [tok EXCEPT ![k].used = TRUE]
      BY <2>2
    <3>2. tok \in [TokenId -> TokenRow]
      BY Typed DEF IInv
    <3>3. \A j \in TokenId :
            tok'[j].st = tok[j].st /\ tok'[j].type = tok[j].type /\ (tok[j].used => tok'[j].used)
      BY <3>1, <3>2 DEF TokenRow
    <3>4. QED
      BY <3>3 DEF UnusedCodes, Exists
  <2>3. QED
    BY <2>1, <2>2
<1>3. \A u \in Tx : InsertsCode(u)' => InsertsCode(u)
  BY <1>1 DEF InsertsCode, Idle
<1>4. QED
  BY <1>2, <1>3 DEF CodesDwindle

LEMMA BeginDwindles ==
  ASSUME IInv, NEW t \in Tx, NEW new, Begin(t, new),
         ~(new.pc = "create" /\ new.op = "LOGIN_CODE")
  PROVE  CodesDwindle
BY QuietDwindles DEF Begin

LEMMA CommitDwindles ==
  ASSUME IInv, NEW t \in Tx, Commit(t)
  PROVE  CodesDwindle
<1>1. tx[t].pc = "commit" /\ tx[t].op \in TokenType => tx[t].ref \in TokenId
  BY DEF IInv, Stands, Works
<1>2. CASE ResetPassword(t) \/ ResetTwoFa(t) \/ LoginByLink(t) \/ LoginByCode(t)
  <2>1. tx[t].ref \in TokenId
    BY <1>1, <1>2 DEF ResetPassword, ResetTwoFa, LoginByLink, LoginByCode, Committing,
                      TokenType, Recovery
  <2>2. QED
    BY <1>2, <2>1, EndDwindles
       DEF ResetPassword, ResetTwoFa, LoginByLink, LoginByCode, Spend, Abort
<1>3. CASE Register(t)
  <2>1. tx[t].ref \in TokenId
    BY <1>1, <1>3 DEF Register, IsRegistration, TokenType
  <2>2. QED
    BY <1>3, <2>1, EndDwindles DEF Register, Spend
<1>4. CASE WrongCode(t) \/ SocialLogin(t) \/ LoginByPassword(t) \/ StartSetup(t) \/ Enroll(t)
           \/ VerifyTwoFa(t) \/ DisableTwoFa(t) \/ AdminReset(t) \/ SignChooser(t) \/ SelectTeam(t)
  BY <1>4, EndDwindles
     DEF WrongCode, SocialLogin, LoginByPassword, StartSetup, Enroll, VerifyTwoFa, DisableTwoFa,
         AdminReset, SignChooser, SelectTeam, Abort
<1>5. QED
  BY <1>2, <1>3, <1>4 DEF Commit

LEMMA StepsDwindle ==
  ASSUME IInv, [Next]_vars
  PROVE  CodesDwindle \/ \E t \in Tx : Supersede(t) \/ CreateToken(t)
<1>1. ASSUME NEW t \in Tx, NEW type \in TokenType, BeginIssue(t, type) PROVE CodesDwindle
  BY <1>1, BeginDwindles DEF BeginIssue, Idle
<1>2. ASSUME NEW t \in Tx, Present(t) PROVE CodesDwindle
  <2>1. ASSUME NEW k \in TokenId, BeginConsume(t, k) PROVE CodesDwindle
    BY <2>1, BeginDwindles DEF BeginConsume, Idle
  <2>2. ASSUME NEW p \in Password, BeginLogin(t, p) PROVE CodesDwindle
    BY <2>2, BeginDwindles DEF BeginLogin, Idle
  <2>3. ASSUME NEW op \in Proved, NEW l \in logins, BeginProved(t, op, l) PROVE CodesDwindle
    BY <2>3, BeginDwindles DEF BeginProved, Idle
  <2>4. ASSUME NEW s \in Secret, BeginEnroll(t, s) PROVE CodesDwindle
    BY <2>4, BeginDwindles DEF BeginEnroll, Idle
  <2>5. ASSUME NEW j \in Jti, BeginSelect(t, j) PROVE CodesDwindle
    BY <2>5, BeginDwindles DEF BeginSelect, Idle
  <2>6. CASE BeginCode(t)
    BY <2>6, BeginDwindles DEF BeginCode, Candidates, Idle
  <2>7. CASE BeginSocial(t) \/ BeginAdminReset(t)
    BY <2>7, BeginDwindles DEF BeginSocial, BeginAdminReset, Idle
  <2>8. QED
    BY <1>2, <2>1, <2>2, <2>3, <2>4, <2>5, <2>6, <2>7 DEF Present
<1>3. ASSUME NEW t \in Tx, Abort(t) PROVE CodesDwindle
  BY <1>3, EndDwindles DEF Abort
<1>4. ASSUME NEW t \in Tx, LockUser(t) PROVE CodesDwindle
  <2>1. CASE EpochHolds(t)
    <3> DEFINE new == [tx[t] EXCEPT !.pc = "commit", !.at = now]
    <3>1. tx' = [tx EXCEPT ![t] = new] /\ tok' = tok /\ new.pc = "commit"
      BY <1>4, <2>1, Typed DEF LockUser, IInv, TxRecord
    <3>2. QED
      BY <3>1, QuietDwindles
  <2>2. QED
    BY <1>3, <1>4, <2>1 DEF LockUser
<1>5. CASE Prune
  <2>1. tok \in [TokenId -> TokenRow] /\ tx' = tx
    BY <1>5, Typed DEF IInv, Prune
  <2>2. \A k \in TokenId : tok'[k] = tok[k] \/ tok'[k].st = "pruned"
    BY <1>5, <2>1 DEF Prune, TokenRow
  <2>3. QED
    BY <2>1, <2>2 DEF CodesDwindle, UnusedCodes, Exists, InsertsCode
<1>6. CASE Tick \/ UNCHANGED vars
  BY <1>6 DEF Tick, vars, CodesDwindle, UnusedCodes, Exists, InsertsCode
<1>7. QED
  BY <1>1, <1>2, <1>3, <1>4, <1>5, <1>6, CommitDwindles DEF Next, Issue, Fail

LEMMA OneUnusedCodeStays ==
  ASSUME IInv, InsertsApart, OneUnusedCode, [Next]_vars
  PROVE  OneUnusedCode'
<1>0. tok \in [TokenId -> TokenRow] /\ tx \in [Tx -> TxRecord]
  BY Typed DEF IInv
<1>1. CASE CodesDwindle
  BY <1>1 DEF CodesDwindle, OneUnusedCode
<1>2. ASSUME NEW t \in Tx, Supersede(t) PROVE OneUnusedCode'
  <2>1. \A k \in TokenId :
          ~(tok'[k].st = "row" /\ tok'[k].type = "LOGIN_CODE" /\ ~tok'[k].used)
    BY <1>0, <1>2 DEF Supersede, Exists, TokenRow
  <2>2. UnusedCodes' = {}
    BY <2>1 DEF UnusedCodes, Exists
  <2>3. QED
    BY <2>2 DEF OneUnusedCode
<1>3. ASSUME NEW t \in Tx, CreateToken(t) PROVE OneUnusedCode'
  <2>1. PICK k \in TokenId :
          /\ tok[k].st = "none"
          /\ \A j \in TokenId : j # k => tok'[j] = tok[j]
          /\ tok'[k].type = tx[t].op
    BY <1>0, <1>3 DEF CreateToken
  <2>2. tx'[t] = Idle /\ \A u \in Tx : u # t => tx'[u] = tx[u]
    BY <1>0, <1>3 DEF CreateToken, End
  <2>3. \A u \in Tx : InsertsCode(u)' => u # t /\ InsertsCode(u)
    BY <2>2 DEF InsertsCode, Idle
  <2>4. CASE tx[t].op = "LOGIN_CODE"
    <3>1. InsertsCode(t)
      BY <1>3, <2>4 DEF InsertsCode, CreateToken
    <3>2. UnusedCodes = {}
      BY <3>1 DEF OneUnusedCode
    <3>3. UnusedCodes' \subseteq {k}
      BY <2>1, <3>2 DEF UnusedCodes, Exists
    <3>4. \A u \in Tx : ~InsertsCode(u)'
      BY <2>3, <3>1 DEF InsertsApart
    <3>5. QED
      BY <3>3, <3>4 DEF OneUnusedCode
  <2>5. CASE tx[t].op # "LOGIN_CODE"
    <3>1. UnusedCodes' \subseteq UnusedCodes
      BY <2>1, <2>5 DEF UnusedCodes, Exists
    <3>2. QED
      BY <2>3, <3>1 DEF OneUnusedCode
  <2>6. QED
    BY <2>4, <2>5
<1>4. QED
  BY <1>1, <1>2, <1>3, StepsDwindle

(* At most one active code per account (login-code.service.ts), in every   *)
(* behaviour in which no two requests for a code are between retiring the  *)
(* older ones and inserting their own at the same time: logins, attempts,  *)
(* resets and whatever else uses a code up may come between.               *)
THEOREM OnlyRacesLeaveTwoCodes == Spec /\ []InsertsApart => []AtMostOneActiveCode
<1>1. Init => OneUnusedCode
  BY DEF Init, OneUnusedCode, UnusedCodes, Exists, BlankToken, InsertsCode, Idle
<1>2. ASSUME OneUnusedCode PROVE AtMostOneActiveCode
  <2> DEFINE S == {k \in Candidates : tok[k].expires > now}
  <2>1. \A j, k \in S : j = k
    BY <1>2 DEF OneUnusedCode, UnusedCodes, Candidates
  <2>2. CASE S = {}
    BY <2>2, FS_EmptySet DEF AtMostOneActiveCode
  <2>3. CASE S # {}
    <3>1. PICK k \in S : TRUE
      BY <2>3
    <3>2. S = {k}
      BY <2>1, <3>1
    <3>3. Cardinality({k}) = 1
      BY FS_Singleton
    <3>4. Cardinality(S) <= 1
      BY SMTT(30), <3>2, <3>3
    <3>5. QED
      BY <3>4 DEF AtMostOneActiveCode
  <2>4. QED
    BY <2>2, <2>3
<1>3. IInv /\ InsertsApart /\ OneUnusedCode /\ [Next]_vars => OneUnusedCode'
  BY OneUnusedCodeStays
<1>4. QED
  BY <1>1, <1>2, <1>3, InvariantHolds, PTL DEF Spec

=============================================================================
