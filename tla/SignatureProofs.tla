-------------------------- MODULE SignatureProofs --------------------------
(***************************************************************************)
(* Proofs about Signatures, for any number of agreements, versions,        *)
(* continuations and connections, and any operations a behaviour is about. *)
(***************************************************************************)
EXTENDS Signatures, TLAPS

AdminPc == {"editing", "uploading", "replacing", "deleting", "cleaning", "publishing",
            "withdrawing", "switching"}
DraftPc == {"uploading", "replacing", "deleting", "cleaning", "publishing", "withdrawing"}
SignPc  == {"submit", "evidence", "mark", "final", "appending", "voiding"}

(* What a connection works on is there.                                    *)
TxSound(t) ==
  LET x == tx[t] IN
  /\ x.pc \in AdminPc \cup {"gate", "refresh", "continuing"} => x.c = None
  /\ x.pc = "editing" => x.a \in Agreement /\ x.title \in Title
  /\ x.pc \in DraftPc => x.v \in Version
  /\ x.pc \in {"uploading", "publishing"} => x.a \in Agreement
  /\ x.pc = "uploading" => x.title \in Text /\ x.num = 0
  /\ x.pc \in {"replacing", "cleaning"} => x.num \in File
  /\ x.pc \in SignPc => x.c \in Cont /\ x.v \in Version
  /\ x.pc = "complete" => x.c \in Cont
  /\ x.c # None => cont[x.c].st # "none" /\ cont[x.c].epoch = x.epoch

Base == TypeOK /\ \A t \in Tx : TxSound(t)

(* An idle connection is a well-typed record.                            *)
LEMMA IdleTyped == Idle \in TxRecord /\ Idle.c = None /\ Idle.v = None /\ Idle.num = 0
BY SignaturesAssumption DEF Idle, TxRecord, Pc, File

(* Both initial states, the empty domain and the enabled one, are well typed. *)
LEMMA BaseInitially == Init => Base
<1> SUFFICES ASSUME Init PROVE Base
  OBVIOUS
<1>1. /\ ag \in [Agreement -> AgreementRow] /\ ver \in [Version -> VersionRow]
      /\ settings \in [enabled : BOOLEAN, rev : Nat]
      /\ files \in [Version \X File -> {"never", "stored", "deleted"}]
  <2>1. CASE Empty
    BY <2>1, SignaturesAssumption DEF Empty, NoAgreement, NoVersion, AgreementRow, VersionRow, File
  <2>2. CASE \E a \in Agreement, v \in Version, title \in Title, text \in Text :
               \E drafts \in SUBSET (Version \ {v}) : OneRequired(a, v, drafts, title, text)
    BY <2>2, SignaturesAssumption
    DEF OneRequired, NoAgreement, NoVersion, AgreementRow, VersionRow, File
  <2>3. QED
    BY <2>1, <2>2 DEF Init
<1>2. /\ cont \in [Cont -> ContRow] /\ claim \in [Claim -> ClaimRow]
      /\ sig \in [Claim -> {"none", "valid", "revoked"}]
      /\ scope \in Scopes /\ receipts \subseteq Claim /\ epoch = 0 /\ codes = 0 /\ now = 0
  BY SignaturesAssumption DEF Init, NoCont, NoClaim, ContRow, ClaimRow, File
<1>3. tx = [t \in Tx |-> Idle]
  BY DEF Init
<1>4. TypeOK
  BY <1>1, <1>2, <1>3, IdleTyped DEF TypeOK, TablesTyped
<1>5. \A t \in Tx : TxSound(t)
  BY <1>3 DEF TxSound, Idle, AdminPc, DraftPc, SignPc
<1>6. QED
  BY <1>4, <1>5 DEF Base

(* A connection that ends, or that starts or goes on, is still sound, and  *)
(* so are the others, as long as continuations are not forgotten.          *)
ContsKept == \A c \in Cont : cont[c].st # "none"
               => cont'[c].st # "none" /\ cont'[c].epoch = cont[c].epoch

(* A step that writes one connection keeps all of them typed and sound.  *)
LEMMA TxKept ==
  ASSUME Base, ContsKept, NEW t \in Tx, NEW r \in TxRecord, tx' = [tx EXCEPT ![t] = r],
         TxSound(t)'
  PROVE  tx' \in [Tx -> TxRecord] /\ \A s \in Tx : TxSound(s)'
<1>1. tx \in [Tx -> TxRecord] /\ \A s \in Tx : TxSound(s)
  BY DEF Base, TypeOK, TablesTyped
<1>2. tx' \in [Tx -> TxRecord]
  BY <1>1
<1>3. ASSUME NEW s \in Tx, s # t PROVE TxSound(s)'
  <2>1. tx'[s] = tx[s] /\ tx[s].c \in Cont \cup {None}
    BY <1>1, <1>3 DEF TxRecord
  <2>2. tx[s].c # None => cont'[tx[s].c].st # "none" /\ cont'[tx[s].c].epoch = tx[s].epoch
    BY <1>1, <1>3, <2>1 DEF TxSound, ContsKept
  <2>3. QED
    BY <1>1, <1>3, <2>1, <2>2 DEF TxSound
<1>4. QED
  BY <1>2, <1>3

(* A connection that has ended is sound.                                 *)
LEMMA IdleSound == ASSUME NEW t \in Tx, tx'[t] = Idle PROVE TxSound(t)'
BY DEF TxSound, Idle, AdminPc, DraftPc, SignPc

(* Ending a transaction keeps every connection typed and sound.          *)
LEMMA EndKeepsTx ==
  ASSUME Base, ContsKept, NEW t \in Tx, End(t)
  PROVE  tx' \in [Tx -> TxRecord] /\ \A s \in Tx : TxSound(s)'
<1>1. tx' = [tx EXCEPT ![t] = Idle] /\ tx'[t] = Idle
  BY DEF End, Base, TypeOK
<1>2. QED
  BY <1>1, IdleTyped, IdleSound, TxKept

(* So does a step that moves no connection.                              *)
LEMMA OthersKeepTx ==
  ASSUME Base, ContsKept, tx' = tx
  PROVE  tx' \in [Tx -> TxRecord] /\ \A s \in Tx : TxSound(s)'
<1>1. tx \in [Tx -> TxRecord] /\ \A s \in Tx : TxSound(s)
  BY DEF Base, TypeOK, TablesTyped
<1>2. ASSUME NEW s \in Tx PROVE TxSound(s)'
  <2>1. tx'[s] = tx[s] /\ tx[s].c \in Cont \cup {None}
    BY <1>1 DEF TxRecord
  <2>2. tx[s].c # None => cont'[tx[s].c].st # "none" /\ cont'[tx[s].c].epoch = tx[s].epoch
    BY <1>1, <2>1 DEF TxSound, ContsKept
  <2>3. QED
    BY <1>1, <2>1, <2>2 DEF TxSound
<1>3. QED
  BY <1>1, <1>2

(* A step to another pc leaves the rest of the record as it was.           *)
LEMMA GotoKeepsTx ==
  ASSUME Base, ContsKept, NEW t \in Tx, NEW pc \in Pc, Goto(t, pc),
         pc \in SignPc => tx[t].pc \in SignPc,
         pc \in {"continuing"} => tx[t].pc = "gate",
         pc \in SignPc \cup {"granting", "continuing"}
  PROVE  tx' \in [Tx -> TxRecord] /\ \A s \in Tx : TxSound(s)'
<1>1. tx \in [Tx -> TxRecord] /\ TxSound(t)
  BY DEF Base, TypeOK, TablesTyped
<1>2. PICK r : r = [tx[t] EXCEPT !.pc = pc]
  OBVIOUS
<1>3. /\ r \in TxRecord /\ tx' = [tx EXCEPT ![t] = r] /\ tx'[t] = r
  BY <1>1, <1>2 DEF TxRecord, Goto
<1>4. /\ r.pc = pc /\ r.c = tx[t].c /\ r.v = tx[t].v /\ r.epoch = tx[t].epoch
      /\ r.c \in Cont \cup {None}
  BY <1>1, <1>2 DEF TxRecord
<1>5. r.c # None => cont'[r.c].st # "none" /\ cont'[r.c].epoch = r.epoch
  BY <1>1, <1>4 DEF TxSound, ContsKept
<1>6. TxSound(t)'
  BY <1>1, <1>3, <1>4, <1>5 DEF TxSound, AdminPc, DraftPc, SignPc
<1>7. QED
  BY <1>3, <1>6, TxKept

----------------------------------------------------------------------------
(* The tables keep their types.                                            *)

(* A step that writes no table keeps them typed.                         *)
LEMMA QuietKeepsTables ==
  ASSUME TablesTyped, UNCHANGED <<scope, tables, store, codes, now>>
  PROVE  TablesTyped'
BY DEF TablesTyped, tables, store

(* Creating and editing an agreement keep the tables typed.              *)
LEMMA EditsKeepTypes ==
  ASSUME Base, NEW t \in Tx, NEW a \in Agreement, NEW title \in Title, NEW req \in BOOLEAN,
         CreateAgreement(t, a, title, req) \/ CommitEdit(t)
  PROVE  TablesTyped'
<1>1. TablesTyped /\ tx \in [Tx -> TxRecord] /\ TxSound(t)
  BY DEF Base, TypeOK
<1>2. CASE CreateAgreement(t, a, title, req)
  BY <1>1, <1>2 DEF CreateAgreement, TablesTyped, AgreementRow, store
<1>3. CASE CommitEdit(t)
  <2>1. /\ tx[t].a \in Agreement /\ tx[t].title \in Title /\ tx[t].flag \in BOOLEAN
    BY <1>1, <1>3 DEF CommitEdit, At, TxSound, TxRecord
  <2>2. ag' \in [Agreement -> AgreementRow]
    BY <1>1, <1>3, <2>1 DEF CommitEdit, TablesTyped, AgreementRow
  <2>3. settings' \in [enabled : BOOLEAN, rev : Nat]
    BY <1>1, <1>3 DEF CommitEdit, TablesTyped, NextRevision
  <2>4. QED
    BY <1>1, <1>3, <2>2, <2>3 DEF CommitEdit, TablesTyped, store
<1>4. QED
  BY <1>2, <1>3

(* Storing and deleting a file keep the store typed.                     *)
LEMMA FilesKeepTypes ==
  ASSUME Base, NEW t \in Tx, NEW v \in Version, NEW n \in File,
         Store(v, n) \/ Delete(v, n) \/ files' = files
  PROVE  files' \in [Version \X File -> {"never", "stored", "deleted"}]
BY DEF Base, TypeOK, TablesTyped, Store, Delete

(* The operations on drafts keep the tables typed.                       *)
LEMMA DraftsKeepTypes ==
  ASSUME Base, NEW t \in Tx,
         \/ \E v \in Version, text \in Text :
              ChangeText(t, v, text) \/ \E a \in Agreement : BeginUpload(t, v, a, text)
         \/ \E v \in Version, n \in File : BeginReplace(t, v, n)
         \/ CommitUpload(t) \/ CommitReplace(t) \/ CommitDelete(t)
         \/ CleanUp(t) \/ FailFile(t)
  PROVE  TablesTyped'
<1>1. TablesTyped /\ tx \in [Tx -> TxRecord] /\ TxSound(t) /\ 0 \in File
  BY SignaturesAssumption DEF Base, TypeOK, File
<1>2. ASSUME NEW v \in Version, NEW text \in Text, ChangeText(t, v, text) PROVE TablesTyped'
  BY <1>1, <1>2 DEF ChangeText, MayWriteDraft, TablesTyped, VersionRow, NoVersion, store
<1>3. ASSUME NEW v \in Version, NEW text \in Text, NEW a \in Agreement,
             BeginUpload(t, v, a, text)
      PROVE  TablesTyped'
  <2>1. files' \in [Version \X File -> {"never", "stored", "deleted"}]
    BY <1>1, <1>3, FilesKeepTypes DEF BeginUpload
  <2>2. QED
    BY <1>1, <1>3, <2>1 DEF BeginUpload, TablesTyped, tables
<1>4. ASSUME NEW v \in Version, NEW n \in File, BeginReplace(t, v, n) PROVE TablesTyped'
  <2>1. files' \in [Version \X File -> {"never", "stored", "deleted"}]
    BY <1>1, <1>4, FilesKeepTypes DEF BeginReplace
  <2>2. QED
    BY <1>1, <1>4, <2>1 DEF BeginReplace, TablesTyped, tables
<1>5. CASE CommitUpload(t)
  <2>1. tx[t].v \in Version /\ tx[t].a \in Agreement /\ tx[t].title \in Text
    BY <1>1, <1>5 DEF CommitUpload, At, TxSound, DraftPc
  <2>2. [NoVersion EXCEPT !.st = "DRAFT", !.ag = tx[t].a, !.text = tx[t].title] \in VersionRow
    BY <1>1, <2>1 DEF NoVersion, VersionRow
  <2>3. ver' \in [Version -> VersionRow]
    BY <1>1, <1>5, <2>1, <2>2 DEF CommitUpload, TablesTyped
  <2>4. QED
    BY <1>1, <1>5, <2>3 DEF CommitUpload, TablesTyped, store
<1>6. CASE CommitReplace(t)
  <2>1. tx[t].v \in Version /\ tx[t].num \in File
    BY <1>1, <1>6 DEF CommitReplace, At, TxSound, DraftPc
  <2>2. ver' \in [Version -> VersionRow]
    BY <1>1, <1>6, <2>1 DEF CommitReplace, MayWriteDraft, TablesTyped, VersionRow, NoVersion
  <2>3. QED
    BY <1>1, <1>6, <2>2 DEF CommitReplace, TablesTyped, store
<1>7. CASE CommitDelete(t)
  <2>1. NoVersion \in VersionRow
    BY <1>1 DEF NoVersion, VersionRow
  <2>2. QED
    BY <1>1, <1>7, <2>1 DEF CommitDelete, TablesTyped, store
<1>8. CASE CleanUp(t) \/ FailFile(t)
  <2>1. tx[t].v \in Version /\ tx[t].num \in File
    BY <1>1, <1>8 DEF CleanUp, FailFile, At, TxSound, DraftPc
  <2>2. Delete(tx[t].v, tx[t].num)
    BY <1>8 DEF CleanUp, FailFile
  <2>3. files' \in [Version \X File -> {"never", "stored", "deleted"}]
    BY <2>1, <2>2, FilesKeepTypes
  <2>4. QED
    BY <1>1, <1>8, <2>3 DEF CleanUp, FailFile, TablesTyped, tables
<1>9. QED
  BY <1>2, <1>3, <1>4, <1>5, <1>6, <1>7, <1>8

(* A draft becomes a well-typed published version.                       *)
LEMMA DraftTyped ==
  ASSUME NEW r \in VersionRow, r.st = "DRAFT", NEW eff \in Nat
  PROVE  [r EXCEPT !.st = "PUBLISHED", !.eff = eff] \in VersionRow
<1>1. r \in [st : {"DRAFT", "PUBLISHED", "SUPERSEDED", "WITHDRAWN"},
             ag : Agreement, text : Text, file : File, eff : Nat]
  BY DEF VersionRow, NoVersion
<1>2. QED
  BY <1>1 DEF VersionRow

(* A published version is closed into a well-typed row.                  *)
LEMMA ClosedTyped ==
  ASSUME NEW r \in VersionRow, r.st = "PUBLISHED", NEW st \in {"SUPERSEDED", "WITHDRAWN"}
  PROVE  [r EXCEPT !.st = st] \in VersionRow
BY DEF VersionRow, NoVersion

(* The next revision of the policy is typed.                             *)
LEMMA RevisionTyped ==
  ASSUME TablesTyped, NextRevision
  PROVE  settings' \in [enabled : BOOLEAN, rev : Nat]
BY DEF TablesTyped, NextRevision

(* Publication, withdrawal and the switch keep the tables typed.         *)
LEMMA PolicyKeepsTypes ==
  ASSUME Base, NEW t \in Tx, CommitPublish(t) \/ CommitWithdraw(t) \/ CommitSwitch(t)
  PROVE  TablesTyped'
<1>1. TablesTyped /\ tx \in [Tx -> TxRecord] /\ TxSound(t)
  BY DEF Base, TypeOK
<1>2. tx[t].num \in Nat /\ tx[t].flag \in BOOLEAN
  BY <1>1 DEF TxRecord
<1>3. CASE CommitPublish(t)
  <2>1. ver' \in [Version -> VersionRow]
    <3>1. ASSUME NEW v \in Version PROVE ver'[v] \in VersionRow
      <4>1. ver[v] \in VersionRow
        BY <1>1 DEF TablesTyped
      <4>2. CASE v = tx[t].v
        <5>1. ver'[v] = [ver[v] EXCEPT !.st = "PUBLISHED", !.eff = tx[t].num]
          BY <1>3, <4>2 DEF CommitPublish
        <5>2. ver[v].st = "DRAFT"
          BY <1>3, <4>2 DEF CommitPublish, MayWriteDraft
        <5>3. QED
          BY <1>2, <4>1, <5>1, <5>2, DraftTyped, ZenonT(60)
      <4>3. CASE v # tx[t].v /\ ver[v].ag = tx[t].a /\ Published(v)
        <5>1. ver'[v] = [ver[v] EXCEPT !.st = "SUPERSEDED"]
          BY <1>3, <4>3 DEF CommitPublish
        <5>2. QED
          BY <4>1, <4>3, <5>1, ClosedTyped DEF Published
      <4>4. CASE v # tx[t].v /\ ~(ver[v].ag = tx[t].a /\ Published(v))
        BY <1>3, <4>1, <4>4 DEF CommitPublish
      <4>5. QED
        BY <4>2, <4>3, <4>4
    <3>2. ver' = [v \in Version |-> ver'[v]]
      <4>1. PICK F : F = [v \in Version |->
               IF v = tx[t].v THEN [ver[v] EXCEPT !.st = "PUBLISHED", !.eff = tx[t].num]
               ELSE IF ver[v].ag = tx[t].a /\ Published(v) THEN [ver[v] EXCEPT !.st = "SUPERSEDED"]
               ELSE ver[v]]
        OBVIOUS
      <4>2. F = [v \in Version |-> F[v]]
        BY <4>1
      <4>3. ver' = F
        BY <1>3, <4>1 DEF CommitPublish
      <4>4. QED
        BY <4>2, <4>3
    <3>3. QED
      BY <3>1, <3>2
  <2>2. settings' \in [enabled : BOOLEAN, rev : Nat]
    BY <1>1, <1>3, RevisionTyped DEF CommitPublish
  <2>3. QED
    BY <1>1, <1>3, <2>1, <2>2 DEF CommitPublish, TablesTyped, store
<1>4. CASE CommitWithdraw(t)
  <2>1. ver' = [ver EXCEPT ![tx[t].v] = [ver[tx[t].v] EXCEPT !.st = "WITHDRAWN"]]
    BY <1>4 DEF CommitWithdraw
  <2>2. tx[t].v \in Version => [ver[tx[t].v] EXCEPT !.st = "WITHDRAWN"] \in VersionRow
    BY <1>1, <1>4, ClosedTyped DEF CommitWithdraw, MayWithdraw, TablesTyped
  <2>3. ver' \in [Version -> VersionRow]
    BY <1>1, <2>1, <2>2 DEF TablesTyped
  <2>4. settings' \in [enabled : BOOLEAN, rev : Nat]
    BY <1>1, <1>4, RevisionTyped DEF CommitWithdraw
  <2>5. QED
    BY <1>1, <1>4, <2>3, <2>4 DEF CommitWithdraw, TablesTyped, store
<1>5. CASE CommitSwitch(t)
  BY <1>1, <1>2, <1>5 DEF CommitSwitch, TablesTyped, store
<1>6. QED
  BY <1>3, <1>4, <1>5

(* The steps of signing keep the tables typed.                           *)
LEMMA SigningKeepsTypes ==
  ASSUME Base, NEW t \in Tx,
         Grant(t) \/ Continue(t) \/ Refuse(t) \/ Reserve(t) \/ MakeReceipt(t) \/ MarkReady(t)
           \/ Append(t) \/ Void(t)
  PROVE  TablesTyped'
<1>1. TablesTyped /\ tx \in [Tx -> TxRecord] /\ TxSound(t)
  BY DEF Base, TypeOK
<1>2. tx[t].c \in Cont \cup {None} /\ tx[t].epoch \in Nat
  BY <1>1 DEF TxRecord
<1>3. tx[t].pc \in SignPc => Asked(t) \in Claim
  BY <1>1 DEF TxSound, Asked, Claim
<1>4. CASE Grant(t)
  <2>1. cont' \in [Cont -> ContRow]
    BY <1>1, <1>2, <1>4 DEF Grant, TablesTyped, ContRow
  <2>2. QED
    BY <1>1, <1>4, <2>1 DEF Grant, TablesTyped, store
<1>5. CASE Continue(t)
  <2>1. cont' \in [Cont -> ContRow]
    BY <1>1, <1>2, <1>5, SignaturesAssumption DEF Continue, TablesTyped, ContRow
  <2>2. QED
    BY <1>1, <1>5, <2>1 DEF Continue, TablesTyped, store
<1>6. CASE Refuse(t)
  <2>1. cont' = [cont EXCEPT ![tx[t].c] = [cont[tx[t].c] EXCEPT !.attempts = @ + 1]]
    BY <1>6 DEF Refuse
  <2>2. cont' \in [Cont -> ContRow]
    <3>1. ASSUME NEW c \in Cont PROVE cont[c] \in ContRow
      BY <1>1 DEF TablesTyped
    <3>2. ASSUME NEW c \in Cont PROVE [cont[c] EXCEPT !.attempts = @ + 1] \in ContRow
      BY <3>1 DEF ContRow
    <3>3. QED
      BY <1>1, <2>1, <3>2 DEF TablesTyped
  <2>3. QED
    BY <1>1, <1>6, <2>2 DEF Refuse, TablesTyped, store
<1>7. CASE Reserve(t)
  <2>1. tx[t].v \in Version /\ ver[tx[t].v] \in VersionRow /\ ver[tx[t].v].ag \in Agreement
    <3>1. tx[t].v \in Version
      BY <1>1, <1>7 DEF Reserve, Reserving, At, TxSound, SignPc
    <3>2. tx[t].v \in Required
      BY <1>7 DEF Reserve, Missing
    <3>3. QED
      BY <1>1, <3>1, <3>2 DEF TablesTyped, Required, InForce, Published, VersionRow, NoVersion
  <2>2. SignatureState(tx[t].v) \subseteq Cont \X {"valid", "revoked"}
    <3>1. ASSUME NEW c \in Cont, sig[<<c, tx[t].v>>] # "none"
          PROVE  sig[<<c, tx[t].v>>] \in {"valid", "revoked"}
      BY <1>1, <2>1, <3>1 DEF TablesTyped, Claim
    <3>2. ASSUME NEW p \in SignatureState(tx[t].v) PROVE p \in Cont \X {"valid", "revoked"}
      <4>1. PICK c \in Cont : sig[<<c, tx[t].v>>] # "none" /\ p = <<c, sig[<<c, tx[t].v>>]>>
        BY DEF SignatureState
      <4>2. QED
        BY <3>1, <4>1
    <3>3. QED
      BY <3>2
  <2>3. /\ ag[ver[tx[t].v].ag].title \in Title \cup {None} /\ settings.rev \in Nat
        /\ ver[tx[t].v].text \in Text \cup {None} /\ ver[tx[t].v].file \in File
    <3>1. ag[ver[tx[t].v].ag] \in AgreementRow /\ settings \in [enabled : BOOLEAN, rev : Nat]
      BY <1>1, <2>1 DEF TablesTyped
    <3>2. \A r \in VersionRow : r.text \in Text \cup {None} /\ r.file \in File
      BY SignaturesAssumption DEF VersionRow, NoVersion, File
    <3>3. QED
      BY <2>1, <3>1, <3>2 DEF AgreementRow
  <2>4. [st |-> "CLAIMED", rev |-> settings.rev, title |-> ag[ver[tx[t].v].ag].title,
         text |-> ver[tx[t].v].text, file |-> ver[tx[t].v].file,
         prior |-> SignatureState(tx[t].v)] \in ClaimRow
    BY <2>2, <2>3 DEF ClaimRow
  <2>5. DOMAIN claim' = Claim /\ \A k \in Claim : claim'[k] \in ClaimRow
    BY <1>1, <1>7, <2>4 DEF Reserve, TablesTyped
  <2>6. QED
    BY <1>1, <1>7, <2>5 DEF Reserve, TablesTyped, store
<1>8. CASE MakeReceipt(t)
  <2>1. Asked(t) \in Claim
    BY <1>3, <1>8 DEF MakeReceipt, At, SignPc
  <2>2. QED
    BY <1>1, <1>8, <2>1 DEF MakeReceipt, TablesTyped, tables
<1>9. CASE MarkReady(t) \/ Append(t) \/ Void(t)
  <2>1. Asked(t) \in Claim
    BY <1>3, <1>9 DEF MarkReady, Append, Void, At, SignPc
  <2>2. PICK st \in {"CLAIMED", "EVIDENCE_READY", "COMPLETED", "INVALIDATED", claim[Asked(t)].st} :
          claim' = [claim EXCEPT ![Asked(t)] = [@ EXCEPT !.st = st]]
    BY <1>1, <1>9, <2>1 DEF MarkReady, Append, Void, TablesTyped
  <2>3. [claim[Asked(t)] EXCEPT !.st = st] \in ClaimRow
    BY ZenonT(60), <1>1, <2>1 DEF TablesTyped, ClaimRow
  <2>4. DOMAIN claim' = Claim /\ \A k \in Claim : claim'[k] \in ClaimRow
    BY <1>1, <2>1, <2>2, <2>3 DEF TablesTyped
  <2>5. sig' \in [Claim -> {"none", "valid", "revoked"}]
    BY <1>1, <1>9, <2>1 DEF MarkReady, Append, Void, TablesTyped
  <2>6. QED
    BY <1>1, <1>9, <2>4, <2>5 DEF MarkReady, Append, Void, TablesTyped, store
<1>10. QED
  BY <1>4, <1>5, <1>6, <1>7, <1>8, <1>9

----------------------------------------------------------------------------
(* What administrators do not touch, and what users do not.                *)

(* What no step of an administrator writes.                              *)
LEMMA AdministratorsLeave ==
  ASSUME NEW t \in Tx, Administer(t)
  PROVE  UNCHANGED <<scope, cont, claim, sig, epoch, receipts, codes, now>>
BY DEF Administer, CreateAgreement, BeginEdit, ChangeText, BeginUpload, BeginReplace,
       BeginPublish, BeginDelete, BeginWithdraw, BeginSwitch, CommitEdit, CommitUpload,
       CommitReplace, CommitDelete, CommitPublish, CommitWithdraw, CommitSwitch, CleanUp,
       FailFile, tables, store

(* What no step of a user writes.                                        *)
LEMMA UsersLeave ==
  ASSUME NEW t \in Tx, Sign(t) \/ Crash(t)
  PROVE  UNCHANGED <<scope, settings, ag, ver, epoch, files, now>>
BY DEF Sign, BeginAccess, BeginComplete, BeginSubmit, Evaluate, Grant, Continue, Refuse,
       AlreadySigned, Resume, Reserve, MakeReceipt, MarkReady, Review, Append, Void, Crash,
       tables, store

(* The steps of administrators keep every connection typed and sound.    *)
LEMMA AdministratorsKeepTx ==
  ASSUME Base, NEW t \in Tx, Administer(t)
  PROVE  tx' \in [Tx -> TxRecord] /\ \A s \in Tx : TxSound(s)'
<1>1. /\ TablesTyped /\ tx \in [Tx -> TxRecord] /\ TxSound(t)
      /\ Idle \in TxRecord /\ 0 \in File /\ ContsKept
  BY AdministratorsLeave, IdleTyped, SignaturesAssumption DEF Base, TypeOK, File, ContsKept
<1> DEFINE New(r) == /\ tx' = [tx EXCEPT ![t] = r] /\ tx'[t] = r
<1>2. CASE tx' = tx
  BY <1>1, <1>2, OthersKeepTx
<1>3. CASE End(t)
  BY <1>1, <1>3, EndKeepsTx
<1>4. ASSUME NEW a \in Agreement, NEW title \in Title, NEW req \in BOOLEAN,
             BeginEdit(t, a, title, req)
      PROVE  tx' \in [Tx -> TxRecord] /\ \A s \in Tx : TxSound(s)'
  <2>1. ag[a].req \in BOOLEAN
    BY <1>1, <1>4 DEF TablesTyped, AgreementRow
  <2>2. PICK r : r = [Idle EXCEPT !.pc = "editing", !.a = a, !.flag = req,
                                  !.was = ag[a].req, !.title = title]
    OBVIOUS
  <2>3. r \in TxRecord /\ r.pc = "editing" /\ r.c = None /\ r.a = a /\ r.title = title
    BY <2>1, <2>2, IdleTyped DEF TxRecord, Pc
  <2>4. New(r)
    BY <1>1, <1>4, <2>2 DEF BeginEdit, Begin
  <2>5. TxSound(t)'
    BY <2>1, <2>3, <2>4 DEF TxSound, AdminPc, DraftPc, SignPc
  <2>6. QED
    BY <1>1, <2>3, <2>4, <2>5, TxKept
<1>5. ASSUME NEW v \in Version, NEW text \in Text, NEW a \in Agreement,
             BeginUpload(t, v, a, text)
      PROVE  tx' \in [Tx -> TxRecord] /\ \A s \in Tx : TxSound(s)'
  <2>1. PICK r : r = [Idle EXCEPT !.pc = "uploading", !.v = v, !.a = a, !.title = text]
    OBVIOUS
  <2>2. r \in TxRecord /\ r.pc = "uploading" /\ r.c = None /\ r.v = v /\ r.a = a
          /\ r.title = text /\ r.num = 0
    BY <2>1, IdleTyped DEF TxRecord, Pc
  <2>3. New(r)
    BY <1>1, <1>5, <2>1 DEF BeginUpload, Begin
  <2>4. TxSound(t)'
    BY <2>2, <2>3 DEF TxSound, AdminPc, DraftPc, SignPc
  <2>5. QED
    BY <1>1, <2>2, <2>3, <2>4, TxKept
<1>6. ASSUME NEW v \in Version, NEW n \in File, BeginReplace(t, v, n)
      PROVE  tx' \in [Tx -> TxRecord] /\ \A s \in Tx : TxSound(s)'
  <2>1. ver[v].file \in File /\ n \in Nat
    BY <1>1, <1>6 DEF TablesTyped, VersionRow, NoVersion, File
  <2>2. PICK r : r = [Idle EXCEPT !.pc = "replacing", !.v = v, !.num = n, !.old = ver[v].file]
    OBVIOUS
  <2>3. r \in TxRecord /\ r.pc = "replacing" /\ r.c = None /\ r.v = v /\ r.num = n
    BY <2>1, <2>2, IdleTyped DEF TxRecord, Pc
  <2>4. New(r)
    BY <1>1, <1>6, <2>2 DEF BeginReplace, Begin
  <2>5. TxSound(t)'
    BY <2>1, <2>3, <2>4 DEF TxSound, AdminPc, DraftPc, SignPc
  <2>6. QED
    BY <1>1, <2>3, <2>4, <2>5, TxKept
<1>7. ASSUME NEW v \in Version, NEW eff \in {now, now + 1}, BeginPublish(t, v, eff)
      PROVE  tx' \in [Tx -> TxRecord] /\ \A s \in Tx : TxSound(s)'
  <2>1. ver[v].ag \in Agreement /\ eff \in Nat
    BY <1>1, <1>7 DEF TablesTyped, VersionRow, NoVersion, BeginPublish
  <2>2. PICK r : r = [Idle EXCEPT !.pc = "publishing", !.v = v, !.a = ver[v].ag, !.num = eff]
    OBVIOUS
  <2>3. r \in TxRecord /\ r.pc = "publishing" /\ r.c = None /\ r.v = v /\ r.a = ver[v].ag
    BY <2>1, <2>2, IdleTyped DEF TxRecord, Pc
  <2>4. New(r)
    BY <1>1, <1>7, <2>2 DEF BeginPublish, Begin
  <2>5. TxSound(t)'
    BY <2>1, <2>3, <2>4 DEF TxSound, AdminPc, DraftPc, SignPc
  <2>6. QED
    BY <1>1, <2>3, <2>4, <2>5, TxKept
<1>8. ASSUME NEW v \in Version, BeginDelete(t, v)
      PROVE  tx' \in [Tx -> TxRecord] /\ \A s \in Tx : TxSound(s)'
  <2>1. ver[v].file \in File
    BY <1>1, <1>8 DEF TablesTyped, VersionRow, NoVersion, File
  <2>2. PICK r : r = [Idle EXCEPT !.pc = "deleting", !.v = v, !.old = ver[v].file]
    OBVIOUS
  <2>3. r \in TxRecord /\ r.pc = "deleting" /\ r.c = None /\ r.v = v
    BY <2>1, <2>2, IdleTyped DEF TxRecord, Pc
  <2>4. New(r)
    BY <1>1, <1>8, <2>2 DEF BeginDelete, Begin
  <2>5. TxSound(t)'
    BY <2>1, <2>3, <2>4 DEF TxSound, AdminPc, DraftPc, SignPc
  <2>6. QED
    BY <1>1, <2>3, <2>4, <2>5, TxKept
<1>9. ASSUME NEW v \in Version, BeginWithdraw(t, v)
      PROVE  tx' \in [Tx -> TxRecord] /\ \A s \in Tx : TxSound(s)'
  <2>1. PICK r : r = [Idle EXCEPT !.pc = "withdrawing", !.v = v]
    OBVIOUS
  <2>2. r \in TxRecord /\ r.pc = "withdrawing" /\ r.c = None /\ r.v = v
    BY <2>1, IdleTyped DEF TxRecord, Pc
  <2>3. New(r)
    BY <1>1, <1>9, <2>1 DEF BeginWithdraw, Begin
  <2>4. TxSound(t)'
    BY <2>2, <2>3 DEF TxSound, AdminPc, DraftPc, SignPc
  <2>5. QED
    BY <1>1, <2>2, <2>3, <2>4, TxKept
<1>10. ASSUME NEW on \in BOOLEAN, BeginSwitch(t, on)
      PROVE  tx' \in [Tx -> TxRecord] /\ \A s \in Tx : TxSound(s)'
  <2>1. PICK r : r = [Idle EXCEPT !.pc = "switching", !.flag = on]
    OBVIOUS
  <2>2. r \in TxRecord /\ r.pc = "switching" /\ r.c = None
    BY <2>1, IdleTyped DEF TxRecord, Pc
  <2>3. New(r)
    BY <1>1, <1>10, <2>1 DEF BeginSwitch, Begin
  <2>4. TxSound(t)'
    BY <2>2, <2>3 DEF TxSound, AdminPc, DraftPc, SignPc
  <2>5. QED
    BY <1>1, <2>2, <2>3, <2>4, TxKept
<1>11. CASE CommitReplace(t) \/ CommitDelete(t)
  <2>1. tx[t] \in TxRecord /\ tx[t].v \in Version /\ tx[t].old \in Nat \cap File /\ tx[t].c = None
    BY <1>1, <1>11 DEF CommitReplace, CommitDelete, At, TxSound, AdminPc, DraftPc, TxRecord, File
  <2>2. PICK r : r = [[tx[t] EXCEPT !.pc = "cleaning"] EXCEPT !.num = tx[t].old]
    OBVIOUS
  <2>3. /\ r \in TxRecord /\ r.pc = "cleaning" /\ r.c = None /\ r.v = tx[t].v
        /\ r.num = tx[t].old
    BY <2>1, <2>2 DEF TxRecord, Pc
  <2>4. tx' = [[tx EXCEPT ![t].pc = "cleaning"] EXCEPT ![t].num = tx[t].old]
    BY <1>11 DEF CommitReplace, CommitDelete
  <2>5. tx' = [tx EXCEPT ![t] = r]
    BY <1>1, <2>1, <2>2, <2>4 DEF TxRecord
  <2>6. New(r)
    BY <1>1, <2>5
  <2>7. TxSound(t)'
    BY <2>1, <2>3, <2>6 DEF TxSound, AdminPc, DraftPc, SignPc
  <2>8. QED
    BY <1>1, <2>3, <2>6, <2>7, TxKept
<1>12. CASE \/ \E a \in Agreement, title \in Title, req \in BOOLEAN :
                CreateAgreement(t, a, title, req)
            \/ \E v \in Version, text \in Text : ChangeText(t, v, text)
            \/ CommitEdit(t) \/ CommitUpload(t) \/ CommitPublish(t) \/ CommitWithdraw(t)
            \/ CommitSwitch(t) \/ CleanUp(t) \/ FailFile(t)
  BY <1>2, <1>3, <1>12 DEF CreateAgreement, ChangeText, CommitEdit, CommitUpload, CommitPublish,
                          CommitWithdraw, CommitSwitch, CleanUp, FailFile
<1>13. QED
  BY <1>4, <1>5, <1>6, <1>7, <1>8, <1>9, <1>10, <1>11, <1>12 DEF Administer

(* The steps of a user forget no continuation.                           *)
LEMMA UsersKeepConts == ASSUME Base, NEW t \in Tx, Sign(t) \/ Crash(t) PROVE ContsKept
<1>1. cont \in [Cont -> ContRow] /\ tx[t].c \in Cont \cup {None}
  BY DEF Base, TypeOK, TablesTyped, TxRecord
<1>2. CASE Grant(t)
  BY <1>1, <1>2 DEF Grant, ContsKept, ContRow
<1>3. CASE Continue(t)
  BY <1>1, <1>3 DEF Continue, ContsKept, ContRow
<1>4. CASE Refuse(t)
  <2>1. cont' = [cont EXCEPT ![tx[t].c] = [cont[tx[t].c] EXCEPT !.attempts = @ + 1]]
    BY <1>4 DEF Refuse
  <2>2. QED
    BY <1>1, <2>1 DEF ContsKept, ContRow
<1>5. CASE cont' = cont
  BY <1>5 DEF ContsKept
<1>6. QED
  BY <1>2, <1>3, <1>4, <1>5
  DEF Sign, BeginAccess, BeginComplete, BeginSubmit, Evaluate, AlreadySigned, Resume, Reserve,
      MakeReceipt, MarkReady, Review, Append, Void, Crash, tables

(* The steps of a user keep every connection typed and sound.            *)
LEMMA UsersKeepTx ==
  ASSUME Base, NEW t \in Tx, Sign(t) \/ Crash(t)
  PROVE  tx' \in [Tx -> TxRecord] /\ \A s \in Tx : TxSound(s)'
<1>1. /\ TablesTyped /\ tx \in [Tx -> TxRecord] /\ TxSound(t) /\ Idle \in TxRecord
      /\ ContsKept
      /\ None \notin Cont
  BY UsersKeepConts, IdleTyped, SignaturesAssumption DEF Base, TypeOK
<1> DEFINE New(r) == /\ tx' = [tx EXCEPT ![t] = r] /\ tx'[t] = r
<1>2. CASE End(t)
  BY <1>1, <1>2, EndKeepsTx
<1>3. ASSUME NEW op \in {"gate", "refresh"}, BeginAccess(t, op)
      PROVE  tx' \in [Tx -> TxRecord] /\ \A s \in Tx : TxSound(s)'
  <2>1. epoch \in Nat
    BY <1>1, <1>3 DEF TablesTyped
  <2>2. PICK r : r = [Idle EXCEPT !.pc = op, !.epoch = epoch]
    OBVIOUS
  <2>3. r \in TxRecord /\ r.pc = op /\ r.c = None
    BY <2>1, <2>2, IdleTyped DEF TxRecord, Pc
  <2>4. New(r)
    BY <1>1, <1>3, <2>2 DEF BeginAccess, Begin
  <2>5. TxSound(t)'
    BY <2>1, <2>3, <2>4 DEF TxSound, AdminPc, DraftPc, SignPc
  <2>6. QED
    BY <1>1, <2>3, <2>4, <2>5, TxKept
<1>4. ASSUME NEW c \in Cont, BeginComplete(t, c)
      PROVE  tx' \in [Tx -> TxRecord] /\ \A s \in Tx : TxSound(s)'
  <2>1. cont[c].epoch \in Nat /\ cont[c].st # "none" /\ cont' = cont /\ c # None
    BY <1>1, <1>4 DEF BeginComplete, Active, TablesTyped, ContRow, tables
  <2>2. PICK r : r = [Idle EXCEPT !.pc = "complete", !.c = c, !.epoch = cont[c].epoch]
    OBVIOUS
  <2>3. r \in TxRecord /\ r.pc = "complete" /\ r.c = c /\ r.epoch = cont[c].epoch
    BY <2>1, <2>2, IdleTyped DEF TxRecord, Pc
  <2>4. New(r)
    BY <1>1, <1>4, <2>2 DEF BeginComplete, Begin
  <2>5. TxSound(t)'
    BY <2>1, <2>3, <2>4 DEF TxSound, AdminPc, DraftPc, SignPc
  <2>6. QED
    BY <1>1, <2>3, <2>4, <2>5, TxKept
<1>5. ASSUME NEW c \in Cont, NEW v \in Version, NEW ok \in BOOLEAN, BeginSubmit(t, c, v, ok)
      PROVE  tx' \in [Tx -> TxRecord] /\ \A s \in Tx : TxSound(s)'
  <2>1. cont[c].epoch \in Nat /\ cont[c].st # "none" /\ cont' = cont /\ c # None
    BY <1>1, <1>5 DEF BeginSubmit, Active, TablesTyped, ContRow, tables
  <2>2. PICK r : r = [Idle EXCEPT !.pc = "submit", !.c = c, !.v = v, !.flag = ok,
                                  !.epoch = cont[c].epoch]
    OBVIOUS
  <2>3. r \in TxRecord /\ r.pc = "submit" /\ r.c = c /\ r.v = v /\ r.epoch = cont[c].epoch
    BY <2>1, <2>2, IdleTyped DEF TxRecord, Pc
  <2>4. New(r)
    BY <1>1, <1>5, <2>2 DEF BeginSubmit, Begin
  <2>5. TxSound(t)'
    BY <2>1, <2>3, <2>4 DEF TxSound, AdminPc, DraftPc, SignPc
  <2>6. QED
    BY <1>1, <2>3, <2>4, <2>5, TxKept
<1>6. CASE \E pc \in SignPc : Goto(t, pc) /\ tx[t].pc \in SignPc
  BY <1>1, <1>6, GotoKeepsTx DEF SignPc, Pc
<1>7. CASE Goto(t, "granting") \/ (Goto(t, "continuing") /\ At(t, "gate"))
  BY <1>1, <1>7, GotoKeepsTx DEF SignPc, Pc, At
<1>8. CASE Evaluate(t)
  <2>1. End(t) \/ Goto(t, "granting") \/ (Goto(t, "continuing") /\ At(t, "gate"))
    BY <1>8 DEF Evaluate
  <2>2. QED
    BY <1>2, <1>7, <2>1
<1>9. CASE Resume(t) \/ Reserve(t) \/ MakeReceipt(t) \/ MarkReady(t) \/ Review(t)
  BY <1>2, <1>6, <1>9 DEF Resume, Reserve, MakeReceipt, MarkReady, Review, Reserving, At, SignPc
<1>10. CASE Grant(t) \/ Continue(t) \/ Refuse(t) \/ AlreadySigned(t) \/ Append(t) \/ Void(t)
            \/ Crash(t)
  BY <1>2, <1>10 DEF Grant, Continue, Refuse, AlreadySigned, Append, Void, Crash
<1>11. QED
  BY <1>3, <1>4, <1>5, <1>8, <1>9, <1>10 DEF Sign

(* Every step keeps the types and the soundness of the connections.      *)
LEMMA BaseStep == ASSUME Base, [Next]_vars PROVE Base'
<1>1. TablesTyped /\ tx \in [Tx -> TxRecord]
  BY DEF Base, TypeOK
<1>2. CASE UNCHANGED vars
  <2>1. TablesTyped'
    BY <1>1, <1>2, QuietKeepsTables DEF vars
  <2>2. QED
    BY <1>1, <1>2, <2>1, OthersKeepTx DEF Base, TypeOK, vars, tables, ContsKept
<1>3. ASSUME NEW t \in Tx, Administer(t) PROVE Base'
  <2>1. TablesTyped'
    <3>1. CASE UNCHANGED <<scope, tables, store, codes, now>>
      BY <1>1, <3>1, QuietKeepsTables
    <3>2. CASE \/ \E a \in Agreement, title \in Title, req \in BOOLEAN :
                    CreateAgreement(t, a, title, req)
               \/ CommitEdit(t)
      <4>1. CASE CommitEdit(t)
        <5>1. PICK a, title : a \in Agreement /\ title \in Title
          BY <1>1, <1>3, <4>1 DEF CommitEdit, Base, TxSound, At
        <5>2. QED
          BY <1>3, <4>1, <5>1, EditsKeepTypes
      <4>2. QED
        BY <1>3, <3>2, <4>1, EditsKeepTypes
    <3>3. CASE \/ \E v \in Version, text \in Text :
                    ChangeText(t, v, text) \/ \E a \in Agreement : BeginUpload(t, v, a, text)
               \/ \E v \in Version, n \in File : BeginReplace(t, v, n)
               \/ CommitUpload(t) \/ CommitReplace(t) \/ CommitDelete(t)
               \/ CleanUp(t) \/ FailFile(t)
      BY <1>3, <3>3, DraftsKeepTypes
    <3>4. CASE CommitPublish(t) \/ CommitWithdraw(t) \/ CommitSwitch(t)
      BY <1>3, <3>4, PolicyKeepsTypes
    <3>5. CASE \/ \E a \in Agreement, title \in Title, req \in BOOLEAN : BeginEdit(t, a, title, req)
               \/ \E v \in Version, eff \in {now, now + 1} : BeginPublish(t, v, eff)
               \/ \E v \in Version : BeginDelete(t, v) \/ BeginWithdraw(t, v)
               \/ \E on \in BOOLEAN : BeginSwitch(t, on)
      BY <3>1, <3>5 DEF BeginEdit, BeginPublish, BeginDelete, BeginWithdraw, BeginSwitch
    <3>6. QED
      BY <1>3, <3>2, <3>3, <3>4, <3>5 DEF Administer
  <2>2. QED
    BY <1>3, <2>1, AdministratorsKeepTx DEF Base, TypeOK
<1>4. ASSUME NEW t \in Tx, Sign(t) \/ Crash(t) PROVE Base'
  <2>1. TablesTyped'
    <3>1. CASE UNCHANGED <<scope, tables, store, codes, now>>
      BY <1>1, <3>1, QuietKeepsTables
    <3>2. QED
      BY <1>4, <3>1, SigningKeepsTypes
      DEF Sign, BeginAccess, BeginComplete, BeginSubmit, Evaluate, AlreadySigned, Resume, Review,
          Crash
  <2>2. QED
    BY <1>4, <2>1, UsersKeepTx DEF Base, TypeOK
<1>5. CASE (\E k \in Claim : Revoke(k)) \/ Reset \/ Tick
  <2>1. TablesTyped'
    BY <1>1, <1>5 DEF Revoke, Reset, Tick, TablesTyped, tables, store
  <2>2. tx' = tx /\ cont' = cont
    BY <1>5 DEF Revoke, Reset, Tick, tables
  <2>3. QED
    BY <2>1, <2>2, OthersKeepTx DEF Base, TypeOK, ContsKept
<1>6. QED
  BY <1>2, <1>3, <1>4, <1>5 DEF Next

(* Every table, file and connection always holds a value of its type.    *)
THEOREM TypeCorrect == Spec => []TypeOK
<1>1. Base => TypeOK
  BY DEF Base
<1>2. QED
  BY <1>1, BaseInitially, BaseStep, PTL DEF Spec

----------------------------------------------------------------------------
(* Versions, their files, and the transactions that write them.            *)

(* What a transaction on a version knows of it and of its files.           *)
Sound(x) ==
  /\ x.pc \in DraftPc => files[<<x.v, 0>>] # "never"
  /\ x.pc = "uploading" => ver[x.v].st = "none"
  /\ x.pc \in {"uploading", "replacing"} => Stored(x.v, x.num)
  /\ x.pc \in {"replacing", "deleting"} => files[<<x.v, x.old>>] # "never"
  /\ x.pc = "replacing" => x.old # x.num
  /\ x.pc = "cleaning" => files[<<x.v, x.num>>] # "never"
  /\ x.pc \in {"replacing", "cleaning"} /\ ver[x.v].st # "none" => ver[x.v].file # x.num
  /\ x.pc = "publishing" /\ ver[x.v].st = "DRAFT" => ver[x.v].ag = x.a

(* Nobody deletes the file that another one has stored.                    *)
Apart(x, y) ==
  x.pc \in DraftPc /\ y.pc \in DraftPc /\ x.v = y.v =>
    /\ x.pc # "uploading"
    /\ y.pc = "replacing" /\ x.pc \in {"replacing", "cleaning"} => x.num # y.num
    /\ y.pc = "replacing" /\ x.pc \in {"replacing", "deleting"} => x.old # y.num

OneInForce == \A v, w \in Version : Published(v) /\ Published(w) /\ ver[v].ag = ver[w].ag => v = w
Uploaded   == \A v \in Version : ver[v].st # "none" => files[<<v, 0>>] # "never"

DraftInv ==
  /\ OneInForce /\ Uploaded /\ SourcesAreKept
  /\ \A t \in Tx : Sound(tx[t])
  /\ \A s, t \in Tx : s # t => Apart(tx[s], tx[t])

(* A step that only publishes, supersedes, withdraws or rewords versions,  *)
(* or none, and starts no work on one.                                     *)
LEMMA QuietDrafts ==
  ASSUME Base, DraftInv, files' = files, OneInForce',
         \A v \in Version : /\ ver'[v].file = ver[v].file /\ ver'[v].ag = ver[v].ag
                            /\ ver'[v].st = "none" <=> ver[v].st = "none"
                            /\ ver'[v].st = "DRAFT" => ver[v].st = "DRAFT",
         \A s \in Tx : tx'[s] = tx[s] \/ tx'[s].pc \notin DraftPc
  PROVE  DraftInv'
<1>1. ASSUME NEW s \in Tx PROVE Sound(tx[s])'
  <2>1. CASE tx'[s].pc \notin DraftPc
    BY <2>1 DEF Sound, DraftPc
  <2>2. CASE tx'[s] = tx[s] /\ tx[s].pc \in DraftPc
    <3>1. Sound(tx[s]) /\ tx[s].v \in Version
      BY <2>2 DEF DraftInv, Base, TxSound
    <3>2. QED
      BY <2>2, <3>1 DEF Sound, Stored
  <2>3. QED
    BY <2>1, <2>2
<1>2. ASSUME NEW s \in Tx, NEW t \in Tx, s # t PROVE Apart(tx[s], tx[t])'
  <2>1. Apart(tx[s], tx[t])
    BY <1>2 DEF DraftInv
  <2>2. CASE tx'[s].pc \notin DraftPc \/ tx'[t].pc \notin DraftPc
    BY <2>2 DEF Apart
  <2>3. CASE tx'[s] = tx[s] /\ tx'[t] = tx[t]
    BY <2>1, <2>3 DEF Apart
  <2>4. QED
    BY <2>2, <2>3
<1>3. Uploaded' /\ SourcesAreKept'
  BY DEF DraftInv, Uploaded, SourcesAreKept, Stored
<1>4. QED
  BY <1>1, <1>2, <1>3 DEF DraftInv

(* The work of one connection changes, and it is still apart from others.  *)
LEMMA StillApart ==
  ASSUME Base, DraftInv, NEW t \in Tx, NEW r, tx' = [tx EXCEPT ![t] = r],
         \A s \in Tx \ {t} : Apart(tx[s], r) /\ Apart(r, tx[s])
  PROVE  \A s, u \in Tx : s # u => Apart(tx[s], tx[u])'
<1>1. tx'[t] = r /\ \A s \in Tx \ {t} : tx'[s] = tx[s]
  BY DEF Base, TypeOK
<1>2. ASSUME NEW s \in Tx, NEW u \in Tx, s # u PROVE Apart(tx'[s], tx'[u])
  <2>1. CASE s = t
    BY <1>1, <1>2, <2>1
  <2>2. CASE u = t
    BY <1>1, <1>2, <2>2
  <2>3. CASE s # t /\ u # t
    BY <1>1, <1>2, <2>3 DEF DraftInv
  <2>4. QED
    BY <2>1, <2>2, <2>3
<1>3. QED
  BY <1>2 DEF Apart

(* A connection at work on no version disturbs none that is.             *)
LEMMA AtRest == ASSUME NEW x, NEW y, x.pc \notin DraftPc PROVE Apart(x, y) /\ Apart(y, x)
BY DEF Apart

(* What a connection at work on a version may rely on.                     *)
LEMMA Working ==
  ASSUME Base, DraftInv, NEW t \in Tx, tx[t].pc \in DraftPc
  PROVE  /\ Sound(tx[t]) /\ tx[t].v \in Version /\ tx[t].num \in Nat /\ tx[t].old \in File
         /\ tx[t].pc \in {"uploading", "replacing", "cleaning"} => tx[t].num \in File
<1>1. TxSound(t) /\ tx[t] \in TxRecord /\ Sound(tx[t]) /\ 0 \in File
  BY SignaturesAssumption DEF Base, TypeOK, DraftInv, File
<1>2. QED
  BY <1>1 DEF TxSound, TxRecord

(* What storing a new file changes.                                      *)
LEMMA Storing ==
  ASSUME Base, NEW v \in Version, NEW n \in File, Store(v, n), Fresh(v, n)
  PROVE  /\ files'[<<v, n>>] = "stored" /\ files[<<v, n>>] = "never"
         /\ \A w \in Version, m \in File :
              /\ files[<<w, m>>] # "never" => files'[<<w, m>>] = files[<<w, m>>]
              /\ w # v \/ m # n => files'[<<w, m>>] = files[<<w, m>>]
BY DEF Base, TypeOK, TablesTyped, Store, Fresh

(* What deleting a file changes.                                         *)
LEMMA Deleting ==
  ASSUME Base, NEW v \in Version, NEW n \in File, Delete(v, n)
  PROVE  \A w \in Version, m \in File :
              /\ files[<<w, m>>] # "never" => files'[<<w, m>>] # "never"
              /\ w # v \/ m # n => files'[<<w, m>>] = files[<<w, m>>]
BY DEF Base, TypeOK, TablesTyped, Delete

(* What the type of a version says of its fields.                        *)
LEMMA RowsTyped ==
  ASSUME Base, NEW v \in Version
  PROVE  /\ ver[v] \in VersionRow /\ ver[v].file \in File
         /\ ver[v].st # "none" => ver[v].ag \in Agreement /\ ver[v].text \in Text
BY SignaturesAssumption DEF Base, TypeOK, TablesTyped, VersionRow, NoVersion, File

(* Uploading the file of a new draft keeps the invariant.                *)
LEMMA UploadStarts ==
  ASSUME Base, DraftInv, NEW t \in Tx, NEW v \in Version, NEW a \in Agreement, NEW text \in Text,
         BeginUpload(t, v, a, text)
  PROVE  DraftInv'
<1>1. PICK r : r = [Idle EXCEPT !.pc = "uploading", !.v = v, !.a = a, !.title = text]
  OBVIOUS
<1>2. r.pc = "uploading" /\ r.v = v /\ r.num = 0
  BY <1>1, IdleTyped DEF TxRecord
<1>3. tx' = [tx EXCEPT ![t] = r] /\ ver' = ver
  BY <1>1 DEF BeginUpload, Begin, tables
<1>4. tx'[t] = r /\ \A s \in Tx \ {t} : tx'[s] = tx[s]
  BY <1>3 DEF Base, TypeOK
<1>5. 0 \in File /\ Store(v, 0) /\ Fresh(v, 0) /\ ver[v].st = "none"
  BY SignaturesAssumption DEF BeginUpload, File
<1>6. /\ files'[<<v, 0>>] = "stored" /\ files[<<v, 0>>] = "never"
      /\ \A w \in Version, m \in File :
              /\ files[<<w, m>>] # "never" => files'[<<w, m>>] = files[<<w, m>>]
              /\ w # v \/ m # 0 => files'[<<w, m>>] = files[<<w, m>>]
  BY <1>5, Storing
<1>7. Sound(tx[t])'
  BY <1>2, <1>3, <1>4, <1>5, <1>6 DEF Sound, DraftPc, Stored
<1>8. ASSUME NEW s \in Tx \ {t} PROVE Sound(tx[s])' /\ Apart(tx[s], r) /\ Apart(r, tx[s])
  <2>1. CASE tx[s].pc \notin DraftPc
    BY <1>4, <2>1, AtRest DEF Sound, DraftPc
  <2>2. CASE tx[s].pc \in DraftPc
    <3>1. /\ Sound(tx[s]) /\ tx[s].v \in Version /\ tx[s].num \in Nat /\ tx[s].old \in File
          /\ tx[s].pc \in {"uploading", "replacing", "cleaning"} => tx[s].num \in File
      BY <2>2, Working
    <3>2. tx[s].v # v
      BY <1>6, <2>2, <3>1 DEF Sound
    <3>3. Sound(tx[s])'
      BY <1>3, <1>4, <1>5, <1>6, <2>2, <3>1 DEF Sound, Stored
    <3>4. QED
      BY <1>2, <3>2, <3>3 DEF Apart
  <2>3. QED
    BY <2>1, <2>2
<1>9. \A s, u \in Tx : s # u => Apart(tx[s], tx[u])'
  BY <1>3, <1>8, StillApart
<1>10. OneInForce' /\ Uploaded' /\ SourcesAreKept'
  BY <1>3, <1>5, <1>6, RowsTyped DEF DraftInv, OneInForce, Uploaded, SourcesAreKept, Stored, Published
<1>11. QED
  BY <1>7, <1>8, <1>9, <1>10 DEF DraftInv

(* Uploading a replacement keeps the invariant.                          *)
LEMMA ReplaceStarts ==
  ASSUME Base, DraftInv, NEW t \in Tx, NEW v \in Version, NEW n \in File, BeginReplace(t, v, n)
  PROVE  DraftInv'
<1>1. PICK r : r = [Idle EXCEPT !.pc = "replacing", !.v = v, !.num = n, !.old = ver[v].file]
  OBVIOUS
<1>2. r.pc = "replacing" /\ r.v = v /\ r.num = n /\ r.old = ver[v].file
  BY <1>1, IdleTyped DEF TxRecord
<1>3. tx' = [tx EXCEPT ![t] = r] /\ ver' = ver
  BY <1>1 DEF BeginReplace, Begin, tables
<1>4. tx'[t] = r /\ \A s \in Tx \ {t} : tx'[s] = tx[s]
  BY <1>3 DEF Base, TypeOK
<1>5. Store(v, n) /\ Fresh(v, n) /\ ver[v].st = "DRAFT" /\ ver[v].file \in File /\ 0 \in File
  BY RowsTyped, SignaturesAssumption DEF BeginReplace, File
<1>6. /\ files'[<<v, n>>] = "stored" /\ files[<<v, n>>] = "never"
      /\ \A w \in Version, m \in File :
              /\ files[<<w, m>>] # "never" => files'[<<w, m>>] = files[<<w, m>>]
              /\ w # v \/ m # n => files'[<<w, m>>] = files[<<w, m>>]
  BY <1>5, Storing
<1>7. files[<<v, 0>>] # "never" /\ files[<<v, ver[v].file>>] = "stored"
  BY <1>5 DEF DraftInv, Uploaded, SourcesAreKept, Stored
<1>8. Sound(tx[t])'
  BY <1>2, <1>3, <1>4, <1>5, <1>6, <1>7 DEF Sound, DraftPc, Stored
<1>9. ASSUME NEW s \in Tx \ {t} PROVE Sound(tx[s])' /\ Apart(tx[s], r) /\ Apart(r, tx[s])
  <2>1. CASE tx[s].pc \notin DraftPc
    BY <1>4, <2>1, AtRest DEF Sound, DraftPc
  <2>2. CASE tx[s].pc \in DraftPc
    <3>1. /\ Sound(tx[s]) /\ tx[s].v \in Version /\ tx[s].num \in Nat /\ tx[s].old \in File
          /\ tx[s].pc \in {"uploading", "replacing", "cleaning"} => tx[s].num \in File
      BY <2>2, Working
    <3>2. Sound(tx[s])'
      BY <1>3, <1>4, <1>5, <1>6, <2>2, <3>1 DEF Sound, Stored
    <3>3. Apart(tx[s], r)
      BY <1>2, <1>5, <1>6, <3>1 DEF Sound, Apart, Stored
    <3>4. Apart(r, tx[s])
      BY <1>2, <1>5, <1>6, <3>1 DEF Sound, Apart, Stored
    <3>5. QED
      BY <3>2, <3>3, <3>4
  <2>3. QED
    BY <2>1, <2>2
<1>10. \A s, u \in Tx : s # u => Apart(tx[s], tx[u])'
  BY <1>3, <1>9, StillApart
<1>11. OneInForce' /\ Uploaded' /\ SourcesAreKept'
  BY <1>3, <1>5, <1>6, RowsTyped DEF DraftInv, OneInForce, Uploaded, SourcesAreKept, Stored, Published
<1>12. QED
  BY <1>8, <1>9, <1>10, <1>11 DEF DraftInv

(* So do the first steps of publishing, deleting and withdrawing.        *)
LEMMA ClosingStarts ==
  ASSUME Base, DraftInv, NEW t \in Tx, NEW v \in Version,
         \/ \E eff \in {now, now + 1} : BeginPublish(t, v, eff)
         \/ BeginDelete(t, v) \/ BeginWithdraw(t, v)
  PROVE  DraftInv'
<1>1. PICK r : /\ tx' = [tx EXCEPT ![t] = r]
               /\ \/ \E eff \in {now, now + 1} :
                       r = [Idle EXCEPT !.pc = "publishing", !.v = v, !.a = ver[v].ag, !.num = eff]
                  \/ r = [Idle EXCEPT !.pc = "deleting", !.v = v, !.old = ver[v].file]
                  \/ r = [Idle EXCEPT !.pc = "withdrawing", !.v = v]
  BY DEF BeginPublish, BeginDelete, BeginWithdraw, Begin
<1>2. /\ r.pc \in {"publishing", "deleting", "withdrawing"} /\ r.v = v
      /\ r.pc = "publishing" => r.a = ver[v].ag
      /\ r.pc = "deleting" => r.old = ver[v].file
  <2>1. ASSUME NEW eff \in {now, now + 1},
               r = [Idle EXCEPT !.pc = "publishing", !.v = v, !.a = ver[v].ag, !.num = eff]
        PROVE  r.pc = "publishing" /\ r.v = v /\ r.a = ver[v].ag
    BY <2>1, IdleTyped DEF TxRecord
  <2>2. ASSUME r = [Idle EXCEPT !.pc = "deleting", !.v = v, !.old = ver[v].file]
        PROVE  r.pc = "deleting" /\ r.v = v /\ r.old = ver[v].file
    BY <2>2, IdleTyped DEF TxRecord
  <2>3. ASSUME r = [Idle EXCEPT !.pc = "withdrawing", !.v = v]
        PROVE  r.pc = "withdrawing" /\ r.v = v
    BY <2>3, IdleTyped DEF TxRecord
  <2>4. QED
    BY <1>1, <2>1, <2>2, <2>3
<1>3. ver' = ver /\ files' = files /\ ver[v].st # "none"
  BY DEF BeginPublish, BeginDelete, BeginWithdraw, Published, tables, store
<1>4. tx'[t] = r /\ \A s \in Tx \ {t} : tx'[s] = tx[s]
  BY <1>1 DEF Base, TypeOK
<1>5. files[<<v, 0>>] # "never" /\ files[<<v, ver[v].file>>] = "stored"
  BY <1>3 DEF DraftInv, Uploaded, SourcesAreKept, Stored
<1>6. Sound(tx[t])'
  BY <1>2, <1>3, <1>4, <1>5 DEF Sound, DraftPc
<1>7. ASSUME NEW s \in Tx \ {t} PROVE Sound(tx[s])' /\ Apart(tx[s], r) /\ Apart(r, tx[s])
  <2>1. Sound(tx[s])
    BY DEF DraftInv
  <2>2. Sound(tx[s])'
    BY <1>3, <1>4, <2>1 DEF Sound, Stored
  <2>3. Apart(tx[s], r) /\ Apart(r, tx[s])
    BY <1>2, <1>3, <2>1 DEF Sound, Apart
  <2>4. QED
    BY <2>2, <2>3
<1>8. \A s, u \in Tx : s # u => Apart(tx[s], tx[u])'
  BY <1>1, <1>7, StillApart
<1>9. OneInForce' /\ Uploaded' /\ SourcesAreKept'
  BY <1>3 DEF DraftInv, OneInForce, Uploaded, SourcesAreKept, Stored, Published
<1>10. QED
  BY <1>6, <1>7, <1>8, <1>9 DEF DraftInv

(* The commit of a new draft keeps the invariant.                        *)
LEMMA UploadCommits ==
  ASSUME Base, DraftInv, NEW t \in Tx, CommitUpload(t)
  PROVE  DraftInv'
<1> DEFINE v == tx[t].v
<1>1. /\ tx[t].pc = "uploading" /\ v \in Version /\ Sound(tx[t]) /\ tx[t].num = 0
  BY Working DEF CommitUpload, At, DraftPc, Base, TxSound
<1>2. /\ ver' = [ver EXCEPT ![v] = [NoVersion EXCEPT !.st = "DRAFT", !.ag = tx[t].a,
                                                    !.text = tx[t].title]]
      /\ files' = files /\ tx' = [tx EXCEPT ![t] = Idle]
  BY DEF CommitUpload, End, store
<1>3. tx'[t] = Idle /\ Idle.pc \notin DraftPc /\ \A s \in Tx \ {t} : tx'[s] = tx[s]
  BY <1>2 DEF Base, TypeOK, Idle, DraftPc
<1>4. /\ ver'[v].st = "DRAFT" /\ ver'[v].file = 0
      /\ \A w \in Version \ {v} : ver'[w] = ver[w]
  BY <1>1, <1>2 DEF Base, TypeOK, TablesTyped, NoVersion
<1>5. ver[v].st = "none" /\ files[<<v, 0>>] = "stored"
  BY <1>1 DEF Sound, Stored
<1>6. ASSUME NEW s \in Tx \ {t} PROVE Sound(tx[s])' /\ Apart(tx[s], Idle) /\ Apart(Idle, tx[s])
  <2>1. Sound(tx[s]) /\ Apart(tx[t], tx[s])
    BY DEF DraftInv
  <2>2. CASE tx[s].pc \notin DraftPc
    BY <1>3, <2>2, AtRest DEF Sound, DraftPc
  <2>3. CASE tx[s].pc \in DraftPc
    <3>1. tx[s].v # v /\ tx[s].v \in Version
      BY <1>1, <2>1, <2>3, Working DEF Apart, DraftPc
    <3>2. QED
      BY <1>2, <1>3, <1>4, <2>1, <3>1, AtRest DEF Sound, Stored
  <2>4. QED
    BY <1>3, <2>2, <2>3, AtRest
<1>7. \A s, u \in Tx : s # u => Apart(tx[s], tx[u])'
  BY <1>2, <1>6, StillApart
<1>8. Sound(tx[t])'
  BY <1>3 DEF Sound, DraftPc
<1>9. OneInForce' /\ Uploaded' /\ SourcesAreKept'
  <2>1. ASSUME NEW w \in Version, ver'[w].st # "none"
        PROVE  files'[<<w, 0>>] # "never" /\ files'[<<w, ver'[w].file>>] = "stored"
    BY <1>2, <1>4, <1>5, <2>1 DEF DraftInv, Uploaded, SourcesAreKept, Stored
  <2>2. OneInForce'
    BY <1>4 DEF DraftInv, OneInForce, Published
  <2>3. QED
    BY <2>1, <2>2 DEF Uploaded, SourcesAreKept, Stored
<1>10. QED
  BY <1>6, <1>7, <1>8, <1>9 DEF DraftInv

(* The file a replacement stored becomes the version's, or the version is  *)
(* deleted: the old one is left to be cleaned up.                          *)
LEMMA RowCommits ==
  ASSUME Base, DraftInv, NEW t \in Tx, CommitReplace(t) \/ CommitDelete(t)
  PROVE  DraftInv'
<1> DEFINE v == tx[t].v
<1>1. /\ tx[t].pc \in {"replacing", "deleting"} /\ v \in Version /\ Sound(tx[t])
      /\ tx[t].old \in File /\ ver[v].st = "DRAFT"
      /\ tx[t].pc = "replacing" <=> CommitReplace(t)
  BY Working DEF CommitReplace, CommitDelete, At, DraftPc, MayWriteDraft
<1>2. PICK r : r = [[tx[t] EXCEPT !.pc = "cleaning"] EXCEPT !.num = tx[t].old]
  OBVIOUS
<1>3. r.pc = "cleaning" /\ r.v = v /\ r.num = tx[t].old
  BY <1>2 DEF Base, TypeOK, TxRecord
<1>4. tx' = [tx EXCEPT ![t] = r] /\ files' = files
  <2>1. tx' = [[tx EXCEPT ![t].pc = "cleaning"] EXCEPT ![t].num = tx[t].old]
    BY DEF CommitReplace, CommitDelete
  <2>2. QED
    BY <1>2, <2>1 DEF Base, TypeOK, TxRecord, CommitReplace, CommitDelete, store
<1>5. tx'[t] = r /\ \A s \in Tx \ {t} : tx'[s] = tx[s]
  BY <1>4 DEF Base, TypeOK
<1>6. /\ \A w \in Version \ {v} : ver'[w] = ver[w]
      /\ tx[t].pc = "replacing" => /\ ver'[v].file = tx[t].num
                                   /\ ver'[v].st = "DRAFT" /\ ver'[v].ag = ver[v].ag
      /\ tx[t].pc = "deleting" => ver'[v].st = "none"
  <2>1. CASE CommitReplace(t)
    <3>1. ver' = [ver EXCEPT ![v] = [ver[v] EXCEPT !.file = tx[t].num]]
      BY <2>1 DEF CommitReplace
    <3>2. QED
      BY <1>1, <2>1, <3>1 DEF Base, TypeOK, TablesTyped, VersionRow, NoVersion
  <2>2. CASE CommitDelete(t)
    BY <1>1, <2>2 DEF CommitDelete, At, Base, TypeOK, TablesTyped, NoVersion
  <2>3. QED
    BY <2>1, <2>2
<1>7. Sound(tx[t])'
  BY <1>1, <1>3, <1>4, <1>5, <1>6 DEF Sound, DraftPc
<1>8. ASSUME NEW s \in Tx \ {t} PROVE Sound(tx[s])' /\ Apart(tx[s], r) /\ Apart(r, tx[s])
  <2>1. Sound(tx[s]) /\ Apart(tx[t], tx[s]) /\ Apart(tx[s], tx[t])
    BY DEF DraftInv
  <2>2. CASE tx[s].pc \notin DraftPc
    BY <1>5, <2>2, AtRest DEF Sound, DraftPc
  <2>3. CASE tx[s].pc \in DraftPc
    <3>1. tx[s].v \in Version
      BY <2>3, Working
    <3>2. Sound(tx[s])'
      <4>1. CASE tx[s].v # v
        BY <1>4, <1>5, <1>6, <2>1, <3>1, <4>1 DEF Sound, Stored
      <4>2. CASE tx[s].v = v /\ tx[t].pc = "replacing"
        BY <1>1, <1>4, <1>5, <1>6, <2>1, <2>3, <4>2 DEF Sound, Stored, Apart, DraftPc
      <4>3. CASE tx[s].v = v /\ tx[t].pc = "deleting"
        BY <1>1, <1>4, <1>5, <1>6, <2>1, <2>3, <4>3 DEF Sound, Stored
      <4>4. QED
        BY <1>1, <4>1, <4>2, <4>3
    <3>3. Apart(tx[s], r)
      BY <1>1, <1>3, <2>1, <2>3 DEF Apart, DraftPc
    <3>4. Apart(r, tx[s])
      BY <1>1, <1>3, <2>1, <2>3 DEF Apart, DraftPc
    <3>5. QED
      BY <3>2, <3>3, <3>4
  <2>4. QED
    BY <2>2, <2>3
<1>9. \A s, u \in Tx : s # u => Apart(tx[s], tx[u])'
  BY <1>4, <1>8, StillApart
<1>10. OneInForce' /\ Uploaded' /\ SourcesAreKept'
  <2>1. ASSUME NEW w \in Version, ver'[w].st # "none"
        PROVE  files'[<<w, 0>>] # "never" /\ files'[<<w, ver'[w].file>>] = "stored"
    <3>1. CASE w # v
      BY <1>4, <1>6, <2>1, <3>1 DEF DraftInv, Uploaded, SourcesAreKept, Stored
    <3>2. CASE w = v /\ tx[t].pc = "replacing"
      BY <1>1, <1>4, <1>6, <3>2 DEF Sound, Stored, DraftPc
    <3>3. QED
      BY <1>1, <1>6, <2>1, <3>1, <3>2
  <2>2. OneInForce'
    BY <1>1, <1>6 DEF DraftInv, OneInForce, Published
  <2>3. QED
    BY <2>1, <2>2 DEF Uploaded, SourcesAreKept, Stored
<1>11. QED
  BY <1>7, <1>8, <1>9, <1>10 DEF DraftInv

(* Cleaning up after a commit or a failure keeps the invariant.          *)
LEMMA FilesGo ==
  ASSUME Base, DraftInv, NEW t \in Tx, CleanUp(t) \/ FailFile(t)
  PROVE  DraftInv'
<1> DEFINE v == tx[t].v
           n == tx[t].num
<1>1. /\ tx[t].pc \in {"uploading", "replacing", "cleaning"} /\ v \in Version /\ n \in File
      /\ Sound(tx[t]) /\ Delete(v, n)
  BY Working DEF CleanUp, FailFile, At, DraftPc
<1>2. ver' = ver /\ tx' = [tx EXCEPT ![t] = Idle]
  BY DEF CleanUp, FailFile, End, tables
<1>3. tx'[t] = Idle /\ Idle.pc \notin DraftPc /\ \A s \in Tx \ {t} : tx'[s] = tx[s]
  BY <1>2 DEF Base, TypeOK, Idle, DraftPc
<1>4. \A w \in Version, m \in File :
              /\ files[<<w, m>>] # "never" => files'[<<w, m>>] # "never"
              /\ w # v \/ m # n => files'[<<w, m>>] = files[<<w, m>>]
  BY <1>1, Deleting
<1>5. 0 \in File
  BY SignaturesAssumption DEF File
<1>6. ASSUME NEW s \in Tx \ {t} PROVE Sound(tx[s])' /\ Apart(tx[s], Idle) /\ Apart(Idle, tx[s])
  <2>1. Apart(tx[t], tx[s]) /\ Apart(tx[s], tx[t])
    BY DEF DraftInv
  <2>2. CASE tx[s].pc \notin DraftPc
    BY <1>3, <2>2, AtRest DEF Sound, DraftPc
  <2>3. CASE tx[s].pc \in DraftPc
    <3>1. /\ Sound(tx[s]) /\ tx[s].v \in Version /\ tx[s].old \in File
          /\ tx[s].pc \in {"uploading", "replacing", "cleaning"} => tx[s].num \in File
      BY <2>3, Working
    <3>2. tx[s].pc \in {"uploading", "replacing"} => tx[s].v # v \/ tx[s].num # n
      BY <1>1, <2>1, <2>3 DEF Apart, DraftPc
    <3>3. Sound(tx[s])'
      BY <1>2, <1>3, <1>4, <1>5, <3>1, <3>2 DEF Sound, Stored
    <3>4. QED
      BY <1>3, <3>3, AtRest
  <2>4. QED
    BY <2>2, <2>3
<1>7. \A s, u \in Tx : s # u => Apart(tx[s], tx[u])'
  BY <1>2, <1>6, StillApart
<1>8. Sound(tx[t])'
  BY <1>3 DEF Sound, DraftPc
<1>9. OneInForce' /\ Uploaded' /\ SourcesAreKept'
  <2>1. ASSUME NEW w \in Version, ver[w].st # "none"
        PROVE  files'[<<w, 0>>] # "never" /\ files'[<<w, ver[w].file>>] = "stored"
    <3>1. w # v \/ ver[w].file # n
      BY <1>1, <2>1 DEF Sound
    <3>2. QED
      BY <1>4, <1>5, <2>1, <3>1, RowsTyped DEF DraftInv, Uploaded, SourcesAreKept, Stored
  <2>2. OneInForce'
    BY <1>2 DEF DraftInv, OneInForce, Published
  <2>3. QED
    BY <1>2, <2>1, <2>2 DEF Uploaded, SourcesAreKept, Stored
<1>10. QED
  BY <1>6, <1>7, <1>8, <1>9 DEF DraftInv

(* The steps of a connection leave the others alone, and administrators    *)
(* and users do not change roles within a transaction.                     *)
LEMMA Elsewhere ==
  ASSUME Base, NEW t \in Tx, Administer(t) \/ Sign(t) \/ Crash(t)
  PROVE  \A s \in Tx \ {t} : tx'[s] = tx[s]
<1>1. DOMAIN tx = Tx
  BY DEF Base, TypeOK
<1>2. CASE Administer(t)
  BY <1>1, <1>2
  DEF Administer, CreateAgreement, BeginEdit, ChangeText, BeginUpload, BeginReplace,
      BeginPublish, BeginDelete, BeginWithdraw, BeginSwitch, CommitEdit, CommitUpload,
      CommitReplace, CommitDelete, CommitPublish, CommitWithdraw, CommitSwitch, CleanUp,
      FailFile, Begin, End
<1>3. CASE Sign(t) \/ Crash(t)
  BY <1>1, <1>3
  DEF Sign, BeginAccess, BeginComplete, BeginSubmit, Evaluate, Grant, Continue, Refuse,
      AlreadySigned, Resume, Reserve, MakeReceipt, MarkReady, Review, Append, Void, Crash,
      Begin, Goto, End
<1>4. QED
  BY <1>2, <1>3

(* Where a step leaves its connection.                                   *)
LEMMA PcOf ==
  ASSUME Base, NEW t \in Tx
  PROVE  /\ End(t) => tx'[t] = Idle /\ tx'[t].pc = "idle"
         /\ \A pc : Goto(t, pc) => /\ tx'[t].pc = pc /\ tx'[t].c = tx[t].c /\ tx'[t].v = tx[t].v
                                  /\ tx'[t].epoch = tx[t].epoch
<1>1. DOMAIN tx = Tx /\ tx[t] \in TxRecord
  BY DEF Base, TypeOK
<1>2. Idle.pc = "idle"
  BY DEF Idle
<1>3. ASSUME NEW pc, Goto(t, pc)
      PROVE  /\ tx'[t].pc = pc /\ tx'[t].c = tx[t].c /\ tx'[t].v = tx[t].v
             /\ tx'[t].epoch = tx[t].epoch
  <2>1. tx' = [tx EXCEPT ![t] = [tx[t] EXCEPT !.pc = pc]]
    BY <1>3 DEF Goto
  <2>2. tx'[t] = [tx[t] EXCEPT !.pc = pc]
    BY <1>1, <2>1
  <2>3. QED
    BY <1>1, <2>2 DEF TxRecord
<1>4. QED
  BY <1>1, <1>2, <1>3 DEF End

UserPc == {"idle", "gate", "refresh", "complete", "granting", "continuing"} \cup SignPc

(* A step of a user leaves its connection in the code of users.          *)
LEMMA UsersStayUsers ==
  ASSUME Base, NEW t \in Tx, Sign(t) \/ Crash(t)
  PROVE  tx'[t].pc \in UserPc
<1>1. DOMAIN tx = Tx
  BY DEF Base, TypeOK
<1>2. CASE \E op \in {"gate", "refresh"} : BeginAccess(t, op)
  BY <1>1, <1>2, IdleTyped DEF BeginAccess, Begin, TxRecord, UserPc
<1>3. CASE \E c \in Cont : BeginComplete(t, c)
  BY <1>1, <1>3, IdleTyped DEF BeginComplete, Begin, TxRecord, UserPc
<1>4. CASE \E c \in Cont, v \in Version, ok \in BOOLEAN : BeginSubmit(t, c, v, ok)
  BY <1>1, <1>4, IdleTyped DEF BeginSubmit, Begin, TxRecord, UserPc, SignPc
<1>5. CASE End(t) \/ \E pc \in UserPc : Goto(t, pc)
  BY <1>5, PcOf DEF UserPc
<1>6. CASE \/ Evaluate(t) \/ Grant(t) \/ Continue(t) \/ Refuse(t) \/ AlreadySigned(t)
           \/ Resume(t) \/ Reserve(t) \/ MakeReceipt(t) \/ MarkReady(t) \/ Review(t)
           \/ Append(t) \/ Void(t) \/ Crash(t)
  BY <1>5, <1>6
  DEF Evaluate, Grant, Continue, Refuse, AlreadySigned, Resume, Reserve, MakeReceipt,
      MarkReady, Review, Append, Void, Crash, UserPc, SignPc
<1>7. QED
  BY <1>2, <1>3, <1>4, <1>6 DEF Sign

(* A step of an administrator leaves it in that of administrators.       *)
LEMMA AdministratorsStay ==
  ASSUME Base, NEW t \in Tx, Administer(t)
  PROVE  tx'[t] = tx[t] \/ tx'[t].pc \in AdminPc \cup {"idle"}
<1>1. DOMAIN tx = Tx /\ tx[t] \in TxRecord
  BY DEF Base, TypeOK
<1>2. CASE End(t)
  BY <1>2, PcOf
<1>3. CASE \E a \in Agreement, title \in Title, req \in BOOLEAN : BeginEdit(t, a, title, req)
  BY <1>1, <1>3, IdleTyped DEF BeginEdit, Begin, TxRecord, AdminPc
<1>4. CASE \E v \in Version, text \in Text, a \in Agreement : BeginUpload(t, v, a, text)
  BY <1>1, <1>4, IdleTyped DEF BeginUpload, Begin, TxRecord, AdminPc
<1>5. CASE \E v \in Version, n \in File : BeginReplace(t, v, n)
  BY <1>1, <1>5, IdleTyped DEF BeginReplace, Begin, TxRecord, AdminPc
<1>6. CASE \E v \in Version : \E eff \in {now, now + 1} : BeginPublish(t, v, eff)
  BY <1>1, <1>6, IdleTyped DEF BeginPublish, Begin, TxRecord, AdminPc
<1>7. CASE \E v \in Version : BeginDelete(t, v) \/ BeginWithdraw(t, v)
  <2>1. CASE \E v \in Version : BeginDelete(t, v)
    BY <1>1, <2>1, IdleTyped DEF BeginDelete, Begin, TxRecord, AdminPc
  <2>2. CASE \E v \in Version : BeginWithdraw(t, v)
    BY <1>1, <2>2, IdleTyped DEF BeginWithdraw, Begin, TxRecord, AdminPc
  <2>3. QED
    BY <1>7, <2>1, <2>2
<1>8. CASE \E on \in BOOLEAN : BeginSwitch(t, on)
  BY <1>1, <1>8, IdleTyped DEF BeginSwitch, Begin, TxRecord, AdminPc
<1>9. CASE CommitReplace(t) \/ CommitDelete(t)
  <2>1. tx' = [[tx EXCEPT ![t].pc = "cleaning"] EXCEPT ![t].num = tx[t].old]
    BY <1>9 DEF CommitReplace, CommitDelete
  <2>2. tx'[t].pc = "cleaning"
    BY <1>1, <2>1 DEF TxRecord
  <2>3. QED
    BY <2>2 DEF AdminPc
<1>10. CASE tx' = tx
  BY <1>10
<1>11. QED
  BY <1>2, <1>3, <1>4, <1>5, <1>6, <1>7, <1>8, <1>9, <1>10
  DEF Administer, CreateAgreement, ChangeText, CommitEdit, CommitUpload, CommitPublish,
      CommitWithdraw, CommitSwitch, CleanUp, FailFile

(* The invariant of the drafts holds initially.                          *)
LEMMA DraftInitially == Init => DraftInv
<1> SUFFICES ASSUME Init PROVE DraftInv
  OBVIOUS
<1>1. \A t \in Tx : tx[t] = Idle /\ Idle.pc \notin DraftPc
  BY DEF Init, Idle, DraftPc
<1>2. \A s, t \in Tx : Sound(tx[s]) /\ Apart(tx[s], tx[t])
  BY <1>1 DEF Sound, Apart, DraftPc
<1>3. OneInForce /\ Uploaded /\ SourcesAreKept
  <2>1. CASE Empty
    BY <2>1 DEF Empty, OneInForce, Uploaded, SourcesAreKept, Published, NoVersion
  <2>2. CASE \E a \in Agreement, v \in Version, title \in Title, text \in Text :
               \E drafts \in SUBSET (Version \ {v}) : OneRequired(a, v, drafts, title, text)
    <3>1. PICK a \in Agreement, v \in Version, title \in Title, text \in Text :
               \E drafts \in SUBSET (Version \ {v}) : OneRequired(a, v, drafts, title, text)
      BY <2>2
    <3>2. PICK drafts \in SUBSET (Version \ {v}) : OneRequired(a, v, drafts, title, text)
      BY <3>1
    <3>3. 0 \in File
      BY SignaturesAssumption DEF File
    <3>4. ASSUME NEW w \in Version
          PROVE  /\ ver[w].st # "none" => ver[w].file = 0 /\ files[<<w, 0>>] = "stored"
                 /\ ver[w].st = "PUBLISHED" => w = v
      BY <3>2, <3>3 DEF OneRequired, NoVersion
    <3>5. QED
      BY <3>4 DEF OneInForce, Uploaded, SourcesAreKept, Stored, Published
  <2>3. QED
    BY <2>1, <2>2 DEF Init
<1>4. QED
  BY <1>2, <1>3 DEF DraftInv

(* Publishing and withdrawing keep the invariant of the drafts.          *)
LEMMA PublicationKeepsDrafts ==
  ASSUME Base, DraftInv, NEW t \in Tx, CommitPublish(t) \/ CommitWithdraw(t)
  PROVE  DraftInv'
<1> DEFINE v == tx[t].v
<1>1. /\ tx[t].pc \in DraftPc /\ v \in Version /\ Sound(tx[t])
      /\ ver \in [Version -> VersionRow] /\ ver[v] \in VersionRow
  BY Working DEF CommitPublish, CommitWithdraw, At, DraftPc, Base, TypeOK, TablesTyped
<1>2. files' = files /\ \A s \in Tx : tx'[s] = tx[s] \/ tx'[s].pc \notin DraftPc
  <2>1. tx'[t].pc = "idle" /\ files' = files
    BY PcOf DEF CommitPublish, CommitWithdraw, store
  <2>2. \A s \in Tx \ {t} : tx'[s] = tx[s]
    BY Elsewhere DEF Administer
  <2>3. QED
    BY <2>1, <2>2 DEF DraftPc
<1>3. CASE CommitPublish(t)
  <2>1. /\ ver[v].st = "DRAFT" /\ ver[v].ag = tx[t].a
        /\ ver'[v] = [ver[v] EXCEPT !.st = "PUBLISHED", !.eff = tx[t].num]
    BY <1>1, <1>3 DEF CommitPublish, MayWriteDraft, Sound, At
  <2>2. /\ ver'[v].st = "PUBLISHED" /\ ver'[v].file = ver[v].file /\ ver'[v].ag = tx[t].a
    BY <1>1, <2>1 DEF VersionRow, NoVersion
  <2>3. ASSUME NEW w \in Version \ {v}
        PROVE  /\ ver'[w].file = ver[w].file /\ ver'[w].ag = ver[w].ag
               /\ \/ ver'[w].st = ver[w].st
                  \/ ver[w].st = "PUBLISHED" /\ ver'[w].st = "SUPERSEDED"
               /\ ver'[w].st = "PUBLISHED" => ver[w].st = "PUBLISHED" /\ ver[w].ag # tx[t].a
    <3>1. ver[w] \in VersionRow
      BY <1>1
    <3>2. CASE ver[w].ag = tx[t].a /\ Published(w)
      <4>1. ver'[w] = [ver[w] EXCEPT !.st = "SUPERSEDED"]
        BY <1>3, <3>2 DEF CommitPublish
      <4>2. QED
        BY <3>1, <3>2, <4>1 DEF VersionRow, NoVersion, Published
    <3>3. CASE ~(ver[w].ag = tx[t].a /\ Published(w))
      <4>1. ver'[w] = ver[w]
        BY <1>3, <3>3 DEF CommitPublish
      <4>2. QED
        BY <3>3, <4>1 DEF Published
    <3>4. QED
      BY <3>2, <3>3
  <2>4. OneInForce'
    BY <2>2, <2>3 DEF OneInForce, DraftInv, Published
  <2>5. QED
    BY <1>2, <2>1, <2>2, <2>3, <2>4, QuietDrafts
<1>4. CASE CommitWithdraw(t)
  <2>1. ver' = [ver EXCEPT ![v] = [ver[v] EXCEPT !.st = "WITHDRAWN"]] /\ ver[v].st = "PUBLISHED"
    BY <1>4 DEF CommitWithdraw, MayWithdraw
  <2>2. /\ ver'[v].st = "WITHDRAWN" /\ ver'[v].file = ver[v].file /\ ver'[v].ag = ver[v].ag
        /\ \A w \in Version \ {v} : ver'[w] = ver[w]
    BY <1>1, <2>1 DEF VersionRow, NoVersion
  <2>3. OneInForce'
    BY <2>2 DEF OneInForce, DraftInv, Published
  <2>4. QED
    BY <1>2, <2>1, <2>2, <2>3, QuietDrafts
<1>5. QED
  BY <1>3, <1>4

(* Every step keeps the invariant of the drafts.                         *)
LEMMA DraftStep == ASSUME Base, DraftInv, [Next]_vars PROVE DraftInv'
<1>1. ASSUME files' = files, ver' = ver, \A s \in Tx : tx'[s] = tx[s] \/ tx'[s].pc \notin DraftPc
      PROVE  DraftInv'
  BY <1>1, QuietDrafts DEF OneInForce, DraftInv, Published
<1>2. CASE UNCHANGED vars
  BY <1>1, <1>2 DEF vars, tables, store
<1>3. ASSUME NEW t \in Tx, Sign(t) \/ Crash(t) PROVE DraftInv'
  <2>1. \A s \in Tx : tx'[s] = tx[s] \/ tx'[s].pc \notin DraftPc
    BY <1>3, Elsewhere, UsersStayUsers DEF UserPc, SignPc, DraftPc
  <2>2. QED
    BY <1>1, <1>3, <2>1, UsersLeave
<1>4. ASSUME NEW t \in Tx, Administer(t) PROVE DraftInv'
  <2>1. CASE \/ \E a \in Agreement, title \in Title, req \in BOOLEAN :
                  CreateAgreement(t, a, title, req) \/ BeginEdit(t, a, title, req)
             \/ \E on \in BOOLEAN : BeginSwitch(t, on)
             \/ CommitEdit(t) \/ CommitSwitch(t)
    <3>1. tx'[t] = tx[t] \/ tx'[t].pc \notin DraftPc
      <4>1. CASE \E a \in Agreement, title \in Title, req \in BOOLEAN : BeginEdit(t, a, title, req)
        BY <4>1, IdleTyped DEF BeginEdit, Begin, Base, TypeOK, TxRecord, DraftPc
      <4>2. CASE \E on \in BOOLEAN : BeginSwitch(t, on)
        BY <4>2, IdleTyped DEF BeginSwitch, Begin, Base, TypeOK, TxRecord, DraftPc
      <4>3. CASE tx' = tx \/ End(t)
        BY <4>3, PcOf DEF DraftPc
      <4>4. QED
        BY <2>1, <4>1, <4>2, <4>3 DEF CreateAgreement, CommitEdit, CommitSwitch
    <3>2. files' = files /\ ver' = ver
      BY <2>1 DEF CreateAgreement, BeginEdit, BeginSwitch, CommitEdit, CommitSwitch, tables, store
    <3>3. QED
      BY <1>1, <1>4, <3>1, <3>2, Elsewhere
  <2>2. CASE \E v \in Version, text \in Text : ChangeText(t, v, text)
    <3>1. PICK v \in Version, text \in Text : ChangeText(t, v, text)
      BY <2>2
    <3>2. /\ ver' = [ver EXCEPT ![v] = [ver[v] EXCEPT !.text = text]]
          /\ files' = files /\ tx' = tx
      BY <3>1 DEF ChangeText, store
    <3>3. \A w \in Version : /\ ver'[w].file = ver[w].file /\ ver'[w].ag = ver[w].ag
                             /\ ver'[w].st = ver[w].st
      BY <3>2 DEF Base, TypeOK, TablesTyped, VersionRow, NoVersion
    <3>4. OneInForce'
      BY <3>3 DEF OneInForce, DraftInv, Published
    <3>5. QED
      BY <3>2, <3>3, <3>4, QuietDrafts
  <2>3. CASE CommitPublish(t) \/ CommitWithdraw(t)
    BY <2>3, PublicationKeepsDrafts
  <2>4. CASE \E v \in Version, text \in Text, a \in Agreement : BeginUpload(t, v, a, text)
    BY <2>4, UploadStarts
  <2>5. CASE \E v \in Version, n \in File : BeginReplace(t, v, n)
    BY <2>5, ReplaceStarts
  <2>6. CASE \E v \in Version : \/ \E eff \in {now, now + 1} : BeginPublish(t, v, eff)
                                \/ BeginDelete(t, v) \/ BeginWithdraw(t, v)
    BY <2>6, ClosingStarts
  <2>7. CASE CommitUpload(t) \/ CommitReplace(t) \/ CommitDelete(t) \/ CleanUp(t) \/ FailFile(t)
    BY <2>7, UploadCommits, RowCommits, FilesGo
  <2>8. QED
    BY <1>4, <2>1, <2>2, <2>3, <2>4, <2>5, <2>6, <2>7 DEF Administer
<1>5. CASE (\E k \in Claim : Revoke(k)) \/ Reset \/ Tick
  BY <1>1, <1>5 DEF Revoke, Reset, Tick, tables, store
<1>6. QED
  BY <1>2, <1>3, <1>4, <1>5 DEF Next

----------------------------------------------------------------------------
(* Claims, signatures and receipts.                                        *)

Settled == {"PUBLISHED", "SUPERSEDED", "WITHDRAWN"}

ClaimSound(k) ==
  /\ claim[k].st # "none" => /\ ver[k[2]].st \in Settled
                             /\ claim[k].text = ver[k[2]].text /\ claim[k].file = ver[k[2]].file
  /\ claim[k].st \in {"EVIDENCE_READY", "COMPLETED"} => k \in receipts
  /\ claim[k].st = "COMPLETED" <=> sig[k] # "none"

Decided(t) ==
  /\ tx[t].pc = "mark" => Asked(t) \in receipts
  /\ tx[t].pc \in {"appending", "voiding"} => claim[Asked(t)].st = "EVIDENCE_READY"
  /\ tx[t].pc = "appending" => ~Signed(tx[t].v) /\ claim[Asked(t)].prior = SignatureState(tx[t].v)
  /\ tx[t].pc \in Deciding => tx[t].epoch = epoch

OneDecides == \A s, t \in Tx : tx[s].pc \in Deciding /\ tx[t].pc \in Deciding => s = t

ClaimInv ==
  /\ \A k \in Claim : ClaimSound(k)
  /\ \A t \in Tx : Decided(t)
  /\ OneDecides
  /\ SignaturesFollowRevocations

(* While no signature is written, none changes its state.                *)
LEMMA SignaturesSame ==
  ASSUME sig' = sig, NEW v
  PROVE  /\ SignatureState(v)' = SignatureState(v)
         /\ Signed(v)' <=> Signed(v)
BY DEF SignatureState, Signed

(* The invariant of the claims holds initially.                          *)
LEMMA ClaimInitially == Init => ClaimInv
<1> SUFFICES ASSUME Init PROVE ClaimInv
  OBVIOUS
<1>1. \A t \in Tx : tx[t] = Idle /\ Idle.pc = "idle"
  BY DEF Init, Idle
<1>2. \A k \in Claim : claim[k].st = "none" /\ sig[k] = "none"
  BY DEF Init, NoClaim
<1>3. \A v \in Version, c \in Cont : sig[<<c, v>>] = "none"
  BY <1>2 DEF Claim
<1>4. QED
  BY <1>1, <1>2, <1>3
  DEF ClaimInv, ClaimSound, Decided, OneDecides, Deciding, SignaturesFollowRevocations

(* A row that was published is never rewritten or deleted.                 *)
SettledRowsStand ==
  \A v \in Version : ver[v].st \in Settled =>
    /\ ver'[v].st \in Settled /\ ver'[v].ag = ver[v].ag
    /\ ver'[v].text = ver[v].text /\ ver'[v].file = ver[v].file
    /\ ver'[v].st = "PUBLISHED" => ver[v].st = "PUBLISHED"

(* No administrator changes a version that is no longer a draft, but to close it. *)
LEMMA SettledStep ==
  ASSUME Base, DraftInv, NEW t \in Tx, Administer(t)
  PROVE  SettledRowsStand
<1>1. ver \in [Version -> VersionRow] /\ \A v \in Version : ver[v] \in VersionRow
  BY DEF Base, TypeOK, TablesTyped
<1>2. CASE ver' = ver
  BY <1>2 DEF SettledRowsStand
<1>3. CASE \E v \in Version, text \in Text : ChangeText(t, v, text)
  <2>1. PICK v \in Version, text \in Text : ChangeText(t, v, text)
    BY <1>3
  <2>2. \A w \in Version \ {v} : ver'[w] = ver[w]
    BY <1>1, <2>1 DEF ChangeText
  <2>3. ver[v].st = "DRAFT"
    BY <2>1 DEF ChangeText, MayWriteDraft
  <2>4. QED
    BY <2>2, <2>3 DEF SettledRowsStand, Settled
<1>4. CASE CommitUpload(t) \/ CommitReplace(t) \/ CommitDelete(t)
  <2>1. ver[tx[t].v].st \in {"none", "DRAFT"}
    BY <1>4, Working DEF CommitUpload, CommitReplace, CommitDelete, MayWriteDraft, At, DraftPc, Sound
  <2>2. \A w \in Version \ {tx[t].v} : ver'[w] = ver[w]
    BY <1>1, <1>4 DEF CommitUpload, CommitReplace, CommitDelete
  <2>3. QED
    BY <2>1, <2>2 DEF SettledRowsStand, Settled
<1>5. CASE CommitPublish(t)
  <2>1. ASSUME NEW v \in Version, ver[v].st \in Settled
        PROVE  /\ ver'[v].st \in Settled /\ ver'[v].ag = ver[v].ag
               /\ ver'[v].text = ver[v].text /\ ver'[v].file = ver[v].file
               /\ ver'[v].st = "PUBLISHED" => ver[v].st = "PUBLISHED"
    <3>1. v # tx[t].v
      BY <1>5, <2>1 DEF CommitPublish, MayWriteDraft, Settled
    <3>2. ver'[v] = ver[v] \/ ver'[v] = [ver[v] EXCEPT !.st = "SUPERSEDED"]
      BY <1>5, <3>1 DEF CommitPublish
    <3>3. QED
      BY <1>1, <2>1, <3>2 DEF VersionRow, NoVersion, Settled
  <2>2. QED
    BY <2>1 DEF SettledRowsStand
<1>6. CASE CommitWithdraw(t)
  <2>1. ver' = [ver EXCEPT ![tx[t].v] = [ver[tx[t].v] EXCEPT !.st = "WITHDRAWN"]]
    BY <1>6 DEF CommitWithdraw
  <2>2. ver[tx[t].v].st = "PUBLISHED"
    BY <1>6 DEF CommitWithdraw, MayWithdraw
  <2>3. ASSUME NEW v \in Version, ver[v].st \in Settled
        PROVE  /\ ver'[v].st \in Settled /\ ver'[v].ag = ver[v].ag
               /\ ver'[v].text = ver[v].text /\ ver'[v].file = ver[v].file
               /\ ver'[v].st = "PUBLISHED" => ver[v].st = "PUBLISHED"
    BY <1>1, <2>1, <2>2, <2>3 DEF VersionRow, NoVersion, Settled
  <2>4. QED
    BY <2>3 DEF SettledRowsStand
<1>7. QED
  BY <1>2, <1>3, <1>4, <1>5, <1>6
  DEF Administer, CreateAgreement, BeginEdit, BeginUpload, BeginReplace, BeginPublish, BeginDelete,
      BeginWithdraw, BeginSwitch, CommitEdit, CommitSwitch, CleanUp, FailFile, tables

(* A step that changes no claim and no signature, and starts no decision.  *)
LEMMA QuietClaims ==
  ASSUME ClaimInv, SettledRowsStand, claim' = claim, sig' = sig, receipts \subseteq receipts',
         epoch' = epoch,
         \A s \in Tx : tx'[s] = tx[s] \/ tx'[s].pc \notin Deciding \cup {"mark"}
  PROVE  ClaimInv'
<1>1. ASSUME NEW k \in Claim PROVE ClaimSound(k)'
  <2>1. ClaimSound(k) /\ k[2] \in Version
    BY DEF ClaimInv, Claim
  <2>2. QED
    BY <2>1 DEF ClaimSound, SettledRowsStand
<1>2. ASSUME NEW s \in Tx PROVE Decided(s)'
  <2>1. CASE tx'[s].pc \notin Deciding \cup {"mark"}
    BY <2>1 DEF Decided, Deciding
  <2>2. CASE tx'[s] = tx[s]
    <3>1. Decided(s) /\ Asked(s)' = Asked(s)
      BY <2>2 DEF ClaimInv, Asked
    <3>2. QED
      BY <2>2, <3>1, SignaturesSame DEF Decided
  <2>3. QED
    BY <2>1, <2>2
<1>3. OneDecides'
  BY DEF OneDecides, ClaimInv
<1>4. SignaturesFollowRevocations'
  BY DEF SignaturesFollowRevocations, ClaimInv
<1>5. QED
  BY <1>1, <1>2, <1>3, <1>4 DEF ClaimInv

(* The decisions: one connection starts to decide once no other one does.  *)
LEMMA DecisionsStart ==
  ASSUME Base, DraftInv, ClaimInv, NEW t \in Tx, Evaluate(t) \/ Review(t)
  PROVE  ClaimInv'
<1>1. /\ claim' = claim /\ sig' = sig /\ receipts' = receipts /\ epoch' = epoch /\ ver' = ver
      /\ tx[t].epoch = epoch /\ SettingsFree /\ tx[t] \in TxRecord
      /\ \A s \in Tx \ {t} : tx'[s] = tx[s]
  BY Elsewhere DEF Evaluate, Review, tables, store, Locked, Sign, Base, TypeOK
<1>2. /\ \/ tx'[t].c = tx[t].c /\ tx'[t].v = tx[t].v /\ tx'[t].epoch = tx[t].epoch
         \/ tx'[t].pc = "idle"
      /\ tx'[t].pc \in {"idle", "granting", "continuing", "appending", "voiding"}
      /\ tx'[t].pc \in {"appending", "voiding"} =>
           /\ claim[Asked(t)].st = "EVIDENCE_READY"
           /\ tx'[t].pc = "appending" => StillAsReserved(Asked(t))
  <2>1. CASE End(t)
    BY <2>1, PcOf
  <2>2. CASE Goto(t, "granting") \/ Goto(t, "continuing")
    BY <1>1, <2>2, PcOf
  <2>3. CASE Goto(t, "appending") /\ claim[Asked(t)].st = "EVIDENCE_READY" /\ StillAsReserved(Asked(t))
    BY <1>1, <2>3, PcOf
  <2>4. CASE Goto(t, "voiding") /\ claim[Asked(t)].st = "EVIDENCE_READY"
    BY <1>1, <2>4, PcOf
  <2>5. QED
    BY <2>1, <2>2, <2>3, <2>4 DEF Evaluate, Review
<1>3. \A k \in Claim : ClaimSound(k)'
  BY <1>1 DEF ClaimInv, ClaimSound
<1>4. OneDecides'
  BY <1>1 DEF OneDecides, SettingsFree
<1>5. ASSUME NEW s \in Tx PROVE Decided(s)'
  <2>1. CASE s = t /\ tx'[t].pc = "idle"
    BY <2>1 DEF Decided, Deciding
  <2>2. CASE s = t /\ tx'[t].pc # "idle"
    <3>1. Asked(t)' = Asked(t) /\ tx'[t].v = tx[t].v /\ tx'[t].epoch = epoch'
      BY <1>1, <1>2, <2>2 DEF Asked
    <3>2. tx'[t].pc = "appending"
            => ~Signed(tx[t].v) /\ claim[Asked(t)].prior = SignatureState(tx[t].v)
      BY <1>2 DEF StillAsReserved, Missing, Asked
    <3>3. QED
      BY <1>1, <1>2, <2>2, <3>1, <3>2, SignaturesSame DEF Decided, Deciding
  <2>3. CASE s # t
    <3>1. Decided(s) /\ tx'[s] = tx[s] /\ Asked(s)' = Asked(s)
      BY <1>1, <2>3 DEF ClaimInv, Asked
    <3>2. QED
      BY <1>1, <3>1, SignaturesSame DEF Decided
  <2>4. QED
    BY <2>1, <2>2, <2>3
<1>6. SignaturesFollowRevocations'
  BY <1>1 DEF SignaturesFollowRevocations, ClaimInv
<1>7. QED
  BY <1>3, <1>4, <1>5, <1>6 DEF ClaimInv

(* What a signing connection works on.                                     *)
LEMMA Asking ==
  ASSUME Base, NEW t \in Tx, tx[t].pc \in SignPc
  PROVE  /\ tx[t].c \in Cont /\ tx[t].v \in Version
         /\ Asked(t) = <<tx[t].c, tx[t].v>> /\ Asked(t) \in Claim
         /\ cont[tx[t].c].epoch = tx[t].epoch
BY SignaturesAssumption DEF Base, TxSound, Asked, Claim

(* Reserving a claim keeps the invariant of the claims.                  *)
LEMMA ReserveKeepsClaims ==
  ASSUME Base, DraftInv, ClaimInv, NEW t \in Tx, Reserve(t)
  PROVE  ClaimInv'
<1> DEFINE k == Asked(t)
           v == tx[t].v
<1>1. /\ tx[t].pc = "submit" /\ k \in Claim /\ v \in Version /\ k[2] = v
      /\ claim[k].st = "none" /\ sig[k] = "none" /\ v \in Missing
  BY Asking DEF Reserve, Reserving, At, SignPc
<1>2. PICK r : r = [st |-> "CLAIMED", rev |-> settings.rev, title |-> ag[ver[v].ag].title,
                    text |-> ver[v].text, file |-> ver[v].file, prior |-> SignatureState(v)]
  OBVIOUS
<1>3. /\ claim' = [claim EXCEPT ![k] = r]
      /\ sig' = sig /\ ver' = ver /\ epoch' = epoch /\ receipts' = receipts
      /\ tx'[t].pc = "evidence" /\ \A s \in Tx \ {t} : tx'[s] = tx[s]
  BY <1>2, PcOf, Elsewhere DEF Reserve, Sign, store
<1>4. claim'[k] = r /\ \A j \in Claim \ {k} : claim'[j] = claim[j]
  BY <1>1, <1>3 DEF Base, TypeOK, TablesTyped
<1>5. ver[v].st = "PUBLISHED"
  BY <1>1 DEF Missing, Required, InForce, Published
<1>6. ASSUME NEW j \in Claim PROVE ClaimSound(j)'
  <2>1. CASE j = k
    BY <1>1, <1>2, <1>3, <1>4, <1>5, <2>1 DEF ClaimSound, Settled
  <2>2. CASE j # k
    <3>1. ClaimSound(j)
      BY DEF ClaimInv
    <3>2. QED
      BY <1>3, <1>4, <2>2, <3>1 DEF ClaimSound
  <2>3. QED
    BY <2>1, <2>2
<1>7. ASSUME NEW s \in Tx PROVE Decided(s)'
  <2>1. CASE s = t
    BY <1>3, <2>1 DEF Decided, Deciding
  <2>2. CASE s # t
    <3>1. Decided(s) /\ tx'[s] = tx[s] /\ Asked(s)' = Asked(s)
      BY <1>3, <2>2 DEF ClaimInv, Asked
    <3>2. tx[s].pc \in {"appending", "voiding"} => Asked(s) \in Claim /\ Asked(s) # k
      BY <1>1, <3>1, Asking DEF Decided, SignPc
    <3>3. QED
      BY <1>3, <1>4, <3>1, <3>2, SignaturesSame DEF Decided
  <2>3. QED
    BY <2>1, <2>2
<1>8. OneDecides'
  BY <1>3 DEF OneDecides, ClaimInv, Deciding
<1>9. SignaturesFollowRevocations'
  <2>1. ASSUME NEW w \in Version, NEW c \in Cont, sig[<<c, w>>] # "none"
        PROVE  claim'[<<c, w>>] = claim[<<c, w>>]
    BY <1>1, <1>4, <2>1 DEF Claim
  <2>2. QED
    BY <1>3, <2>1 DEF SignaturesFollowRevocations, ClaimInv
<1>10. QED
  BY <1>6, <1>7, <1>8, <1>9 DEF ClaimInv

(* Storing the receipt keeps it.                                         *)
LEMMA ReceiptKeepsClaims ==
  ASSUME Base, DraftInv, ClaimInv, NEW t \in Tx, MakeReceipt(t)
  PROVE  ClaimInv'
<1>1. /\ tx[t].pc = "evidence" /\ receipts' = receipts \cup {Asked(t)}
      /\ claim' = claim /\ sig' = sig /\ ver' = ver /\ epoch' = epoch
      /\ tx'[t].pc = "mark" /\ tx'[t].c = tx[t].c /\ tx'[t].v = tx[t].v
      /\ \A s \in Tx \ {t} : tx'[s] = tx[s]
  BY PcOf, Elsewhere DEF MakeReceipt, At, Sign, tables
<1>2. \A k \in Claim : ClaimSound(k)'
  BY <1>1 DEF ClaimInv, ClaimSound
<1>3. ASSUME NEW s \in Tx PROVE Decided(s)'
  <2>1. CASE s = t
    BY <1>1, <2>1 DEF Decided, Deciding, Asked
  <2>2. CASE s # t
    <3>1. Decided(s) /\ tx'[s] = tx[s] /\ Asked(s)' = Asked(s)
      BY <1>1, <2>2 DEF ClaimInv, Asked
    <3>2. QED
      BY <1>1, <3>1, SignaturesSame DEF Decided
  <2>3. QED
    BY <2>1, <2>2
<1>4. OneDecides'
  BY <1>1 DEF OneDecides, ClaimInv, Deciding
<1>5. SignaturesFollowRevocations'
  BY <1>1 DEF SignaturesFollowRevocations, ClaimInv
<1>6. QED
  BY <1>2, <1>3, <1>4, <1>5 DEF ClaimInv

(* Marking the evidence ready keeps it.                                  *)
LEMMA MarkKeepsClaims ==
  ASSUME Base, DraftInv, ClaimInv, NEW t \in Tx, MarkReady(t)
  PROVE  ClaimInv'
<1> DEFINE k == Asked(t)
<1>1. /\ tx[t].pc = "mark" /\ k \in Claim /\ k \in receipts /\ ClaimSound(k)
      /\ sig' = sig /\ ver' = ver /\ epoch' = epoch /\ receipts' = receipts
      /\ tx'[t].pc = "final" /\ \A s \in Tx \ {t} : tx'[s] = tx[s]
  BY Asking, PcOf, Elsewhere DEF MarkReady, At, SignPc, Sign, store, ClaimInv, Decided
<1>2. PICK r : r = [claim[k] EXCEPT !.st = IF claim[k].st = "CLAIMED" THEN "EVIDENCE_READY"
                                            ELSE claim[k].st]
  OBVIOUS
<1>3. claim' = [claim EXCEPT ![k] = r]
  BY <1>2 DEF MarkReady
<1>4. claim[k] \in ClaimRow /\ claim'[k] = r /\ \A j \in Claim \ {k} : claim'[j] = claim[j]
  BY <1>1, <1>3 DEF Base, TypeOK, TablesTyped
<1>5. /\ r.text = claim[k].text /\ r.file = claim[k].file /\ r.prior = claim[k].prior
      /\ r.st = claim[k].st \/ (claim[k].st = "CLAIMED" /\ r.st = "EVIDENCE_READY")
  BY <1>2, <1>4 DEF ClaimRow
<1>6. \A j \in Claim : claim'[j].prior = claim[j].prior
  BY <1>4, <1>5
<1>7. ASSUME NEW j \in Claim PROVE ClaimSound(j)'
  <2>1. CASE j = k
    BY <1>1, <1>4, <1>5, <2>1 DEF ClaimSound
  <2>2. CASE j # k
    <3>1. ClaimSound(j)
      BY DEF ClaimInv
    <3>2. QED
      BY <1>1, <1>4, <2>2, <3>1 DEF ClaimSound
  <2>3. QED
    BY <2>1, <2>2
<1>8. ASSUME NEW s \in Tx PROVE Decided(s)'
  <2>1. CASE s = t
    BY <1>1, <2>1 DEF Decided, Deciding
  <2>2. CASE s # t
    <3>1. Decided(s) /\ tx'[s] = tx[s] /\ Asked(s)' = Asked(s)
      BY <1>1, <2>2 DEF ClaimInv, Asked
    <3>2. tx[s].pc \in {"appending", "voiding"} =>
            Asked(s) \in Claim /\ claim'[Asked(s)].st = "EVIDENCE_READY"
      BY <1>4, <1>5, <3>1, Asking DEF Decided, SignPc
    <3>3. QED
      BY <1>1, <1>6, <3>1, <3>2, SignaturesSame DEF Decided
  <2>3. QED
    BY <2>1, <2>2
<1>9. OneDecides'
  BY <1>1 DEF OneDecides, ClaimInv, Deciding
<1>10. SignaturesFollowRevocations'
  BY <1>1, <1>6 DEF SignaturesFollowRevocations, ClaimInv, Claim
<1>11. QED
  BY <1>7, <1>8, <1>9, <1>10 DEF ClaimInv

(* Once the connection that decides is done, nobody decides.               *)
LEMMA NobodyDecides ==
  ASSUME ClaimInv, NEW t \in Tx, tx[t].pc \in Deciding, tx'[t].pc = "idle",
         \A s \in Tx \ {t} : tx'[s] = tx[s]
  PROVE  \A s \in Tx : tx'[s].pc \notin Deciding
BY DEF ClaimInv, OneDecides, Deciding

(* Appending the signature and voiding the claim keep it.                *)
LEMMA OutcomeKeepsClaims ==
  ASSUME Base, DraftInv, ClaimInv, NEW t \in Tx, Append(t) \/ Void(t)
  PROVE  ClaimInv'
<1> DEFINE k == Asked(t)
           c == tx[t].c
           v == tx[t].v
<1>1. /\ tx[t].pc \in {"appending", "voiding"} /\ c \in Cont /\ v \in Version
      /\ k = <<c, v>> /\ k \in Claim /\ ClaimSound(k) /\ Decided(t)
  BY Asking DEF Append, Void, At, SignPc, ClaimInv
<1>2. /\ ver' = ver /\ epoch' = epoch /\ receipts' = receipts
      /\ tx'[t].pc = "idle" /\ \A s \in Tx \ {t} : tx'[s] = tx[s]
  BY PcOf, Elsewhere DEF Append, Void, Sign, store
<1>3. /\ claim[k].st = "EVIDENCE_READY" /\ sig[k] = "none" /\ claim[k] \in ClaimRow
      /\ k \in receipts
  BY <1>1 DEF Decided, ClaimSound, Base, TypeOK, TablesTyped
<1>4. /\ claim'[k].st \in {"COMPLETED", "INVALIDATED"}
      /\ claim'[k].text = claim[k].text /\ claim'[k].file = claim[k].file
      /\ claim'[k].prior = claim[k].prior
      /\ \A j \in Claim \ {k} : claim'[j] = claim[j] /\ sig'[j] = sig[j]
      /\ claim'[k].st = "COMPLETED" <=> Append(t)
      /\ Append(t) => sig'[k] = "valid"
      /\ ~Append(t) => sig' = sig
  <2>1. PICK r : \/ Append(t) /\ r = [claim[k] EXCEPT !.st = "COMPLETED"]
                 \/ ~Append(t) /\ r = [claim[k] EXCEPT !.st = "INVALIDATED"]
    OBVIOUS
  <2>2. claim' = [claim EXCEPT ![k] = r]
    BY <2>1 DEF Append, Void
  <2>3. /\ r.st \in {"COMPLETED", "INVALIDATED"} /\ r.text = claim[k].text
        /\ r.file = claim[k].file /\ r.prior = claim[k].prior
        /\ r.st = "COMPLETED" <=> Append(t)
    BY <1>3, <2>1 DEF ClaimRow
  <2>4. claim'[k] = r /\ \A j \in Claim \ {k} : claim'[j] = claim[j]
    BY <1>1, <2>2 DEF Base, TypeOK, TablesTyped
  <2>5. /\ \A j \in Claim \ {k} : sig'[j] = sig[j]
        /\ Append(t) => sig'[k] = "valid"
        /\ ~Append(t) => sig' = sig
    BY <1>1 DEF Append, Void, Base, TypeOK, TablesTyped
  <2>6. QED
    BY <2>3, <2>4, <2>5
<1>5. \A s \in Tx : tx'[s].pc \notin Deciding
  BY <1>1, <1>2, NobodyDecides DEF Deciding
<1>6. ASSUME NEW j \in Claim PROVE ClaimSound(j)'
  <2>1. CASE j = k
    BY <1>1, <1>2, <1>3, <1>4, <2>1 DEF ClaimSound
  <2>2. CASE j # k
    <3>1. ClaimSound(j)
      BY DEF ClaimInv
    <3>2. QED
      BY <1>2, <1>4, <2>2, <3>1 DEF ClaimSound
  <2>3. QED
    BY <2>1, <2>2
<1>7. ASSUME NEW s \in Tx PROVE Decided(s)'
  <2>1. CASE s = t
    BY <1>2, <2>1 DEF Decided, Deciding
  <2>2. CASE s # t
    <3>1. Decided(s) /\ tx'[s] = tx[s] /\ Asked(s)' = Asked(s)
      BY <1>2, <2>2 DEF ClaimInv, Asked
    <3>2. QED
      BY <1>2, <1>5, <3>1 DEF Decided, Deciding
  <2>3. QED
    BY <2>1, <2>2
<1>8. OneDecides'
  BY <1>5 DEF OneDecides
<1>9. SignaturesFollowRevocations'
  <2>1. ASSUME NEW w \in Version, NEW b \in Cont, NEW d \in Cont, b # d,
               sig'[<<b, w>>] # "none", sig'[<<d, w>>] # "none"
        PROVE  <<d, "revoked">> \in claim'[<<b, w>>].prior
                 \/ <<b, "revoked">> \in claim'[<<d, w>>].prior
    <3>1. \A j \in Claim : claim'[j].prior = claim[j].prior
      BY <1>4
    <3>2. CASE sig[<<b, w>>] # "none" /\ sig[<<d, w>>] # "none"
      BY <2>1, <3>1, <3>2 DEF ClaimInv, SignaturesFollowRevocations, Claim
    <3>3. ASSUME NEW e \in Cont, e # c, w = v, Append(t), sig[<<e, w>>] # "none"
          PROVE  <<e, "revoked">> \in claim'[<<c, w>>].prior
      <4>1. tx[t].pc = "appending"
        BY <3>3 DEF Append, At
      <4>2. sig[<<e, v>>] = "revoked"
        BY <1>1, <3>3, <4>1 DEF Decided, Signed, Base, TypeOK, TablesTyped, Claim
      <4>3. <<e, "revoked">> \in SignatureState(v)
        BY <4>2 DEF SignatureState
      <4>4. QED
        BY <1>1, <1>4, <3>3, <4>1, <4>3 DEF Decided
    <3>4. CASE sig[<<b, w>>] = "none"
      <4>1. b = c /\ w = v /\ Append(t)
        BY <1>1, <1>4, <2>1, <3>4 DEF Claim
      <4>2. sig[<<d, w>>] # "none"
        BY <1>1, <1>4, <2>1, <4>1 DEF Claim
      <4>3. QED
        BY <2>1, <3>3, <4>1, <4>2
    <3>5. CASE sig[<<d, w>>] = "none"
      <4>1. d = c /\ w = v /\ Append(t)
        BY <1>1, <1>4, <2>1, <3>5 DEF Claim
      <4>2. sig[<<b, w>>] # "none"
        BY <1>1, <1>4, <2>1, <4>1 DEF Claim
      <4>3. QED
        BY <2>1, <3>3, <4>1, <4>2
    <3>6. QED
      BY <3>2, <3>4, <3>5
  <2>2. QED
    BY <2>1 DEF SignaturesFollowRevocations
<1>10. QED
  BY <1>6, <1>7, <1>8, <1>9 DEF ClaimInv

(* Revoking a signature and resetting the account keep it.               *)
LEMMA RevokeKeepsClaims ==
  ASSUME Base, ClaimInv, (\E k \in Claim : Revoke(k)) \/ Reset
  PROVE  ClaimInv'
<1>1. /\ tx' = tx /\ claim' = claim /\ ver' = ver /\ receipts' = receipts
      /\ \A t \in Tx : tx[t].pc \notin Deciding
  BY DEF Revoke, Reset, store, SettingsFree
<1>2. \A k \in Claim : sig'[k] = "none" <=> sig[k] = "none"
  BY DEF Revoke, Reset, Base, TypeOK, TablesTyped
<1>3. ASSUME NEW k \in Claim PROVE ClaimSound(k)'
  <2>1. ClaimSound(k)
    BY DEF ClaimInv
  <2>2. QED
    BY <1>1, <1>2, <2>1 DEF ClaimSound
<1>4. ASSUME NEW s \in Tx PROVE Decided(s)'
  <2>1. Decided(s) /\ Asked(s)' = Asked(s)
    BY <1>1 DEF ClaimInv, Asked
  <2>2. QED
    BY <1>1, <2>1 DEF Decided, Deciding
<1>5. OneDecides'
  BY <1>1 DEF OneDecides
<1>6. SignaturesFollowRevocations'
  BY <1>1, <1>2 DEF SignaturesFollowRevocations, ClaimInv, Claim
<1>7. QED
  BY <1>3, <1>4, <1>5, <1>6 DEF ClaimInv

(* Every step keeps the invariant of the claims.                         *)
LEMMA ClaimStep == ASSUME Base, DraftInv, ClaimInv, [Next]_vars PROVE ClaimInv'
<1>1. ver' = ver => SettledRowsStand
  BY DEF SettledRowsStand
<1>2. CASE UNCHANGED vars
  BY <1>1, <1>2, QuietClaims DEF vars, tables, store
<1>3. ASSUME NEW t \in Tx, Administer(t) PROVE ClaimInv'
  <2>1. \A s \in Tx : tx'[s] = tx[s] \/ tx'[s].pc \notin Deciding \cup {"mark"}
    BY <1>3, Elsewhere, AdministratorsStay DEF AdminPc, Deciding
  <2>2. QED
    BY <1>3, <2>1, AdministratorsLeave, SettledStep, QuietClaims
<1>4. ASSUME NEW t \in Tx, Sign(t) \/ Crash(t) PROVE ClaimInv'
  <2>1. CASE \/ \E op \in {"gate", "refresh"} : BeginAccess(t, op)
             \/ \E c \in Cont : BeginComplete(t, c)
             \/ \E c \in Cont, v \in Version, ok \in BOOLEAN : BeginSubmit(t, c, v, ok)
             \/ Grant(t) \/ Continue(t) \/ Refuse(t) \/ AlreadySigned(t) \/ Resume(t) \/ Crash(t)
    <3>1. /\ claim' = claim /\ sig' = sig /\ receipts' = receipts /\ epoch' = epoch /\ ver' = ver
      BY <2>1 DEF BeginAccess, BeginComplete, BeginSubmit, Grant, Continue, Refuse, AlreadySigned,
                  Resume, Crash, tables, store
    <3>2. tx'[t].pc \notin Deciding \cup {"mark"}
      <4>1. CASE \/ \E op \in {"gate", "refresh"} : BeginAccess(t, op)
                 \/ \E c \in Cont : BeginComplete(t, c)
                 \/ \E c \in Cont, v \in Version, ok \in BOOLEAN : BeginSubmit(t, c, v, ok)
        <5>1. DOMAIN tx = Tx
          BY DEF Base, TypeOK
        <5>2. CASE \E op \in {"gate", "refresh"} : BeginAccess(t, op)
          BY <5>1, <5>2, IdleTyped DEF BeginAccess, Begin, TxRecord, Deciding
        <5>3. CASE \E c \in Cont : BeginComplete(t, c)
          BY <5>1, <5>3, IdleTyped DEF BeginComplete, Begin, TxRecord, Deciding
        <5>4. CASE \E c \in Cont, v \in Version, ok \in BOOLEAN : BeginSubmit(t, c, v, ok)
          BY <5>1, <5>4, IdleTyped DEF BeginSubmit, Begin, TxRecord, Deciding
        <5>5. QED
          BY <4>1, <5>2, <5>3, <5>4
      <4>2. CASE Grant(t) \/ Continue(t) \/ Refuse(t) \/ AlreadySigned(t) \/ Resume(t) \/ Crash(t)
        BY <4>2, PcOf DEF Grant, Continue, Refuse, AlreadySigned, Resume, Crash, Deciding
      <4>3. QED
        BY <2>1, <4>1, <4>2
    <3>3. \A s \in Tx : tx'[s] = tx[s] \/ tx'[s].pc \notin Deciding \cup {"mark"}
      BY <1>4, <3>2, Elsewhere
    <3>4. QED
      BY <1>1, <3>1, <3>3, QuietClaims
  <2>2. CASE Evaluate(t) \/ Review(t)
    BY <2>2, DecisionsStart
  <2>3. CASE Reserve(t) \/ MakeReceipt(t) \/ MarkReady(t) \/ Append(t) \/ Void(t)
    BY <2>3, ReserveKeepsClaims, ReceiptKeepsClaims, MarkKeepsClaims, OutcomeKeepsClaims
  <2>4. QED
    BY <1>4, <2>1, <2>2, <2>3 DEF Sign
<1>5. CASE (\E k \in Claim : Revoke(k)) \/ Reset
  BY <1>5, RevokeKeepsClaims
<1>6. CASE Tick
  BY <1>1, <1>6, QuietClaims DEF Tick, tables, store
<1>7. QED
  BY <1>2, <1>3, <1>4, <1>5, <1>6 DEF Next

(* What was signed stays available and stays what was signed, whatever     *)
(* drafts, files, publications, submissions and crashes overlap.           *)
THEOREM SignedEvidenceStands == Spec => []EvidenceStands
<1>1. Base /\ DraftInv /\ ClaimInv => EvidenceStands
  BY DEF DraftInv, ClaimInv, ClaimSound, EvidenceStands, SignaturesAreFaithful, Settled
<1>2. Init => Base /\ DraftInv /\ ClaimInv
  BY BaseInitially, DraftInitially, ClaimInitially
<1>3. Base /\ DraftInv /\ ClaimInv /\ [Next]_vars => (Base /\ DraftInv /\ ClaimInv)'
  BY BaseStep, DraftStep, ClaimStep
<1>4. QED
  BY <1>1, <1>2, <1>3, PTL DEF Spec

(* Of two signatures of a version one was revoked before the other was     *)
(* reserved: finalization compares the states again, under the lock.       *)
THEOREM RevocationsAreNotOvertaken == Spec => []SignaturesFollowRevocations
<1>1. ClaimInv => SignaturesFollowRevocations
  BY DEF ClaimInv
<1>2. Init => Base /\ DraftInv /\ ClaimInv
  BY BaseInitially, DraftInitially, ClaimInitially
<1>3. Base /\ DraftInv /\ ClaimInv /\ [Next]_vars => (Base /\ DraftInv /\ ClaimInv)'
  BY BaseStep, DraftStep, ClaimStep
<1>4. QED
  BY <1>1, <1>2, <1>3, PTL DEF Spec

----------------------------------------------------------------------------
(* The policy a decision was made under.                                   *)

(* What others may do while a decision is under way.  The clock may bring  *)
(* a version into force, but of no agreement that is required: of such a   *)
(* one another version is in force already, and only one is published.     *)
PolicyKept ==
  /\ settings' = settings /\ sig' = sig /\ now' \in {now, now + 1}
  /\ \A a \in Agreement : IsRequired(a)' <=> IsRequired(a)
  /\ \A v \in Version : /\ Published(v)' <=> Published(v)
                        /\ Published(v) => ver'[v].ag = ver[v].ag /\ ver'[v].eff = ver[v].eff

(* A version in force stays in force while the policy is kept.           *)
LEMMA KeptInForce ==
  ASSUME Base, PolicyKept, NEW v \in Version, InForce(v)
  PROVE  InForce(v)' /\ ver'[v].ag = ver[v].ag /\ ver[v].ag \in Agreement
<1>1. now \in Nat /\ ver[v] \in VersionRow /\ Published(v) /\ ver[v].eff <= now
  BY DEF Base, TypeOK, TablesTyped, InForce
<1>2. ver[v].ag \in Agreement /\ ver[v].eff \in Nat
  BY <1>1 DEF VersionRow, NoVersion, Published
<1>3. Published(v)' /\ ver'[v].ag = ver[v].ag /\ ver'[v].eff = ver[v].eff
  BY <1>1 DEF PolicyKept
<1>4. ver'[v].eff <= now'
  BY <1>1, <1>2, <1>3 DEF PolicyKept
<1>5. QED
  BY <1>2, <1>3, <1>4 DEF InForce

(* A missing signature stays missing while the policy is kept.           *)
LEMMA KeptMissing ==
  ASSUME Base, PolicyKept, NEW v \in Version, v \in Missing
  PROVE  v \in Missing'
<1>1. settings.enabled /\ InForce(v) /\ IsRequired(ver[v].ag) /\ ~Signed(v)
  BY DEF Missing, Required
<1>2. InForce(v)' /\ ver'[v].ag = ver[v].ag /\ ver[v].ag \in Agreement
  BY <1>1, KeptInForce
<1>3. IsRequired(ver[v].ag)'
  BY <1>1, <1>2 DEF PolicyKept, IsRequired
<1>4. ~Signed(v)' /\ settings'.enabled
  BY <1>1 DEF PolicyKept, Signed
<1>5. QED
  BY <1>2, <1>3, <1>4 DEF Missing, Required

(* What is complete stays complete while the policy is kept.             *)
LEMMA KeptComplete ==
  ASSUME Base, OneInForce, PolicyKept, Complete
  PROVE  Complete'
<1>1. CASE ~settings.enabled
  BY <1>1 DEF PolicyKept, Complete, PolicyValid, Missing
<1>2. CASE settings.enabled
  <2>1. settings'.enabled
    BY <1>2 DEF PolicyKept
  <2>2. ASSUME NEW a \in Agreement, IsRequired(a)' PROVE Covered(a) /\ Covered(a)'
    <3>1. Covered(a)
      BY <1>2, <2>2 DEF PolicyKept, Complete, PolicyValid
    <3>2. PICK v \in Version : InForce(v) /\ ver[v].ag = a
      BY <3>1 DEF Covered
    <3>3. InForce(v)' /\ ver'[v].ag = a
      BY <3>2, KeptInForce
    <3>4. QED
      BY <3>1, <3>3 DEF Covered
  <2>3. \E a \in Agreement : IsRequired(a)'
    BY <1>2 DEF PolicyKept, Complete, PolicyValid
  <2>4. PolicyValid'
    BY <2>2, <2>3 DEF PolicyValid
  <2>5. ASSUME NEW v \in Version, v \in Missing' PROVE FALSE
    <3>1. InForce(v)' /\ IsRequired(ver[v].ag)' /\ ~Signed(v)'
      BY <2>5 DEF Missing, Required
    <3>2. Published(v) /\ ver'[v].ag = ver[v].ag
      BY <3>1 DEF PolicyKept, InForce
    <3>3. ver[v].ag \in Agreement
      BY <3>2, RowsTyped DEF Published
    <3>4. PICK a \in Agreement : a = ver[v].ag
      BY <3>3
    <3>5. IsRequired(a)'
      BY <3>1, <3>2, <3>4 DEF IsRequired
    <3>6. IsRequired(a) /\ Covered(a)
      BY <2>2, <3>5 DEF PolicyKept
    <3>7. PICK w \in Version : InForce(w) /\ ver[w].ag = a
      BY <3>6 DEF Covered
    <3>8. InForce(v)
      BY <3>2, <3>4, <3>7 DEF OneInForce, InForce
    <3>9. ~Signed(v)
      BY <3>1 DEF Signed, PolicyKept
    <3>10. QED
      BY <1>2, <3>4, <3>6, <3>8, <3>9 DEF Complete, Missing, Required
  <2>6. Missing' = {}
    BY <2>5 DEF Missing, Required
  <2>7. QED
    BY <2>4, <2>6 DEF Complete
<1>3. QED
  BY <1>1, <1>2

(* A connection that decides does nothing but end.                         *)
LEMMA DecidersEnd ==
  ASSUME Base, NEW t \in Tx, tx[t].pc \in Deciding, Administer(t) \/ Sign(t) \/ Crash(t)
  PROVE  tx'[t].pc = "idle"
<1>1. tx[t] # Idle
  BY DEF Idle, Deciding
<1>2. CASE Administer(t)
  BY <1>1, <1>2
  DEF Administer, CreateAgreement, BeginEdit, ChangeText, BeginUpload, BeginReplace,
      BeginPublish, BeginDelete, BeginWithdraw, BeginSwitch, CommitEdit, CommitUpload,
      CommitReplace, CommitDelete, CommitPublish, CommitWithdraw, CommitSwitch, CleanUp,
      FailFile, Begin, At, Deciding
<1>3. CASE Grant(t) \/ Continue(t) \/ Append(t) \/ Void(t) \/ Crash(t)
  BY <1>3, PcOf DEF Grant, Continue, Append, Void, Crash
<1>4. CASE \/ \E op \in {"gate", "refresh"} : BeginAccess(t, op)
           \/ \E c \in Cont :
                BeginComplete(t, c) \/ \E v \in Version, ok \in BOOLEAN : BeginSubmit(t, c, v, ok)
           \/ Evaluate(t) \/ Refuse(t) \/ AlreadySigned(t) \/ Resume(t) \/ Reserve(t)
           \/ MakeReceipt(t) \/ MarkReady(t) \/ Review(t)
  BY <1>1, <1>4
  DEF BeginAccess, BeginComplete, BeginSubmit, Evaluate, Refuse, AlreadySigned, Resume, Reserve,
      MakeReceipt, MarkReady, Review, Reserving, Begin, At, Deciding
<1>5. QED
  BY <1>2, <1>3, <1>4 DEF Sign

(* Who starts to grant has seen a complete policy, and who starts to       *)
(* append a version that is missing.                                       *)
LEMMA DecisionsAreInformed ==
  ASSUME Base, NEW t \in Tx, Administer(t) \/ Sign(t) \/ Crash(t),
         tx'[t].pc \in {"granting", "appending"}
  PROVE  /\ UNCHANGED <<tables, now>>
         /\ tx'[t].pc = "granting" => Complete
         /\ tx'[t].pc = "appending" => tx'[t].v \in Missing
<1>1. tx[t].pc \notin Deciding
  BY DecidersEnd
<1>2. ~Administer(t)
  BY <1>1, AdministratorsStay DEF Deciding, AdminPc
<1>3. DOMAIN tx = Tx
  BY DEF Base, TypeOK
<1>4. CASE Evaluate(t)
  <2>1. UNCHANGED <<tables, now>>
    BY <1>4 DEF Evaluate
  <2>2. Goto(t, "granting") => Complete
    <3>1. Goto(t, "granting") => tx'[t].pc = "granting"
      BY PcOf
    <3>2. Goto(t, "continuing") => tx'[t].pc = "continuing"
      BY PcOf
    <3>3. End(t) => tx'[t].pc = "idle"
      BY PcOf
    <3>4. QED
      BY <1>4, <3>1, <3>2, <3>3 DEF Evaluate
  <2>3. tx'[t].pc = "granting" /\ Goto(t, "granting")
    <3>1. CASE Goto(t, "granting")
      BY <3>1, PcOf
    <3>2. CASE Goto(t, "continuing") \/ End(t)
      BY <3>2, PcOf
    <3>3. QED
      BY <1>4, <3>1, <3>2 DEF Evaluate
  <2>4. QED
    BY <2>1, <2>2, <2>3
<1>5. CASE Review(t)
  <2>1. UNCHANGED <<tables, now>>
    BY <1>5 DEF Review
  <2>2. CASE Goto(t, "appending") /\ StillAsReserved(Asked(t))
    BY <2>1, <2>2, PcOf DEF StillAsReserved, Asked
  <2>3. CASE Goto(t, "voiding") \/ End(t)
    BY <2>3, PcOf
  <2>4. QED
    BY <1>5, <2>2, <2>3 DEF Review
<1>6. CASE \/ Grant(t) \/ Continue(t) \/ Refuse(t) \/ AlreadySigned(t) \/ Append(t) \/ Void(t)
           \/ Crash(t) \/ Resume(t) \/ Reserve(t) \/ MakeReceipt(t) \/ MarkReady(t)
  BY <1>6, PcOf DEF Grant, Continue, Refuse, AlreadySigned, Append, Void, Crash, Resume, Reserve,
                    MakeReceipt, MarkReady
<1>7. CASE \E op \in {"gate", "refresh"} : BeginAccess(t, op)
  BY <1>3, <1>7, IdleTyped DEF BeginAccess, Begin, TxRecord
<1>8. CASE \E c \in Cont : BeginComplete(t, c)
  BY <1>3, <1>8, IdleTyped DEF BeginComplete, Begin, TxRecord
<1>9. CASE \E c \in Cont, v \in Version, ok \in BOOLEAN : BeginSubmit(t, c, v, ok)
  BY <1>3, <1>9, IdleTyped DEF BeginSubmit, Begin, TxRecord
<1>10. QED
  BY <1>2, <1>4, <1>5, <1>6, <1>7, <1>8, <1>9 DEF Sign

(* The steps that write drafts leave what is published alone.              *)
WritesDraft(t) ==
  \/ \E v \in Version, text \in Text : ChangeText(t, v, text)
  \/ CommitUpload(t) \/ CommitReplace(t) \/ CommitDelete(t)

RowsInForceStand ==
  /\ settings' = settings /\ ag' = ag
  /\ \A v \in Version : /\ Published(v)' <=> Published(v)
                        /\ Published(v) => ver'[v] = ver[v]

LEMMA DraftsAreNotInForce ==
  ASSUME Base, DraftInv, NEW t \in Tx, WritesDraft(t)
  PROVE  RowsInForceStand
<1>1. ver \in [Version -> VersionRow]
  BY DEF Base, TypeOK, TablesTyped
<1>2. CASE \E v \in Version, text \in Text : ChangeText(t, v, text)
  <2>1. PICK v \in Version, text \in Text : ChangeText(t, v, text)
    BY <1>2
  <2>2. ver' = [ver EXCEPT ![v] = [ver[v] EXCEPT !.text = text]] /\ ver[v].st = "DRAFT"
        /\ settings' = settings /\ ag' = ag
    BY <2>1 DEF ChangeText, MayWriteDraft
  <2>3. ver'[v].st = "DRAFT" /\ \A w \in Version \ {v} : ver'[w] = ver[w]
    BY <1>1, <2>2 DEF VersionRow, NoVersion
  <2>4. QED
    BY <2>2, <2>3 DEF RowsInForceStand, Published
<1>3. CASE CommitUpload(t) \/ CommitReplace(t) \/ CommitDelete(t)
  <2>1. /\ tx[t].v \in Version /\ ver[tx[t].v].st \in {"none", "DRAFT"}
        /\ settings' = settings /\ ag' = ag
    BY <1>3, Working DEF CommitUpload, CommitReplace, CommitDelete, MayWriteDraft, At, DraftPc, Sound
  <2>2. \A w \in Version \ {tx[t].v} : ver'[w] = ver[w]
    BY <1>1, <1>3 DEF CommitUpload, CommitReplace, CommitDelete
  <2>3. ver'[tx[t].v].st \in {"none", "DRAFT"}
    <3>1. CASE CommitUpload(t)
      BY <1>1, <2>1, <3>1 DEF CommitUpload, NoVersion
    <3>2. CASE CommitReplace(t)
      <4>1. ver' = [ver EXCEPT ![tx[t].v] = [ver[tx[t].v] EXCEPT !.file = tx[t].num]]
        BY <3>2 DEF CommitReplace
      <4>2. QED
        BY <1>1, <2>1, <4>1 DEF VersionRow, NoVersion
    <3>3. CASE CommitDelete(t)
      BY <1>1, <2>1, <3>3 DEF CommitDelete, NoVersion
    <3>4. QED
      BY <1>3, <3>1, <3>2, <3>3
  <2>4. QED
    BY <2>1, <2>2, <2>3 DEF RowsInForceStand, Published
<1>4. QED
  BY <1>2, <1>3 DEF WritesDraft

(* While one connection decides, administrators keep the policy, but for   *)
(* an edit that was decided on a stale read.                               *)
LEMMA AdministratorsWait ==
  ASSUME Base, DraftInv, NEW d \in Tx, tx[d].pc \in Deciding,
         NEW t \in Tx, Administer(t)
  PROVE  PolicyKept \/ StaleEditEnds
<1>1. ~SettingsFree
  BY DEF SettingsFree
<1>2. ver \in [Version -> VersionRow] /\ ag \in [Agreement -> AgreementRow] /\ now' = now
      /\ sig' = sig
  BY AdministratorsLeave DEF Base, TypeOK, TablesTyped
<1>3. CASE settings' = settings /\ ag' = ag /\ ver' = ver
  BY <1>2, <1>3 DEF PolicyKept, IsRequired, Published
<1>4. CASE CommitEdit(t)
  <2>1. /\ tx[t].pc = "editing" /\ tx[t].a \in Agreement /\ tx[t].was = tx[t].flag
        /\ settings' = settings /\ ver' = ver /\ tx'[t].pc = "idle"
    BY <1>1, <1>4, PcOf DEF CommitEdit, At, Base, TxSound
  <2>2. ag' = [[ag EXCEPT ![tx[t].a].req = tx[t].flag] EXCEPT ![tx[t].a].title = tx[t].title]
    BY <1>4 DEF CommitEdit
  <2>3. ag'[tx[t].a].req = tx[t].flag
    BY <1>2, <2>1, <2>2 DEF AgreementRow
  <2>4. CASE ag[tx[t].a].req = tx[t].flag
    <3>1. \A b \in Agreement : ag'[b].st = ag[b].st /\ ag'[b].req = ag[b].req
      BY <1>2, <2>1, <2>2, <2>4 DEF AgreementRow
    <3>2. QED
      BY <1>2, <2>1, <3>1 DEF PolicyKept, IsRequired, Published
  <2>5. CASE ag[tx[t].a].req # tx[t].flag
    BY <2>1, <2>3, <2>5 DEF StaleEditEnds, StaleEdit, At
  <2>6. QED
    BY <2>4, <2>5
<1>5. CASE WritesDraft(t)
  BY <1>2, <1>5, DraftsAreNotInForce DEF RowsInForceStand, PolicyKept, IsRequired, Published
<1>6. QED
  BY <1>1, <1>3, <1>4, <1>5
  DEF Administer, CreateAgreement, BeginEdit, BeginUpload, BeginReplace, BeginPublish, BeginDelete,
      BeginWithdraw, BeginSwitch, CommitPublish, CommitWithdraw, CommitSwitch, CleanUp, FailFile,
      WritesDraft, tables

(* While a transaction decides, no other step of another changes the policy. *)
LEMMA PolicyStands ==
  ASSUME Base, DraftInv, OneDecides, NEW d \in Tx, tx[d].pc \in Deciding,
         tx'[d] = tx[d], [Next]_vars
  PROVE  PolicyKept \/ StaleEditEnds
<1>1. ~SettingsFree /\ now \in Nat
  BY DEF SettingsFree, Base, TypeOK, TablesTyped
<1>2. CASE settings' = settings /\ ag' = ag /\ ver' = ver /\ sig' = sig /\ now' \in {now, now + 1}
  BY <1>2 DEF PolicyKept, IsRequired, Published
<1>3. ASSUME NEW t \in Tx, Administer(t) PROVE PolicyKept \/ StaleEditEnds
  BY <1>3, AdministratorsWait
<1>4. ASSUME NEW t \in Tx, Sign(t) \/ Crash(t) PROVE PolicyKept \/ StaleEditEnds
  <2>1. tx'[d].pc # "idle"
    BY DEF Deciding
  <2>2. t # d
    BY <1>4, <2>1, DecidersEnd
  <2>3. tx[t].pc \notin Deciding
    BY <2>2 DEF OneDecides
  <2>4. sig' = sig
    BY <1>4, <2>3
    DEF Sign, BeginAccess, BeginComplete, BeginSubmit, Evaluate, Grant, Continue, Refuse,
        AlreadySigned, Resume, Reserve, MakeReceipt, MarkReady, Review, Append, Void, Crash,
        At, Deciding, tables
  <2>5. QED
    BY <1>2, <1>4, <2>4, UsersLeave
<1>5. QED
  BY <1>1, <1>2, <1>3, <1>4 DEF Next, Revoke, Reset, Tick, vars, tables

(* A decision is right when it is taken, and stays so while the policy is  *)
(* kept.                                                                   *)
LEMMA PolicyStep ==
  ASSUME Base, DraftInv, ClaimInv, [Next]_vars, NEW d \in Tx
  PROVE  Right(d)' \/ (tx'[d] = tx[d] /\ (~Right(d) \/ StaleEditEnds))
<1>1. CASE tx'[d].pc \notin {"granting", "appending"}
  BY <1>1 DEF Right, At
<1>2. ASSUME tx'[d].pc \in {"granting", "appending"}
      PROVE  \/ tx'[d] = tx[d]
             \/ /\ UNCHANGED <<tables, now>>
                /\ tx'[d].pc = "granting" => Complete
                /\ tx'[d].pc = "appending" => tx'[d].v \in Missing
  <2>1. CASE \E t \in Tx : Administer(t) \/ Sign(t) \/ Crash(t)
    <3>1. PICK t \in Tx : Administer(t) \/ Sign(t) \/ Crash(t)
      BY <2>1
    <3>2. CASE t = d
      BY <1>2, <3>1, <3>2, DecisionsAreInformed
    <3>3. CASE t # d
      BY <3>1, <3>3, Elsewhere
    <3>4. QED
      BY <3>2, <3>3
  <2>2. CASE tx' = tx
    BY <2>2
  <2>3. QED
    BY <2>1, <2>2 DEF Next, Revoke, Reset, Tick, vars
<1>3. ASSUME PolicyKept, tx'[d].pc = "granting", Complete PROVE Right(d)'
  BY <1>3, KeptComplete DEF DraftInv, Right, At
<1>4. ASSUME PolicyKept, tx'[d].pc = "appending", tx'[d].v \in Missing PROVE Right(d)'
  <2>1. PICK v : v = tx'[d].v
    OBVIOUS
  <2>2. v \in Version
    BY <1>4, <2>1 DEF Missing, Required
  <2>3. v \in Missing'
    BY <1>4, <2>1, <2>2, KeptMissing
  <2>4. QED
    BY <1>4, <2>1, <2>3 DEF Right, At
<1>5. CASE /\ UNCHANGED <<tables, now>> /\ tx'[d].pc \in {"granting", "appending"}
           /\ tx'[d].pc = "granting" => Complete
           /\ tx'[d].pc = "appending" => tx'[d].v \in Missing
  <2>1. PolicyKept
    BY <1>5 DEF PolicyKept, IsRequired, Published, tables
  <2>2. QED
    BY <1>3, <1>4, <1>5, <2>1
<1>6. CASE tx'[d] = tx[d] /\ tx[d].pc \in {"granting", "appending"} /\ Right(d) /\ ~StaleEditEnds
  <2>1. PolicyKept
    BY <1>6, PolicyStands DEF ClaimInv, Deciding
  <2>2. /\ tx'[d].pc = "granting" => Complete
        /\ tx'[d].pc = "appending" => tx'[d].v \in Missing
    BY <1>6 DEF Right, At
  <2>3. QED
    BY <1>3, <1>4, <1>6, <2>1, <2>2
<1>7. QED
  BY <1>1, <1>2, <1>5, <1>6

(* A step that grants access or appends a signature was decided before.    *)
LEMMA EveryStepFollows ==
  ASSUME Base, ClaimInv, [Next]_vars PROVE CommitsAreDecided
<1>1. CASE codes' = codes /\ sig' = sig /\ cont' = cont
  BY <1>1 DEF CommitsAreDecided
<1>2. cont \in [Cont -> ContRow] /\ sig \in [Claim -> {"none", "valid", "revoked"}]
  BY DEF Base, TypeOK, TablesTyped
<1>3. ASSUME NEW t \in Tx, Grant(t) PROVE CommitsAreDecided
  <2>1. /\ tx[t].pc = "granting" /\ sig' = sig /\ tx'[t].pc = "idle" /\ Decided(t) /\ TxSound(t)
    BY <1>3, PcOf DEF Grant, At, ClaimInv, Base
  <2>2. tx[t].epoch = epoch /\ tx'[t] # tx[t]
    BY <2>1 DEF Decided, Deciding
  <2>3. ASSUME NEW c \in Cont, cont[c].st # cont'[c].st
        PROVE  cont[c].st = "open" /\ cont[c].epoch = epoch /\ now < cont[c].expires
    <3>1. c = tx[t].c /\ tx[t].c # None
      BY <1>2, <1>3, <2>3, SignaturesAssumption DEF Grant
    <3>2. QED
      BY <1>3, <2>1, <2>2, <3>1 DEF Grant, TxSound
  <2>4. QED
    BY <2>1, <2>2, <2>3 DEF CommitsAreDecided, At
<1>4. ASSUME NEW t \in Tx, Continue(t) \/ Refuse(t) PROVE CommitsAreDecided
  <2>1. codes' = codes /\ sig' = sig
    BY <1>4 DEF Continue, Refuse
  <2>2. CASE Continue(t)
    <3>1. \A c \in Cont : cont'[c] = cont[c] \/ cont'[c].st = "open"
      BY <1>2, <2>2 DEF Continue
    <3>2. QED
      BY <2>1, <3>1 DEF CommitsAreDecided
  <2>3. CASE Refuse(t)
    <3>1. cont' = [cont EXCEPT ![tx[t].c] = [cont[tx[t].c] EXCEPT !.attempts = @ + 1]]
      BY <2>3 DEF Refuse
    <3>2. \A c \in Cont : cont'[c].st = cont[c].st
      BY <1>2, <3>1 DEF ContRow
    <3>3. QED
      BY <2>1, <3>2 DEF CommitsAreDecided
  <2>4. QED
    BY <1>4, <2>2, <2>3
<1>5. ASSUME NEW t \in Tx, Append(t) PROVE CommitsAreDecided
  <2>1. /\ tx[t].pc = "appending" /\ codes' = codes /\ cont' = cont /\ now < cont[tx[t].c].expires
        /\ tx[t].epoch = epoch /\ tx'[t].pc = "idle"
    BY <1>5, PcOf DEF Append, At, ClaimInv, Decided, Deciding
  <2>2. /\ tx[t].c \in Cont /\ Asked(t) = <<tx[t].c, tx[t].v>> /\ Asked(t) \in Claim
        /\ cont[tx[t].c].epoch = epoch
    BY <2>1, Asking DEF SignPc
  <2>3. \A k \in Claim \ {Asked(t)} : sig'[k] = sig[k]
    BY <1>2, <1>5 DEF Append
  <2>4. QED
    BY <2>1, <2>2, <2>3 DEF CommitsAreDecided, At
<1>6. ASSUME NEW k \in Claim, Revoke(k) PROVE CommitsAreDecided
  <2>1. codes' = codes /\ cont' = cont /\ \A j \in Claim : sig'[j] = "valid" => sig[j] # "none"
    BY <1>2, <1>6 DEF Revoke
  <2>2. QED
    BY <2>1 DEF CommitsAreDecided
<1>7. CASE \E t \in Tx : Administer(t)
  BY <1>1, <1>7, AdministratorsLeave
<1>8. QED
  BY <1>1, <1>3, <1>4, <1>5, <1>6, <1>7
  DEF Next, Sign, BeginAccess, BeginComplete, BeginSubmit, Evaluate, AlreadySigned, Resume, Reserve,
      MakeReceipt, MarkReady, Review, Void, Crash, Reset, Tick, tables, vars

(* A decision to grant or to append is right and stays right until it      *)
(* commits, unless an edit decided on a stale read commits in between:     *)
(* publication, withdrawal, revocation, switch, reset and every other edit *)
(* wait for the settings row.                                              *)
THEOREM AccessIsUpToDate == Spec => AccessFollowsPolicy
<1> DEFINE IInv == Base /\ DraftInv /\ ClaimInv
           Step == /\ CommitsAreDecided
                   /\ \A t \in Tx : \/ Right(t)'
                                    \/ tx'[t] = tx[t] /\ (~Right(t) \/ StaleEditEnds)
<1>1. Init => IInv
  BY BaseInitially, DraftInitially, ClaimInitially
<1>2. IInv /\ [Next]_vars => IInv'
  BY BaseStep, DraftStep, ClaimStep
<1>3. IInv /\ [Next]_vars => [Step]_vars
  BY EveryStepFollows, PolicyStep
<1> HIDE DEF Step, IInv
<1>4. Spec => [][Step]_vars
  BY <1>1, <1>2, <1>3, PTL DEF Spec
<1>5. QED
  BY <1>4 DEF AccessFollowsPolicy, Step

----------------------------------------------------------------------------
(* Only edits of one agreement that overlap change the requirement beside  *)
(* the settings row.                                                       *)

EditorsApart ==
  \A s, t \in Tx : At(s, "editing") /\ At(t, "editing") /\ tx[s].a = tx[t].a => s = t

EditInv == \A t \in Tx : At(t, "editing") => ag[tx[t].a].st = "row" /\ ag[tx[t].a].req = tx[t].was

(* No edit is under way initially.                                         *)
LEMMA EditInitially == Init => EditInv
BY DEF Init, Idle, EditInv, At

(* A step that leaves the edits and their agreements keeps the invariant. *)
LEMMA QuietEdits ==
  ASSUME EditInv, \A s \in Tx : tx'[s] = tx[s] \/ tx'[s].pc # "editing",
         \A s \in Tx : tx'[s].pc = "editing" /\ tx'[s] = tx[s] => ag'[tx[s].a] = ag[tx[s].a]
  PROVE  EditInv'
BY DEF EditInv, At

(* While no two administrators edit one agreement, every step keeps it.    *)
LEMMA EditStep ==
  ASSUME Base, EditInv, EditorsApart, [Next]_vars PROVE EditInv'
<1>1. ag \in [Agreement -> AgreementRow] /\ DOMAIN tx = Tx
  BY DEF Base, TypeOK, TablesTyped
<1>2. CASE UNCHANGED vars
  BY <1>2, QuietEdits DEF vars, tables
<1>3. ASSUME NEW t \in Tx, Sign(t) \/ Crash(t) PROVE EditInv'
  <2>1. \A s \in Tx : tx'[s] = tx[s] \/ tx'[s].pc # "editing"
    BY <1>3, Elsewhere, UsersStayUsers DEF UserPc, SignPc
  <2>2. QED
    BY <1>3, <2>1, UsersLeave, QuietEdits
<1>4. ASSUME NEW t \in Tx, Administer(t) PROVE EditInv'
  <2>1. \A s \in Tx \ {t} : tx'[s] = tx[s]
    BY <1>4, Elsewhere
  <2>2. ASSUME NEW a \in Agreement, NEW title \in Title, NEW req \in BOOLEAN,
               CreateAgreement(t, a, title, req)
        PROVE  EditInv'
    <3>1. tx' = tx /\ ag[a].st = "none" /\ \A b \in Agreement \ {a} : ag'[b] = ag[b]
      BY <1>1, <2>2 DEF CreateAgreement
    <3>2. ASSUME NEW s \in Tx, tx[s].pc = "editing" PROVE tx[s].a \in Agreement /\ tx[s].a # a
      BY <3>1, <3>2 DEF EditInv, At, Base, TxSound
    <3>3. QED
      BY <3>1, <3>2, QuietEdits
  <2>3. ASSUME NEW a \in Agreement, NEW title \in Title, NEW req \in BOOLEAN,
               BeginEdit(t, a, title, req)
        PROVE  EditInv'
    <3>1. PICK r : r = [Idle EXCEPT !.pc = "editing", !.a = a, !.flag = req,
                                    !.was = ag[a].req, !.title = title]
      OBVIOUS
    <3>2. r.a = a /\ r.was = ag[a].req
      BY <3>1, IdleTyped DEF TxRecord
    <3>3. tx'[t] = r /\ ag' = ag /\ ag[a].st = "row"
      BY <1>1, <2>3, <3>1 DEF BeginEdit, Begin, tables
    <3>4. QED
      BY <2>1, <3>2, <3>3 DEF EditInv, At
  <2>4. CASE CommitEdit(t)
    <3>1. tx[t].pc = "editing" /\ tx'[t].pc = "idle"
      BY <2>4, PcOf DEF CommitEdit, At
    <3>2. ag' = [[ag EXCEPT ![tx[t].a].req = tx[t].flag] EXCEPT ![tx[t].a].title = tx[t].title]
      BY <2>4 DEF CommitEdit
    <3>3. \A b \in Agreement \ {tx[t].a} : ag'[b] = ag[b]
      BY <1>1, <3>2
    <3>4. ASSUME NEW s \in Tx, s # t, tx[s].pc = "editing"
          PROVE  tx[s].a \in Agreement /\ tx[s].a # tx[t].a
      BY <3>1, <3>4 DEF EditorsApart, At, Base, TxSound
    <3>5. QED
      BY <2>1, <3>1, <3>3, <3>4, QuietEdits
  <2>5. CASE \/ \E v \in Version, text \in Text :
                  ChangeText(t, v, text) \/ \E a \in Agreement : BeginUpload(t, v, a, text)
             \/ \E v \in Version :
                  \/ \E n \in File : BeginReplace(t, v, n)
                  \/ \E eff \in {now, now + 1} : BeginPublish(t, v, eff)
                  \/ BeginDelete(t, v) \/ BeginWithdraw(t, v)
             \/ \E on \in BOOLEAN : BeginSwitch(t, on)
    <3>1. ag' = ag
      BY <2>5 DEF ChangeText, BeginUpload, BeginReplace, BeginPublish, BeginDelete, BeginWithdraw,
                  BeginSwitch, tables
    <3>2. tx'[t] = tx[t] \/ tx'[t].pc # "editing"
      <4>1. CASE \E v \in Version, text \in Text : ChangeText(t, v, text)
        BY <4>1 DEF ChangeText
      <4>2. CASE \E v \in Version, text \in Text, a \in Agreement : BeginUpload(t, v, a, text)
        BY <1>1, <4>2, IdleTyped DEF BeginUpload, Begin, TxRecord
      <4>3. CASE \E v \in Version, n \in File : BeginReplace(t, v, n)
        BY <1>1, <4>3, IdleTyped DEF BeginReplace, Begin, TxRecord
      <4>4. CASE \E v \in Version : \E eff \in {now, now + 1} : BeginPublish(t, v, eff)
        BY <1>1, <4>4, IdleTyped DEF BeginPublish, Begin, TxRecord
      <4>5. CASE \E v \in Version : BeginDelete(t, v) \/ BeginWithdraw(t, v)
        <5>1. CASE \E v \in Version : BeginDelete(t, v)
          BY <1>1, <5>1, IdleTyped DEF BeginDelete, Begin, TxRecord
        <5>2. CASE \E v \in Version : BeginWithdraw(t, v)
          BY <1>1, <5>2, IdleTyped DEF BeginWithdraw, Begin, TxRecord
        <5>3. QED
          BY <4>5, <5>1, <5>2
      <4>6. CASE \E on \in BOOLEAN : BeginSwitch(t, on)
        BY <1>1, <4>6, IdleTyped DEF BeginSwitch, Begin, TxRecord
      <4>7. QED
        BY <2>5, <4>1, <4>2, <4>3, <4>4, <4>5, <4>6
    <3>3. QED
      BY <2>1, <3>1, <3>2, QuietEdits
  <2>6. CASE CommitUpload(t) \/ CommitReplace(t) \/ CommitDelete(t) \/ CommitPublish(t)
               \/ CommitWithdraw(t) \/ CommitSwitch(t) \/ CleanUp(t) \/ FailFile(t)
    <3>1. ag' = ag
      BY <2>6 DEF CommitUpload, CommitReplace, CommitDelete, CommitPublish, CommitWithdraw,
                  CommitSwitch, CleanUp, FailFile, tables
    <3>2. tx'[t].pc # "editing"
      <4>1. CASE End(t)
        BY <4>1, PcOf
      <4>2. CASE CommitReplace(t) \/ CommitDelete(t)
        <5>1. tx' = [[tx EXCEPT ![t].pc = "cleaning"] EXCEPT ![t].num = tx[t].old]
          BY <4>2 DEF CommitReplace, CommitDelete
        <5>2. tx'[t].pc = "cleaning"
          BY <5>1 DEF Base, TypeOK, TxRecord
        <5>3. QED
          BY <5>2
      <4>3. QED
        BY <2>6, <4>1, <4>2 DEF CommitUpload, CommitPublish, CommitWithdraw, CommitSwitch, CleanUp,
                                FailFile
    <3>3. QED
      BY <2>1, <3>1, <3>2, QuietEdits
  <2>7. QED
    BY <1>4, <2>2, <2>3, <2>4, <2>5, <2>6 DEF Administer
<1>5. CASE (\E k \in Claim : Revoke(k)) \/ Reset \/ Tick
  BY <1>5, QuietEdits DEF Revoke, Reset, Tick, tables
<1>6. QED
  BY <1>2, <1>3, <1>4, <1>5 DEF Next

(* No decision is under way initially.                                     *)
LEMMA RightInitially == Init => \A t \in Tx : Right(t)
BY DEF Init, Idle, Right, At

(* The policy is still what the decision found at the commit of every      *)
(* grant and every signature, as long as no two administrators edit one    *)
(* agreement at the same time: the race of updateAgreement with itself is  *)
(* the only one that gets past the settings row.                           *)
THEOREM OnlyRacesOutdateAccess == Spec /\ []EditorsApart => AccessIsCurrent
<1> DEFINE IInv == Base /\ DraftInv /\ ClaimInv /\ EditInv /\ \A t \in Tx : Right(t)
           Current == /\ codes' # codes => Complete
                      /\ \A k \in Claim : sig[k] = "none" /\ sig'[k] = "valid" => k[2] \in Missing
<1>1. Init => IInv
  BY BaseInitially, DraftInitially, ClaimInitially, EditInitially, RightInitially
<1>2. EditInv /\ [Next]_vars => ~StaleEditEnds
  BY DEF EditInv, StaleEditEnds, StaleEdit
<1>3. IInv /\ EditorsApart /\ [Next]_vars => IInv'
  <2> SUFFICES ASSUME IInv, EditorsApart, [Next]_vars PROVE IInv'
    OBVIOUS
  <2>1. Base' /\ DraftInv' /\ ClaimInv' /\ EditInv'
    BY BaseStep, DraftStep, ClaimStep, EditStep
  <2>2. ASSUME NEW t \in Tx PROVE Right(t)'
    BY <1>2, PolicyStep
  <2>3. QED
    BY <2>1, <2>2
<1>4. IInv /\ [Next]_vars => [Current]_vars
  <2> SUFFICES ASSUME IInv, [Next]_vars PROVE Current
    OBVIOUS
  <2>1. CommitsAreDecided
    BY EveryStepFollows
  <2>2. codes' # codes => Complete
    BY <2>1 DEF CommitsAreDecided, Right
  <2>3. ASSUME NEW k \in Claim, sig[k] = "none", sig'[k] = "valid" PROVE k[2] \in Missing
    <3>1. PICK t \in Tx : At(t, "appending") /\ Asked(t) = k
      BY <2>1, <2>3 DEF CommitsAreDecided
    <3>2. k[2] = tx[t].v
      BY <3>1 DEF Asked
    <3>3. QED
      BY <3>1, <3>2 DEF Right
  <2>4. QED
    BY <2>2, <2>3
<1> HIDE DEF IInv, Current
<1>5. Spec /\ []EditorsApart => [][Current]_vars
  BY <1>1, <1>3, <1>4, PTL DEF Spec
<1>6. QED
  BY <1>5 DEF AccessIsCurrent, Current

----------------------------------------------------------------------------
(* When the set of what is required changes.                               *)

(* The agreement of a version is there, and of one that is uploaded.       *)
Founded ==
  /\ \A v \in Version : ver[v].st # "none" => ag[ver[v].ag].st = "row"
  /\ \A t \in Tx : tx[t].pc = "uploading" => ag[tx[t].a].st = "row"

(* The agreement of a first version is there.                              *)
LEMMA FoundedInitially == Init => Founded
<1> SUFFICES ASSUME Init PROVE Founded
  OBVIOUS
<1>1. \A t \in Tx : tx[t].pc = "idle"
  BY DEF Init, Idle
<1>2. CASE Empty
  BY <1>1, <1>2 DEF Empty, NoVersion, Founded
<1>3. ASSUME NEW a \in Agreement, NEW v \in Version, NEW title \in Title, NEW text \in Text,
             NEW drafts \in SUBSET (Version \ {v}), OneRequired(a, v, drafts, title, text)
      PROVE  Founded
  BY <1>1, <1>3 DEF OneRequired, NoVersion, Founded
<1>4. QED
  BY <1>2, <1>3 DEF Init

(* No agreement goes away.                                                 *)
LEMMA AgreementsStay ==
  ASSUME Base, [Next]_vars
  PROVE  \A a \in Agreement : ag[a].st = "row" => ag'[a].st = "row"
<1>1. ag \in [Agreement -> AgreementRow]
  BY DEF Base, TypeOK, TablesTyped
<1>2. CASE ag' = ag
  BY <1>2
<1>3. ASSUME NEW t \in Tx, NEW a \in Agreement, NEW title \in Title, NEW req \in BOOLEAN,
             CreateAgreement(t, a, title, req)
      PROVE  \A b \in Agreement : ag[b].st = "row" => ag'[b].st = "row"
  BY <1>1, <1>3 DEF CreateAgreement
<1>4. ASSUME NEW t \in Tx, CommitEdit(t)
      PROVE  \A a \in Agreement : ag[a].st = "row" => ag'[a].st = "row"
  <2>1. ag' = [[ag EXCEPT ![tx[t].a].req = tx[t].flag] EXCEPT ![tx[t].a].title = tx[t].title]
    BY <1>4 DEF CommitEdit
  <2>2. QED
    BY <1>1, <2>1 DEF AgreementRow
<1>5. ASSUME NEW t \in Tx, Administer(t)
      PROVE  \A a \in Agreement : ag[a].st = "row" => ag'[a].st = "row"
  BY <1>2, <1>3, <1>4, <1>5
  DEF Administer, BeginEdit, ChangeText, BeginUpload, BeginReplace, BeginPublish, BeginDelete,
      BeginWithdraw, BeginSwitch, CommitUpload, CommitReplace, CommitDelete, CommitPublish,
      CommitWithdraw, CommitSwitch, CleanUp, FailFile, tables
<1>6. ASSUME NEW t \in Tx, Sign(t) \/ Crash(t) PROVE ag' = ag
  BY <1>6, UsersLeave
<1>7. QED
  BY <1>2, <1>5, <1>6 DEF Next, Revoke, Reset, Tick, vars, tables

(* A version is of the agreement it was uploaded for.                      *)
LEMMA VersionsStay ==
  ASSUME Base, [Next]_vars, NEW v \in Version, ver'[v].st # "none"
  PROVE  \/ ver[v].st # "none" /\ ver'[v].ag = ver[v].ag
         \/ \E t \in Tx : tx[t].pc = "uploading" /\ ver'[v].ag = tx[t].a
<1>1. /\ ver \in [Version -> VersionRow] /\ ver[v] \in VersionRow
      /\ \A row \in VersionRow :
           row.st \in {"none", "DRAFT", "PUBLISHED", "SUPERSEDED", "WITHDRAWN"}
  BY DEF Base, TypeOK, TablesTyped, VersionRow, NoVersion
<1>2. CASE ver' = ver
  BY <1>2
<1>3. ASSUME NEW t \in Tx, NEW w \in Version, NEW text \in Text, ChangeText(t, w, text)
      PROVE  ver[v].st # "none" /\ ver'[v].ag = ver[v].ag
  <2>1. /\ ver' = [ver EXCEPT ![w] = [ver[w] EXCEPT !.text = text]] /\ ver[w].st = "DRAFT"
    BY <1>3 DEF ChangeText, MayWriteDraft
  <2>2. QED
    BY <1>1, <2>1 DEF VersionRow, NoVersion
<1>4. ASSUME NEW t \in Tx, CommitUpload(t)
      PROVE  \/ ver[v].st # "none" /\ ver'[v].ag = ver[v].ag
             \/ tx[t].pc = "uploading" /\ ver'[v].ag = tx[t].a
  <2>1. CASE v = tx[t].v
    BY <1>1, <1>4, <2>1 DEF CommitUpload, At, NoVersion
  <2>2. CASE v # tx[t].v
    BY <1>1, <1>4, <2>2 DEF CommitUpload
  <2>3. QED
    BY <2>1, <2>2
<1>5. ASSUME NEW t \in Tx, CommitReplace(t)
      PROVE  ver[v].st # "none" /\ ver'[v].ag = ver[v].ag
  <2>1. /\ ver' = [ver EXCEPT ![tx[t].v] = [ver[tx[t].v] EXCEPT !.file = tx[t].num]]
        /\ ver[tx[t].v].st = "DRAFT"
    BY <1>5 DEF CommitReplace, MayWriteDraft
  <2>2. QED
    BY <1>1, <2>1 DEF VersionRow, NoVersion
<1>6. ASSUME NEW t \in Tx, CommitDelete(t)
      PROVE  ver[v].st # "none" /\ ver'[v].ag = ver[v].ag
  BY <1>1, <1>6 DEF CommitDelete, NoVersion
<1>7. ASSUME NEW t \in Tx, CommitPublish(t) \/ CommitWithdraw(t)
      PROVE  ver[v].st # "none" /\ ver'[v].ag = ver[v].ag
  <2>1. \/ ver'[v] = ver[v]
        \/ /\ ver[v].st # "none"
           /\ \/ ver'[v] = [ver[v] EXCEPT !.st = "PUBLISHED", !.eff = tx[t].num]
              \/ ver'[v] = [ver[v] EXCEPT !.st = "SUPERSEDED"]
              \/ ver'[v] = [ver[v] EXCEPT !.st = "WITHDRAWN"]
    <3>1. CASE CommitPublish(t)
      <4>1. /\ ver[tx[t].v].st = "DRAFT"
            /\ ver' = [w \in Version |->
                 IF w = tx[t].v THEN [ver[w] EXCEPT !.st = "PUBLISHED", !.eff = tx[t].num]
                 ELSE IF ver[w].ag = tx[t].a /\ Published(w) THEN [ver[w] EXCEPT !.st = "SUPERSEDED"]
                 ELSE ver[w]]
        BY <3>1 DEF CommitPublish, MayWriteDraft
      <4>2. QED
        BY <4>1 DEF Published
    <3>2. CASE CommitWithdraw(t)
      <4>1. /\ ver[tx[t].v].st = "PUBLISHED"
            /\ ver' = [ver EXCEPT ![tx[t].v] = [ver[tx[t].v] EXCEPT !.st = "WITHDRAWN"]]
        BY <3>2 DEF CommitWithdraw, MayWithdraw
      <4>2. QED
        BY <1>1, <4>1
    <3>3. QED
      BY <1>7, <3>1, <3>2
  <2>2. QED
    BY <1>1, <2>1 DEF VersionRow, NoVersion
<1>8. ASSUME NEW t \in Tx, Administer(t)
      PROVE  \/ ver[v].st # "none" /\ ver'[v].ag = ver[v].ag
             \/ tx[t].pc = "uploading" /\ ver'[v].ag = tx[t].a
  BY <1>2, <1>3, <1>4, <1>5, <1>6, <1>7, <1>8
  DEF Administer, CreateAgreement, BeginEdit, BeginUpload, BeginReplace, BeginPublish, BeginDelete,
      BeginWithdraw, BeginSwitch, CommitEdit, CommitSwitch, CleanUp, FailFile, tables
<1>9. ASSUME NEW t \in Tx, Sign(t) \/ Crash(t) PROVE ver' = ver
  BY <1>9, UsersLeave
<1>10. QED
  BY <1>2, <1>8, <1>9 DEF Next, Revoke, Reset, Tick, vars, tables

(* How a connection comes to upload, to publish and to withdraw.           *)
LEMMA WorkBegins ==
  ASSUME Base, NEW t \in Tx, Administer(t) \/ Sign(t) \/ Crash(t)
  PROVE  /\ tx'[t].pc = "uploading" =>
              \E v \in Version, a \in Agreement, text \in Text : BeginUpload(t, v, a, text)
         /\ tx'[t].pc = "publishing" =>
              \E v \in Version : \E eff \in {now, now + 1} : BeginPublish(t, v, eff)
         /\ tx'[t].pc = "withdrawing" => \E v \in Version : BeginWithdraw(t, v)
<1>1. DOMAIN tx = Tx /\ Idle.pc = "idle"
  BY DEF Base, TypeOK, Idle
<1>2. End(t) => tx'[t].pc = "idle"
  BY PcOf
<1>3. \A a \in Agreement, title \in Title, req \in BOOLEAN :
         BeginEdit(t, a, title, req) => tx'[t].pc = "editing"
  BY <1>1, IdleTyped DEF BeginEdit, Begin, TxRecord
<1>4. \A v \in Version, n \in File : BeginReplace(t, v, n) => tx'[t].pc = "replacing"
  BY <1>1, IdleTyped DEF BeginReplace, Begin, TxRecord
<1>5. \A v \in Version : BeginDelete(t, v) => tx'[t].pc = "deleting"
  BY <1>1, IdleTyped DEF BeginDelete, Begin, TxRecord
<1>6. \A on \in BOOLEAN : BeginSwitch(t, on) => tx'[t].pc = "switching"
  BY <1>1, IdleTyped DEF BeginSwitch, Begin, TxRecord
<1>7. \A v \in Version, a \in Agreement, text \in Text :
         BeginUpload(t, v, a, text) => tx'[t].pc = "uploading"
  BY <1>1, IdleTyped DEF BeginUpload, Begin, TxRecord
<1>8. \A v \in Version, eff \in {now, now + 1} : BeginPublish(t, v, eff) => tx'[t].pc = "publishing"
  BY <1>1, IdleTyped DEF BeginPublish, Begin, TxRecord
<1>9. \A v \in Version : BeginWithdraw(t, v) => tx'[t].pc = "withdrawing"
  BY <1>1, IdleTyped DEF BeginWithdraw, Begin, TxRecord
<1>10. CommitReplace(t) \/ CommitDelete(t) => tx'[t].pc = "cleaning"
  <2>1. CommitReplace(t) \/ CommitDelete(t)
          => tx' = [[tx EXCEPT ![t].pc = "cleaning"] EXCEPT ![t].num = tx[t].old]
    BY DEF CommitReplace, CommitDelete
  <2>2. QED
    BY <2>1 DEF Base, TypeOK, TxRecord
<1>11. \/ \E a \in Agreement, title \in Title, req \in BOOLEAN : CreateAgreement(t, a, title, req)
       \/ \E v \in Version, text \in Text : ChangeText(t, v, text)
       => tx'[t].pc = "idle"
  BY <1>1 DEF CreateAgreement, ChangeText
<1>12. CASE Sign(t) \/ Crash(t)
  BY <1>12, UsersStayUsers DEF UserPc, SignPc
<1>13. CASE Administer(t)
  BY <1>2, <1>3, <1>4, <1>5, <1>6, <1>7, <1>8, <1>9, <1>10, <1>11, <1>13
  DEF Administer, CommitEdit, CommitUpload, CommitPublish, CommitWithdraw, CommitSwitch, CleanUp,
      FailFile
<1>14. QED
  BY <1>12, <1>13

(* Uploads find their agreement, and agreements stay.                      *)
LEMMA FoundedStep == ASSUME Base, Founded, [Next]_vars PROVE Founded'
<1>1. \A t \in Tx : tx[t].pc = "uploading" => tx[t].a \in Agreement
  BY DEF Base, TxSound
<1>2. ASSUME NEW v \in Version, ver'[v].st # "none" PROVE ag'[ver'[v].ag].st = "row"
  <2>1. PICK a : a = ver'[v].ag
    OBVIOUS
  <2>2. a \in Agreement /\ ag[a].st = "row"
    BY <1>1, <1>2, <2>1, VersionsStay, RowsTyped DEF Founded
  <2>3. QED
    BY <2>1, <2>2, AgreementsStay
<1>3. ASSUME NEW t \in Tx, tx'[t].pc = "uploading"
      PROVE  tx'[t] = tx[t] \/ (tx'[t].a \in Agreement /\ ag[tx'[t].a].st = "row")
  <2>1. CASE tx' = tx
    BY <2>1
  <2>2. ASSUME NEW s \in Tx, Administer(s) \/ Sign(s) \/ Crash(s), s # t PROVE tx'[t] = tx[t]
    BY <2>2, Elsewhere
  <2>3. CASE Sign(t) \/ Crash(t)
    BY <1>3, <2>3, UsersStayUsers DEF UserPc, SignPc
  <2>4. ASSUME NEW v \in Version, NEW a \in Agreement, NEW text \in Text, BeginUpload(t, v, a, text)
        PROVE  tx'[t].a \in Agreement /\ ag[tx'[t].a].st = "row"
    <3>1. tx'[t].a = a
      BY <2>4, IdleTyped DEF BeginUpload, Begin, TxRecord, Base, TypeOK
    <3>2. QED
      BY <2>4, <3>1 DEF BeginUpload
  <2>5. CASE Administer(t)
    BY <1>3, <2>4, <2>5, WorkBegins
  <2>6. QED
    BY <2>1, <2>2, <2>3, <2>5 DEF Next, Revoke, Reset, Tick, vars
<1>4. ASSUME NEW t \in Tx, tx'[t].pc = "uploading" PROVE ag'[tx'[t].a].st = "row"
  BY <1>1, <1>3, <1>4, AgreementsStay DEF Founded
<1>5. QED
  BY <1>2, <1>4 DEF Founded

Counted == settings'.rev = settings.rev /\ now' = now => Required' = Required

(* No step changes what is required behind the revision's back.            *)
LEMMA EveryChangeCounts ==
  ASSUME Base, DraftInv, EditInv, Founded, [Next]_vars PROVE Counted
<1>1. /\ ver \in [Version -> VersionRow] /\ ag \in [Agreement -> AgreementRow]
      /\ settings.rev \in Nat
  BY DEF Base, TypeOK, TablesTyped
<1>2. ASSUME now' = now, \A v \in Version : Published(v)' <=> Published(v),
             \A v \in Version : Published(v) => ver'[v] = ver[v] /\ ag[ver[v].ag].st = "row",
             \A a \in Agreement : ag[a].st = "row" => (IsRequired(a)' <=> IsRequired(a))
      PROVE  Required' = Required
  <2>1. ASSUME NEW v \in Version PROVE v \in Required' <=> v \in Required
    <3>1. CASE Published(v)
      <4>1. PICK a \in Agreement : a = ver[v].ag
        BY <3>1, RowsTyped DEF Published
      <4>2. ver'[v] = ver[v] /\ (IsRequired(a)' <=> IsRequired(a)) /\ Published(v)'
        BY <1>2, <3>1, <4>1
      <4>3. IsRequired(ver[v].ag)' <=> IsRequired(a)'
        BY <4>1, <4>2 DEF IsRequired
      <4>4. QED
        BY <1>2, <3>1, <4>1, <4>2, <4>3 DEF Required, InForce
    <3>2. CASE ~Published(v)
      BY <1>2, <3>2 DEF Required, InForce
    <3>3. QED
      BY <3>1, <3>2
  <2>2. QED
    BY <2>1 DEF Required
<1>3. \A v \in Version : Published(v) => ag[ver[v].ag].st = "row" /\ ver[v].ag \in Agreement
  BY RowsTyped DEF Founded, Published
<1>4. CASE ag' = ag /\ ver' = ver
  BY <1>4 DEF Counted, Required, InForce, Published, IsRequired
<1>5. ASSUME NEW t \in Tx, WritesDraft(t) PROVE Counted
  <2>1. RowsInForceStand
    BY <1>5, DraftsAreNotInForce
  <2>2. QED
    BY <1>2, <1>3, <2>1 DEF RowsInForceStand, Counted, IsRequired
<1>6. ASSUME NEW t \in Tx, NEW a \in Agreement, NEW title \in Title, NEW req \in BOOLEAN,
             CreateAgreement(t, a, title, req)
      PROVE  Counted
  <2>1. ag[a].st = "none" /\ ver' = ver /\ \A b \in Agreement \ {a} : ag'[b] = ag[b]
    BY <1>1, <1>6 DEF CreateAgreement
  <2>2. \A b \in Agreement : ag[b].st = "row" => (IsRequired(b)' <=> IsRequired(b))
    BY <2>1 DEF IsRequired
  <2>3. QED
    BY <1>2, <1>3, <2>1, <2>2 DEF Counted, Published
<1>7. ASSUME NEW t \in Tx, CommitEdit(t) PROVE Counted
  <2>1. /\ tx[t].pc = "editing" /\ ag[tx[t].a].req = tx[t].was /\ ver' = ver
        /\ ag' = [[ag EXCEPT ![tx[t].a].req = tx[t].flag] EXCEPT ![tx[t].a].title = tx[t].title]
    BY <1>7 DEF CommitEdit, At, EditInv
  <2>2. CASE tx[t].was = tx[t].flag
    <3>1. \A b \in Agreement : ag'[b].st = ag[b].st /\ ag'[b].req = ag[b].req
      BY <1>1, <2>1, <2>2 DEF AgreementRow
    <3>2. QED
      BY <1>2, <1>3, <2>1, <3>1 DEF Counted, Published, IsRequired
  <2>3. CASE tx[t].was # tx[t].flag
    <3>1. settings'.rev = settings.rev + 1
      BY <1>7, <2>3 DEF CommitEdit, NextRevision, Base, TypeOK, TablesTyped
    <3>2. QED
      BY <1>1, <3>1 DEF Counted
  <2>4. QED
    BY <2>2, <2>3
<1>8. ASSUME NEW t \in Tx, CommitPublish(t) \/ CommitWithdraw(t) \/ CommitSwitch(t) PROVE Counted
  <2>1. settings'.rev = settings.rev + 1
    <3>1. NextRevision => settings'.rev = settings.rev + 1
      BY DEF NextRevision, Base, TypeOK, TablesTyped
    <3>2. CommitSwitch(t) => settings'.rev = settings.rev + 1
      BY DEF CommitSwitch
    <3>3. CommitPublish(t) \/ CommitWithdraw(t) => NextRevision
      BY DEF CommitPublish, CommitWithdraw
    <3>4. QED
      BY <1>8, <3>1, <3>2, <3>3
  <2>2. QED
    BY <1>1, <2>1 DEF Counted
<1>9. ASSUME NEW t \in Tx, Administer(t) PROVE Counted
  BY <1>4, <1>5, <1>6, <1>7, <1>8, <1>9
  DEF Administer, BeginEdit, BeginUpload, BeginReplace, BeginPublish, BeginDelete, BeginWithdraw,
      BeginSwitch, CleanUp, FailFile, WritesDraft, tables
<1>10. ASSUME NEW t \in Tx, Sign(t) \/ Crash(t) PROVE Counted
  BY <1>4, <1>10, UsersLeave
<1>11. QED
  BY <1>4, <1>9, <1>10 DEF Next, Revoke, Reset, Tick, vars, tables

(* The set of what is required changes only with the revision, or as       *)
(* time passes, as long as no two administrators edit one agreement at the *)
(* same time (updateAgreement): no other step changes the requirements     *)
(* behind the back of a claim reserved under the same revision.            *)
THEOREM OnlyRacesHideChanges == Spec /\ []EditorsApart => RevisionsCountChanges
<1> DEFINE IInv == Base /\ DraftInv /\ EditInv /\ Founded
<1>1. Init => IInv
  BY BaseInitially, DraftInitially, EditInitially, FoundedInitially
<1>2. IInv /\ EditorsApart /\ [Next]_vars => IInv'
  BY BaseStep, DraftStep, EditStep, FoundedStep
<1>3. IInv /\ [Next]_vars => [Counted]_vars
  BY EveryChangeCounts
<1> HIDE DEF IInv
<1>4. Spec /\ []EditorsApart => [][Counted]_vars
  BY <1>1, <1>2, <1>3, PTL DEF Spec
<1>5. QED
  BY <1>4 DEF RevisionsCountChanges, Counted

----------------------------------------------------------------------------
(* What withdrawing and publishing read of the settings is still so when   *)
(* they commit, unless the requirement changes in between: of the domain,  *)
(* or of an agreement.                                                     *)

Demanded(a) == settings.enabled /\ ag[a].req

(* While one connection withdraws or publishes, no other is about to       *)
(* change what is required.                                                *)
PolicyApart ==
  \A s, t \in Tx :
    s # t /\ tx[t].pc \in {"withdrawing", "publishing"} => tx[s].pc \notin {"editing", "switching"}

Informed ==
  \A t \in Tx :
    LET x == tx[t] IN
    /\ x.pc = "withdrawing" => /\ ver[x.v].st \in Settled
                               /\ Published(x.v) => ~Demanded(ver[x.v].ag)
    /\ x.pc = "publishing" => ag[x.a].st = "row" /\ (x.num <= now \/ ~Demanded(x.a))

(* Only an edit and a switch change what is demanded of the agreements     *)
(* that exist.                                                             *)
LEMMA DemandStands ==
  ASSUME Base, [Next]_vars, NEW a \in Agreement, ag[a].st = "row",
         \A s \in Tx : tx[s].pc \notin {"editing", "switching"}
  PROVE  Demanded(a)' <=> Demanded(a)
<1>1. ag \in [Agreement -> AgreementRow]
  BY DEF Base, TypeOK, TablesTyped
<1>2. ASSUME settings'.enabled = settings.enabled, ag'[a] = ag[a] PROVE Demanded(a)' <=> Demanded(a)
  BY <1>2 DEF Demanded
<1>3. ASSUME NEW t \in Tx, NEW b \in Agreement, NEW title \in Title, NEW req \in BOOLEAN,
             CreateAgreement(t, b, title, req)
      PROVE  Demanded(a)' <=> Demanded(a)
  <2>1. b # a /\ settings' = settings /\ ag'[a] = ag[a]
    BY <1>1, <1>3 DEF CreateAgreement
  <2>2. QED
    BY <1>2, <2>1
<1>4. ASSUME NEW t \in Tx PROVE ~CommitEdit(t) /\ ~CommitSwitch(t)
  BY DEF CommitEdit, CommitSwitch, At
<1>5. NextRevision => settings'.enabled = settings.enabled
  BY DEF NextRevision, Base, TypeOK, TablesTyped
<1>6. ASSUME NEW t \in Tx, Administer(t) PROVE Demanded(a)' <=> Demanded(a)
  BY <1>2, <1>3, <1>4, <1>5, <1>6
  DEF Administer, BeginEdit, ChangeText, BeginUpload, BeginReplace, BeginPublish, BeginDelete,
      BeginWithdraw, BeginSwitch, CommitUpload, CommitReplace, CommitDelete, CommitPublish,
      CommitWithdraw, CleanUp, FailFile, tables
<1>7. QED
  BY <1>2, <1>6, UsersLeave DEF Next, Revoke, Reset, Tick, vars, tables

(* The clock does not go back.                                             *)
LEMMA ClockGoesOn == ASSUME Base, [Next]_vars PROVE now' \in {now, now + 1}
<1>1. ASSUME NEW t \in Tx, Administer(t) \/ Sign(t) \/ Crash(t) PROVE now' = now
  BY <1>1, AdministratorsLeave, UsersLeave
<1>2. QED
  BY <1>1 DEF Next, Revoke, Reset, Tick, vars

(* A request under way keeps what it was told, while no requirement is     *)
(* about to change.                                                        *)
LEMMA InformedStands ==
  ASSUME Base, DraftInv, Founded, PolicyApart, Informed, [Next]_vars,
         NEW t \in Tx, tx[t].pc \in {"withdrawing", "publishing"}, tx'[t] = tx[t]
  PROVE  LET x == tx[t] IN
         /\ x.pc = "withdrawing" => /\ ver'[x.v].st \in Settled
                                    /\ Published(x.v)' => ~Demanded(ver[x.v].ag)'
                                    /\ ver'[x.v].ag = ver[x.v].ag
         /\ x.pc = "publishing" => ag'[x.a].st = "row" /\ (x.num <= now' \/ ~Demanded(x.a)')
<1> DEFINE x == tx[t]
<1>1. \A s \in Tx : tx[s].pc \notin {"editing", "switching"}
  BY DEF PolicyApart
<1>2. SettledRowsStand
  <2>1. CASE ver' = ver
    BY <2>1 DEF SettledRowsStand
  <2>2. QED
    BY <2>1, SettledStep, UsersLeave DEF Next, Revoke, Reset, Tick, vars, tables
<1>3. CASE x.pc = "withdrawing"
  <2>1. x.v \in Version /\ ver[x.v].st \in Settled /\ (Published(x.v) => ~Demanded(ver[x.v].ag))
    BY <1>3 DEF Informed, Base, TxSound, DraftPc
  <2>2. /\ ver'[x.v].st \in Settled /\ ver'[x.v].ag = ver[x.v].ag
        /\ Published(x.v)' => Published(x.v)
    BY <1>2, <2>1 DEF SettledRowsStand, Published
  <2>3. PICK a : a = ver[x.v].ag
    OBVIOUS
  <2>4. a \in Agreement /\ ag[a].st = "row"
    BY <2>1, <2>3, RowsTyped DEF Founded, Settled
  <2>5. Demanded(a)' <=> Demanded(a)
    BY <1>1, <2>4, DemandStands
  <2>6. (Demanded(ver[x.v].ag) <=> Demanded(a)) /\ (Demanded(ver[x.v].ag)' <=> Demanded(a)')
    BY <2>2, <2>3 DEF Demanded
  <2>7. QED
    BY <1>3, <2>1, <2>2, <2>5, <2>6
<1>4. CASE x.pc = "publishing"
  <2>1. x.a \in Agreement /\ ag[x.a].st = "row" /\ (x.num <= now \/ ~Demanded(x.a))
    BY <1>4 DEF Informed, Base, TxSound
  <2>2. ag'[x.a].st = "row"
    BY <2>1, AgreementsStay
  <2>3. PICK a \in Agreement : a = x.a
    BY <2>1
  <2>4. Demanded(a)' <=> Demanded(a)
    BY <1>1, <2>1, <2>3, DemandStands
  <2>5. x.num \in Nat /\ now \in Nat
    BY <1>4, Working DEF DraftPc, Base, TypeOK, TablesTyped
  <2>6. x.num <= now => x.num <= now'
    BY <2>5, ClockGoesOn
  <2>7. QED
    BY <1>4, <2>1, <2>2, <2>3, <2>4, <2>6 DEF Demanded
<1>5. QED
  BY <1>3, <1>4

(* What is required changes between no check and its commit.               *)
LEMMA InformedStep ==
  ASSUME Base, DraftInv, Founded, PolicyApart, Informed, [Next]_vars PROVE Informed'
<1>1. now \in Nat /\ DOMAIN tx = Tx
  BY DEF Base, TypeOK, TablesTyped
<1>2. ASSUME NEW t \in Tx, tx'[t] = tx[t]
      PROVE  /\ tx'[t].pc = "withdrawing" => /\ ver'[tx'[t].v].st \in Settled
                                             /\ Published(tx[t].v)' => ~Demanded(ver[tx[t].v].ag)'
             /\ tx'[t].pc = "publishing" => /\ ag'[tx'[t].a].st = "row"
                                            /\ tx'[t].num <= now' \/ ~Demanded(tx[t].a)'
  BY <1>2, InformedStands
<1>3. ASSUME NEW t \in Tx, Administer(t) \/ Sign(t) \/ Crash(t)
      PROVE  /\ tx'[t].pc = "withdrawing" =>
                  /\ ver'[tx'[t].v].st \in Settled
                  /\ ~(settings'.enabled /\ ag'[ver'[tx'[t].v].ag].req)
             /\ tx'[t].pc = "publishing" =>
                  /\ ag'[tx'[t].a].st = "row"
                  /\ tx'[t].num <= now' \/ ~(settings'.enabled /\ ag'[tx'[t].a].req)
  <2>1. ASSUME NEW v \in Version, BeginWithdraw(t, v)
        PROVE  /\ tx'[t].v = v /\ ver[v].st = "PUBLISHED"
               /\ ~(settings.enabled /\ ag[ver[v].ag].req) /\ UNCHANGED <<settings, ag, ver>>
    BY <1>1, <2>1, IdleTyped DEF BeginWithdraw, Begin, TxRecord, tables, Published
  <2>2. ASSUME NEW v \in Version, NEW eff \in {now, now + 1}, BeginPublish(t, v, eff)
        PROVE  /\ tx'[t].a = ver[v].ag /\ tx'[t].num = eff /\ ver[v].st = "DRAFT"
               /\ eff <= now \/ ~(settings.enabled /\ ag[ver[v].ag].req)
               /\ UNCHANGED <<settings, ag, now>>
    <3>1. eff <= now \/ ~(settings.enabled /\ ag[ver[v].ag].req)
      BY <1>1, <2>2 DEF BeginPublish
    <3>2. tx'[t].a = ver[v].ag /\ tx'[t].num = eff
      BY <1>1, <2>2, IdleTyped DEF BeginPublish, Begin, TxRecord
    <3>3. QED
      BY <2>2, <3>1, <3>2 DEF BeginPublish, tables
  <2>3. tx'[t].pc = "withdrawing" =>
          ver'[tx'[t].v].st \in Settled /\ ~(settings'.enabled /\ ag'[ver'[tx'[t].v].ag].req)
    BY <1>3, <2>1, WorkBegins DEF Settled
  <2>4. tx'[t].pc = "publishing" =>
          /\ ag'[tx'[t].a].st = "row"
          /\ tx'[t].num <= now' \/ ~(settings'.enabled /\ ag'[tx'[t].a].req)
    BY <1>3, <2>2, WorkBegins DEF Founded
  <2>5. QED
    BY <2>3, <2>4
<1>4. ASSUME NEW t \in Tx
      PROVE  \/ tx'[t] = tx[t]
             \/ Administer(t) \/ Sign(t) \/ Crash(t)
  BY Elsewhere DEF Next, Revoke, Reset, Tick, vars
<1>5. ASSUME NEW t \in Tx
      PROVE  /\ tx'[t].pc = "withdrawing" =>
                  /\ ver'[tx'[t].v].st \in Settled
                  /\ Published(tx[t].v)' /\ tx'[t] = tx[t] => ~Demanded(ver[tx[t].v].ag)'
                  /\ tx'[t] # tx[t] => ~(settings'.enabled /\ ag'[ver'[tx'[t].v].ag].req)
             /\ tx'[t].pc = "publishing" =>
                  /\ ag'[tx'[t].a].st = "row"
                  /\ tx'[t].num <= now' \/ ~(settings'.enabled /\ ag'[tx'[t].a].req)
  BY <1>2, <1>3, <1>4 DEF Demanded
<1>6. QED
  BY <1>5 DEF Informed, Demanded, Published

Stays ==
  settings.enabled /\ settings'.enabled =>
    \A a \in Agreement : IsRequired(a) /\ IsRequired(a)' /\ Covered(a) => Covered(a)'

(* Who takes a version out of force has checked that nobody needs it.      *)
LEMMA CoveredStays ==
  ASSUME Base, DraftInv, Informed, [Next]_vars PROVE Stays
<1>1. ver \in [Version -> VersionRow] /\ now \in Nat /\ now' \in {now, now + 1}
  BY ClockGoesOn DEF Base, TypeOK, TablesTyped
<1>2. ASSUME NEW v \in Version, InForce(v), Published(v)', ver'[v].ag = ver[v].ag,
             ver'[v].eff = ver[v].eff
      PROVE  InForce(v)'
  <2>1. ver[v].eff \in Nat
    BY <1>1, <1>2 DEF InForce, Published, VersionRow, NoVersion
  <2>2. QED
    BY <1>1, <1>2, <2>1 DEF InForce
<1>3. ASSUME \A v \in Version : Published(v) => Published(v)' /\ ver'[v] = ver[v]
      PROVE  Stays
  BY <1>2, <1>3 DEF Stays, Covered, InForce
<1>4. CASE ver' = ver
  BY <1>3, <1>4 DEF Published
<1>5. ASSUME NEW t \in Tx, WritesDraft(t) PROVE Stays
  BY <1>3, <1>5, DraftsAreNotInForce DEF RowsInForceStand
<1>6. ASSUME NEW t \in Tx, CommitWithdraw(t) PROVE Stays
  <2> DEFINE x == tx[t]
  <2>1. /\ x.pc = "withdrawing" /\ Published(x.v)
        /\ ver' = [ver EXCEPT ![x.v] = [ver[x.v] EXCEPT !.st = "WITHDRAWN"]]
    BY <1>6 DEF CommitWithdraw, At, MayWithdraw, Published
  <2>2. ~Demanded(ver[x.v].ag)
    BY <2>1 DEF Informed
  <2>3. ASSUME NEW a \in Agreement, settings.enabled, IsRequired(a), Covered(a) PROVE Covered(a)'
    <3>1. PICK w \in Version : InForce(w) /\ ver[w].ag = a
      BY <2>3 DEF Covered
    <3>2. w # x.v
      BY <2>2, <2>3, <3>1 DEF Demanded, IsRequired
    <3>3. ver'[w] = ver[w]
      BY <1>1, <2>1, <3>2
    <3>4. QED
      BY <1>2, <3>1, <3>3 DEF Covered, InForce, Published
  <2>4. QED
    BY <2>3 DEF Stays
<1>7. ASSUME NEW t \in Tx, CommitPublish(t) PROVE Stays
  <2> DEFINE x == tx[t]
  <2>1. /\ x.pc = "publishing" /\ ver[x.v].st = "DRAFT"
        /\ ver' = [v \in Version |->
                    IF v = x.v THEN [ver[v] EXCEPT !.st = "PUBLISHED", !.eff = x.num]
                    ELSE IF ver[v].ag = x.a /\ Published(v) THEN [ver[v] EXCEPT !.st = "SUPERSEDED"]
                    ELSE ver[v]]
    BY <1>7 DEF CommitPublish, At, MayWriteDraft
  <2>2. x.v \in Version /\ ver[x.v].ag = x.a
    BY <2>1, Working DEF Sound, DraftPc
  <2>3. ver'[x.v].st = "PUBLISHED" /\ ver'[x.v].eff = x.num /\ ver'[x.v].ag = x.a
    <3>1. ver'[x.v] = [ver[x.v] EXCEPT !.st = "PUBLISHED", !.eff = x.num]
      BY <2>1, <2>2
    <3>2. PICK row \in VersionRow : row = ver[x.v]
      BY <1>1, <2>2
    <3>3. row.st = "DRAFT" /\ row.ag = x.a
      BY <2>1, <2>2, <3>2
    <3>4. row \in [st : {"DRAFT", "PUBLISHED", "SUPERSEDED", "WITHDRAWN"},
                  ag : Agreement, text : Text, file : File, eff : Nat]
      BY <3>3 DEF VersionRow, NoVersion
    <3>5. QED
      BY <3>1, <3>2, <3>3, <3>4
  <2>4. now' = now /\ (x.num <= now \/ ~Demanded(x.a))
    BY <1>7, <2>1 DEF CommitPublish, Informed
  <2>5. ASSUME NEW a \in Agreement, settings.enabled, IsRequired(a), Covered(a) PROVE Covered(a)'
    <3>1. PICK w \in Version : InForce(w) /\ ver[w].ag = a
      BY <2>5 DEF Covered
    <3>2. CASE a = x.a
      <4>1. x.num <= now
        BY <2>4, <2>5, <3>2 DEF Demanded, IsRequired
      <4>2. QED
        BY <2>2, <2>3, <2>4, <3>2, <4>1 DEF Covered, InForce, Published
    <3>3. CASE a # x.a
      <4>1. ver'[w] = ver[w]
        BY <2>1, <2>2, <3>1, <3>3
      <4>2. QED
        BY <1>2, <3>1, <4>1 DEF Covered, InForce, Published
    <3>4. QED
      BY <3>2, <3>3
  <2>6. QED
    BY <2>5 DEF Stays
<1>8. ASSUME NEW t \in Tx, Administer(t) PROVE Stays
  BY <1>4, <1>5, <1>6, <1>7, <1>8
  DEF Administer, CreateAgreement, BeginEdit, BeginUpload, BeginReplace, BeginPublish, BeginDelete,
      BeginWithdraw, BeginSwitch, CommitEdit, CommitSwitch, CleanUp, FailFile, WritesDraft, tables
<1>9. ASSUME NEW t \in Tx, Sign(t) \/ Crash(t) PROVE Stays
  BY <1>4, <1>9, UsersLeave
<1>10. QED
  BY <1>4, <1>8, <1>9 DEF Next, Revoke, Reset, Tick, vars, tables

(* While the domain requires signatures, no step takes the version in      *)
(* force from an agreement that stays required, in every behaviour in      *)
(* which no requirement is about to change while another connection        *)
(* withdraws or publishes: reading the settings without their lock         *)
(* (signature-agreement-publication.service.ts:138) is the only cause of   *)
(* the disagreement.                                                       *)
THEOREM OnlyRacesUncoverRequirements == Spec /\ []PolicyApart => RequirementsStay
<1> DEFINE IInv == Base /\ DraftInv /\ Founded /\ Informed
<1>1. Init => Informed
  BY DEF Init, Informed, Idle
<1>2. Init => IInv
  BY <1>1, BaseInitially, DraftInitially, FoundedInitially
<1>3. IInv /\ PolicyApart /\ [Next]_vars => IInv'
  BY BaseStep, DraftStep, FoundedStep, InformedStep
<1>4. IInv /\ [Next]_vars => [Stays]_vars
  BY CoveredStays
<1>5. Spec /\ []PolicyApart => [][Stays]_vars
  BY <1>2, <1>3, <1>4, PTL DEF Spec
<1>6. QED
  BY <1>5 DEF RequirementsStay, Stays

=============================================================================
