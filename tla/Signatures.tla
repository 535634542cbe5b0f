----------------------------- MODULE Signatures -----------------------------
(***************************************************************************)
(* The agreements of ONE domain, which ONE user has to sign before the     *)
(* domain issues an authorization code or refreshes a session.             *)
(*                                                                         *)
(* Administrators draft, publish and withdraw versions and switch the      *)
(* requirement on.  The user signs through continuations, each of which    *)
(* ends in one code: a submission is accepted in one transaction, its      *)
(* receipt is made outside of any, and a last transaction checks again     *)
(* what the first one saw.  The row of the settings is the lock between    *)
(* the two sides; files live in an object store, outside of transactions.  *)
(***************************************************************************)
EXTENDS Integers, FiniteSets

CONSTANTS
  Agreement, Version, Cont,   \* ids: what is ever created
  None,
  Title,          \* the titles an agreement may have
  Text,           \* the texts a version may have: its statement, method and title
  Tx,             \* connections
  Lifetime,       \* of a continuation
  MaxTime,        \* bound: the clock
  MaxAttempts,    \* SIGNATURE_MAX_SIGN_ATTEMPTS
  MaxEpoch,       \* bound: credential changes
  MaxCodes,       \* bound: codes issued
  MaxRevision,    \* bound: changes of the policy
  MaxFiles,       \* bound: replacements of the file of one version
  Scopes          \* bounds: the operations a behaviour is about

Operation == {"agreement", "edit", "rename", "upload", "text", "replace", "delete", "publish",
              "later", "withdraw", "settings", "gate", "refresh", "sign", "complete", "revoke",
              "reset", "clock"}
File  == 0..MaxFiles
Claim == Cont \X Version

ASSUME SignaturesAssumption ==
  /\ None \notin Agreement \cup Version \cup Cont
  /\ Lifetime \in Nat \ {0} /\ MaxAttempts \in Nat \ {0}
  /\ MaxTime \in Nat /\ MaxEpoch \in Nat /\ MaxCodes \in Nat /\ MaxRevision \in Nat
  /\ MaxFiles \in Nat
  /\ Scopes \subseteq [ops : SUBSET Operation, start : {"empty", "required", "drafted"}]

VARIABLES
  scope,      \* the operations this behaviour is about, and where it starts
  settings,   \* domain_signature_settings
  ag,         \* agreements
  ver,        \* agreement_versions
  cont,       \* signing_continuations
  claim,      \* signature_claim_intents, one per continuation and version
  sig,        \* agreement_signatures and signature_revocations, by claim
  epoch,      \* users.tokenVersion
  files,      \* the object store: source files, by version and name
  receipts,   \* the object store: receipts, by claim
  codes,      \* history: how many codes and refreshed sessions were granted
  now,
  tx          \* what each connection is doing

tables == <<settings, ag, ver, cont, claim, sig, epoch>>
store  == <<files, receipts>>
vars   == <<scope, tables, store, codes, now, tx>>

NoAgreement == [st |-> "none", req |-> FALSE, title |-> None]
NoVersion   == [st |-> "none", ag |-> None, text |-> None, file |-> 0, eff |-> 0]
NoCont      == [st |-> "none", epoch |-> 0, expires |-> 0, attempts |-> 0]
NoClaim     == [st |-> "none", rev |-> 0, title |-> None, text |-> None, file |-> 0,
                prior |-> {}]
Idle == [pc |-> "idle", c |-> None, v |-> None, a |-> None, epoch |-> 0, flag |-> FALSE,
         was |-> FALSE, title |-> None, num |-> 0, old |-> 0]

----------------------------------------------------------------------------
(* What the domain requires, and what the user still has to sign.          *)

Published(v)  == ver[v].st = "PUBLISHED"
InForce(v)    == Published(v) /\ ver[v].eff <= now
IsRequired(a) == ag[a].st = "row" /\ ag[a].req
Covered(a)    == \E v \in Version : InForce(v) /\ ver[v].ag = a
Required      == {v \in Version : InForce(v) /\ IsRequired(ver[v].ag)}
Signed(v)     == \E c \in Cont : sig[<<c, v>>] = "valid"

(* evaluateSignaturePolicy: it throws when an enabled domain requires      *)
(* nothing, or an agreement no version of which is in force.               *)
PolicyValid == \/ ~settings.enabled
               \/ /\ \E a \in Agreement : IsRequired(a)
                  /\ \A a \in Agreement : IsRequired(a) => Covered(a)
Missing  == IF settings.enabled THEN {v \in Required : ~Signed(v)} ELSE {}
Complete == PolicyValid /\ Missing = {}

(* The signatures of the user on a version, and which of them are revoked. *)
AllStates(v)      == {<<c, sig[<<c, v>>]>> : c \in Cont}
SignatureState(v) == {<<c, sig[<<c, v>>]>> : c \in {d \in Cont : sig[<<d, v>>] # "none"}}

----------------------------------------------------------------------------
(* Locks.  A decision holds the user's lock and the settings row until it  *)
(* ends; an administrator's transaction the settings row from its last     *)
(* update, and an agreement's row from the statement that touches it.      *)

Deciding == {"granting", "continuing", "appending", "voiding"}
NoSettingsLock   == TRUE
SettingsFree     == \A t \in Tx : tx[t].pc \notin Deciding
AgreementFree(a) == \A t \in Tx : ~(tx[t].a = a /\ tx[t].pc \in {"uploading", "publishing"})
ClaimFree(k)     == \A t \in Tx : ~(tx[t].pc \in {"appending", "voiding"}
                                    /\ <<tx[t].c, tx[t].v>> = k)

Begin(t, op, new) == op \in scope.ops /\ tx[t] = Idle /\ tx' = [tx EXCEPT ![t] = new]
At(t, pc)    == tx[t].pc = pc
Goto(t, pc)  == tx' = [tx EXCEPT ![t].pc = pc]
End(t)       == tx' = [tx EXCEPT ![t] = Idle]
Changed      == settings.rev < MaxRevision
NextRevision == settings' = [settings EXCEPT !.rev = @ + 1]

(* A domain starts without agreements, or as one that requires a           *)
(* published version of one: some administrator created, uploaded,         *)
(* published and switched on, and may have uploaded another draft.         *)
Empty ==
  /\ settings = [enabled |-> FALSE, rev |-> 0]
  /\ ag = [a \in Agreement |-> NoAgreement]
  /\ ver = [v \in Version |-> NoVersion]
  /\ files = [f \in Version \X File |-> "never"]
OneRequired(a, v, drafts, title, text) ==
  /\ settings = [enabled |-> TRUE, rev |-> 2]
  /\ ag = [b \in Agreement |->
             IF b = a THEN [st |-> "row", req |-> TRUE, title |-> title] ELSE NoAgreement]
  /\ ver = [w \in Version |->
              IF w \in drafts \cup {v}
              THEN [st |-> IF w = v THEN "PUBLISHED" ELSE "DRAFT", ag |-> a, text |-> text,
                    file |-> 0, eff |-> 0]
              ELSE NoVersion]
  /\ files = [f \in Version \X File |->
                IF f[1] \in drafts \cup {v} /\ f[2] = 0 THEN "stored" ELSE "never"]

Init ==
  /\ scope \in Scopes
  /\ \/ scope.start = "empty" /\ Empty
     \/ /\ scope.start # "empty"
        /\ \E a \in Agreement, v \in Version, title \in Title, text \in Text :
             \E drafts \in SUBSET (Version \ {v}) :
               /\ scope.start = "drafted" <=> drafts # {}
               /\ OneRequired(a, v, drafts, title, text)
  /\ cont = [c \in Cont |-> NoCont]
  /\ claim = [k \in Claim |-> NoClaim]
  /\ sig = [k \in Claim |-> "none"]
  /\ epoch = 0 /\ codes = 0 /\ now = 0
  /\ receipts = {}
  /\ tx = [t \in Tx |-> Idle]

----------------------------------------------------------------------------
(* Agreements and their versions.                                          *)

(* Inserting a row that refers to the settings row waits for its lock.     *)
CreateAgreement(t, a, title, req) ==
  /\ "agreement" \in scope.ops /\ tx[t] = Idle /\ SettingsFree
  /\ ag[a].st = "none"
  /\ ag' = [ag EXCEPT ![a] = [st |-> "row", req |-> req, title |-> title]]
  /\ UNCHANGED <<scope, settings, ver, cont, claim, sig, epoch, store, codes, now, tx>>

(* The agreement, the settings and the counts are read without a lock.     *)
BeginEdit(t, a, title, req) ==
  /\ ag[a].st = "row"
  /\ title # ag[a].title => "rename" \in scope.ops
  /\ settings.enabled /\ req /\ ~ag[a].req => Covered(a)
  /\ settings.enabled /\ ~req /\ ag[a].req
       => \E b \in Agreement \ {a} : IsRequired(b) /\ Covered(b)
  /\ Begin(t, "edit", [Idle EXCEPT !.pc = "editing", !.a = a, !.flag = req,
                                   !.was = ag[a].req, !.title = title])
  /\ UNCHANGED <<scope, tables, store, codes, now>>

CommitEdit(t) ==
  LET x == tx[t] IN
  /\ At(t, "editing") /\ AgreementFree(x.a)
  /\ ag' = [ag EXCEPT ![x.a].req = x.flag, ![x.a].title = x.title]
  /\ IF x.was = x.flag THEN UNCHANGED settings ELSE SettingsFree /\ Changed /\ NextRevision
  /\ End(t)
  /\ UNCHANGED <<scope, ver, cont, claim, sig, epoch, store, codes, now>>

(* Files are stored inside the transaction, under a name used only once,   *)
(* before the row that refers to them is written.                          *)
Stored(v, n) == files[<<v, n>>] = "stored"
Fresh(v, n)  == files[<<v, n>>] = "never" /\ \A m \in File : m < n => files[<<v, m>>] # "never"
Store(v, n)  == files' = [files EXCEPT ![<<v, n>>] = "stored"]
Delete(v, n) == files' = [files EXCEPT ![<<v, n>>] = IF @ = "stored" THEN "deleted" ELSE @]

(* What the immutability trigger lets an update or a delete do to a row.   *)
NoTrigger(v)     == ver[v].st # "none"
MayWriteDraft(v) == ver[v].st = "DRAFT"
MayWithdraw(v)   == ver[v].st = "PUBLISHED"

BeginUpload(t, v, a, text) ==
  /\ ag[a].st = "row" /\ AgreementFree(a)
  /\ ver[v].st = "none" /\ Fresh(v, 0)
  /\ Begin(t, "upload", [Idle EXCEPT !.pc = "uploading", !.v = v, !.a = a, !.title = text])
  /\ Store(v, 0)
  /\ UNCHANGED <<scope, tables, receipts, codes, now>>

CommitUpload(t) ==
  /\ At(t, "uploading")
  /\ ver' = [ver EXCEPT ![tx[t].v] = [NoVersion EXCEPT !.st = "DRAFT", !.ag = tx[t].a,
                                                       !.text = tx[t].title]]
  /\ End(t)
  /\ UNCHANGED <<scope, settings, ag, cont, claim, sig, epoch, store, codes, now>>

ChangeText(t, v, text) ==
  /\ "text" \in scope.ops /\ tx[t] = Idle
  /\ MayWriteDraft(v)
  /\ ver' = [ver EXCEPT ![v].text = text]
  /\ UNCHANGED <<scope, settings, ag, cont, claim, sig, epoch, store, codes, now, tx>>

BeginReplace(t, v, n) ==
  /\ ver[v].st = "DRAFT" /\ Fresh(v, n)
  /\ Begin(t, "replace", [Idle EXCEPT !.pc = "replacing", !.v = v, !.num = n,
                                      !.old = ver[v].file])
  /\ Store(v, n)
  /\ UNCHANGED <<scope, tables, receipts, codes, now>>

(* The old file is deleted after the commit, by the name read before it.   *)
CommitReplace(t) ==
  LET x == tx[t] IN
  /\ At(t, "replacing") /\ MayWriteDraft(x.v)
  /\ ver' = [ver EXCEPT ![x.v].file = x.num]
  /\ tx' = [tx EXCEPT ![t].pc = "cleaning", ![t].num = x.old]
  /\ UNCHANGED <<scope, settings, ag, cont, claim, sig, epoch, store, codes, now>>

BeginDelete(t, v) ==
  /\ ver[v].st = "DRAFT"
  /\ Begin(t, "delete", [Idle EXCEPT !.pc = "deleting", !.v = v, !.old = ver[v].file])
  /\ UNCHANGED <<scope, tables, store, codes, now>>

CommitDelete(t) ==
  LET x == tx[t] IN
  /\ At(t, "deleting") /\ MayWriteDraft(x.v)
  /\ ver' = [ver EXCEPT ![x.v] = NoVersion]
  /\ tx' = [tx EXCEPT ![t].pc = "cleaning", ![t].num = x.old]
  /\ UNCHANGED <<scope, settings, ag, cont, claim, sig, epoch, store, codes, now>>

CleanUp(t) ==
  /\ At(t, "cleaning")
  /\ Delete(tx[t].v, tx[t].num) /\ End(t)
  /\ UNCHANGED <<scope, tables, receipts, codes, now>>

(* An upload or replacement that fails deletes what it stored.  It is told *)
(* of a failure also when the commit succeeded and its answer was lost.    *)
FailFile(t) ==
  /\ tx[t].pc \in {"uploading", "replacing"}
  /\ Delete(tx[t].v, tx[t].num) /\ End(t)
  /\ UNCHANGED <<scope, tables, receipts, codes, now>>

LoseCommit(t) ==
  LET x == tx[t] IN
  /\ At(t, "replacing") /\ MayWriteDraft(x.v)
  /\ ver' = [ver EXCEPT ![x.v].file = x.num]
  /\ Delete(x.v, x.num) /\ End(t)
  /\ UNCHANGED <<scope, settings, ag, cont, claim, sig, epoch, receipts, codes, now>>

(* Publication reads the draft and the settings once it has the row of the *)
(* agreement, and the settings row only with its last update.              *)
BeginPublish(t, v, eff) ==
  LET a == ver[v].ag IN
  /\ ver[v].st = "DRAFT" /\ AgreementFree(a)
  /\ eff > now => "later" \in scope.ops
  /\ ~(settings.enabled /\ ag[a].req /\ eff > now)
  /\ Begin(t, "publish", [Idle EXCEPT !.pc = "publishing", !.v = v, !.a = a, !.num = eff])
  /\ UNCHANGED <<scope, tables, store, codes, now>>

CommitPublish(t) ==
  LET x == tx[t] IN
  /\ At(t, "publishing") /\ SettingsFree /\ Changed
  /\ MayWriteDraft(x.v)
  /\ ver' = [v \in Version |->
               IF v = x.v THEN [ver[v] EXCEPT !.st = "PUBLISHED", !.eff = x.num]
               ELSE IF ver[v].ag = x.a /\ Published(v) THEN [ver[v] EXCEPT !.st = "SUPERSEDED"]
               ELSE ver[v]]
  /\ NextRevision /\ End(t)
  /\ UNCHANGED <<scope, ag, cont, claim, sig, epoch, store, codes, now>>

BeginWithdraw(t, v) ==
  /\ Published(v)
  /\ ~(settings.enabled /\ ag[ver[v].ag].req)
  /\ Begin(t, "withdraw", [Idle EXCEPT !.pc = "withdrawing", !.v = v])
  /\ UNCHANGED <<scope, tables, store, codes, now>>

CommitWithdraw(t) ==
  /\ At(t, "withdrawing") /\ SettingsFree /\ Changed
  /\ MayWithdraw(tx[t].v)
  /\ ver' = [ver EXCEPT ![tx[t].v].st = "WITHDRAWN"]
  /\ NextRevision /\ End(t)
  /\ UNCHANGED <<scope, ag, cont, claim, sig, epoch, store, codes, now>>

(* The requirement is switched on when one agreement can be signed; a      *)
(* change of the retention alone counts as a change of the policy too.     *)
BeginSwitch(t, on) ==
  /\ on => \E a \in Agreement : IsRequired(a) /\ Covered(a)
  /\ Begin(t, "settings", [Idle EXCEPT !.pc = "switching", !.flag = on])
  /\ UNCHANGED <<scope, tables, store, codes, now>>

CommitSwitch(t) ==
  /\ At(t, "switching") /\ SettingsFree /\ Changed
  /\ settings' = [enabled |-> tx[t].flag, rev |-> settings.rev + 1]
  /\ End(t)
  /\ UNCHANGED <<scope, ag, ver, cont, claim, sig, epoch, store, codes, now>>

Revoke(k) ==
  /\ "revoke" \in scope.ops /\ SettingsFree
  /\ sig[k] = "valid"
  /\ sig' = [sig EXCEPT ![k] = "revoked"]
  /\ UNCHANGED <<scope, settings, ag, ver, cont, claim, epoch, store, codes, now, tx>>

----------------------------------------------------------------------------
(* The user: logins, refreshes, and continuations.                         *)

Active(c) == cont[c].st = "open" /\ now < cont[c].expires /\ cont[c].attempts < MaxAttempts

(* A login was authenticated, or a session refreshed, under this epoch.    *)
BeginAccess(t, op) ==
  /\ codes < MaxCodes
  /\ Begin(t, op, [Idle EXCEPT !.pc = op, !.epoch = epoch])
  /\ UNCHANGED <<scope, tables, store, codes, now>>

BeginComplete(t, c) ==
  /\ codes < MaxCodes /\ Active(c)
  /\ Begin(t, "complete", [Idle EXCEPT !.pc = "complete", !.c = c, !.epoch = cont[c].epoch])
  /\ UNCHANGED <<scope, tables, store, codes, now>>

(* lockAuthorizationOriginForDecision, and the continuation's row.         *)
Locked(t) == SettingsFree /\ tx[t].epoch = epoch /\ (tx[t].c # None => Active(tx[t].c))

Evaluate(t) ==
  /\ tx[t].pc \in {"gate", "refresh", "complete"} /\ Locked(t) /\ PolicyValid
  /\ \/ Complete /\ Goto(t, "granting")
     \/ ~Complete /\ At(t, "gate") /\ Goto(t, "continuing")
     \/ ~Complete /\ ~At(t, "gate") /\ End(t)
  /\ UNCHANGED <<scope, tables, store, codes, now>>

(* A code, or the successor of a refresh token.                            *)
Grant(t) ==
  LET c == tx[t].c IN
  /\ At(t, "granting")
  /\ IF c = None THEN UNCHANGED cont
     ELSE /\ cont[c].st = "open" /\ now < cont[c].expires
          /\ cont' = [cont EXCEPT ![c].st = "consumed"]
  /\ codes' = codes + 1
  /\ End(t)
  /\ UNCHANGED <<scope, settings, ag, ver, claim, sig, epoch, store, now>>

Continue(t) ==
  /\ At(t, "continuing")
  /\ \E c \in Cont :
       /\ cont[c].st = "none"
       /\ cont' = [cont EXCEPT ![c] = [st |-> "open", epoch |-> tx[t].epoch,
                                       expires |-> now + Lifetime, attempts |-> 0]]
  /\ End(t)
  /\ UNCHANGED <<scope, settings, ag, ver, claim, sig, epoch, store, codes, now>>

----------------------------------------------------------------------------
(* Signing: reserve a claim, make its receipt, finalize it.                *)

(* flag: the submission accepts, in the form the version asks for, and     *)
(* says what an earlier one for the same claim said.                       *)
BeginSubmit(t, c, v, ok) ==
  /\ Active(c)
  /\ Begin(t, "sign", [Idle EXCEPT !.pc = "submit", !.c = c, !.v = v, !.flag = ok,
                                   !.epoch = cont[c].epoch])
  /\ UNCHANGED <<scope, tables, store, codes, now>>

Reserving(t) == At(t, "submit") /\ Locked(t)
Asked(t)     == <<tx[t].c, tx[t].v>>

(* The rejection is counted, since the transaction returns it.             *)
Refuse(t) ==
  LET k == Asked(t) IN
  /\ Reserving(t) /\ sig[k] # "valid"
  /\ \/ sig[k] = "revoked" \/ claim[k].st = "INVALIDATED" \/ ~tx[t].flag
     \/ claim[k].st = "none" /\ tx[t].v \notin Missing
  /\ claim[k].st = "none" => PolicyValid
  /\ cont' = [cont EXCEPT ![tx[t].c].attempts = @ + 1]
  /\ End(t)
  /\ UNCHANGED <<scope, settings, ag, ver, claim, sig, epoch, store, codes, now>>

AlreadySigned(t) ==
  /\ Reserving(t) /\ sig[Asked(t)] = "valid"
  /\ End(t)
  /\ UNCHANGED <<scope, tables, store, codes, now>>

Resume(t) ==
  LET k == Asked(t) IN
  /\ Reserving(t) /\ sig[k] = "none" /\ tx[t].flag
  /\ \/ claim[k].st = "CLAIMED" /\ Goto(t, "evidence")
     \/ claim[k].st = "EVIDENCE_READY" /\ Goto(t, "final")
  /\ UNCHANGED <<scope, tables, store, codes, now>>

Reserve(t) ==
  LET k == Asked(t)  v == tx[t].v IN
  /\ Reserving(t) /\ sig[k] = "none" /\ claim[k].st = "none"
  /\ PolicyValid /\ v \in Missing /\ tx[t].flag
  /\ claim' = [claim EXCEPT ![k] =
       [st |-> "CLAIMED", rev |-> settings.rev, title |-> ag[ver[v].ag].title,
        text |-> ver[v].text, file |-> ver[v].file, prior |-> SignatureState(v)]]
  /\ Goto(t, "evidence")
  /\ UNCHANGED <<scope, settings, ag, ver, cont, sig, epoch, store, codes, now>>

(* Outside of any transaction.  The receipt is a function of the claim, so *)
(* that a retry stores the same bytes or finds them.                       *)
MakeReceipt(t) ==
  LET k == Asked(t) IN
  /\ At(t, "evidence") /\ Stored(tx[t].v, claim[k].file)
  /\ receipts' = receipts \cup {k}
  /\ Goto(t, "mark")
  /\ UNCHANGED <<scope, tables, files, codes, now>>

MarkReady(t) ==
  LET k == Asked(t) IN
  /\ At(t, "mark") /\ ClaimFree(k)
  /\ claim[k].st # "INVALIDATED"
  /\ claim' = [claim EXCEPT ![k].st = IF @ = "CLAIMED" THEN "EVIDENCE_READY" ELSE @]
  /\ Goto(t, "final")
  /\ UNCHANGED <<scope, settings, ag, ver, cont, sig, epoch, store, codes, now>>

(* What finalization compares with what was reserved.                      *)
StillMissing(k) == k[2] \in Missing /\ settings.rev = claim[k].rev
StillAsReserved(k) ==
  LET v == k[2] IN
  /\ v \in Missing
  /\ settings.rev = claim[k].rev
  /\ ver[v].file = claim[k].file
  /\ ag[ver[v].ag].title = claim[k].title
  /\ SignatureState(v) = claim[k].prior

Review(t) ==
  LET k == Asked(t) IN
  /\ At(t, "final") /\ Locked(t)
  /\ \/ claim[k].st # "EVIDENCE_READY" /\ End(t)
     \/ /\ claim[k].st = "EVIDENCE_READY" /\ PolicyValid
        /\ Goto(t, IF StillAsReserved(k) THEN "appending" ELSE "voiding")
  /\ UNCHANGED <<scope, tables, store, codes, now>>

Append(t) ==
  LET k == Asked(t) IN
  /\ At(t, "appending") /\ now < cont[tx[t].c].expires
  /\ sig' = [sig EXCEPT ![k] = "valid"]
  /\ claim' = [claim EXCEPT ![k].st = "COMPLETED"]
  /\ End(t)
  /\ UNCHANGED <<scope, settings, ag, ver, cont, epoch, store, codes, now>>

Void(t) ==
  /\ \/ At(t, "voiding")
     \/ At(t, "appending") /\ now >= cont[tx[t].c].expires
  /\ claim' = [claim EXCEPT ![Asked(t)].st = "INVALIDATED"]
  /\ End(t)
  /\ UNCHANGED <<scope, settings, ag, ver, cont, sig, epoch, store, codes, now>>

----------------------------------------------------------------------------
(* Surroundings.                                                           *)

(* A change of a credential, under the user's lock.                        *)
Reset ==
  /\ "reset" \in scope.ops /\ SettingsFree /\ epoch < MaxEpoch
  /\ epoch' = epoch + 1
  /\ UNCHANGED <<scope, settings, ag, ver, cont, claim, sig, store, codes, now, tx>>

Tick ==
  /\ "clock" \in scope.ops /\ now < MaxTime /\ now' = now + 1
  /\ UNCHANGED <<scope, tables, store, codes, tx>>

(* An error, or a crash of the process: the open transaction is undone,    *)
(* what is in the object store stays.                                      *)
Crash(t) ==
  /\ tx[t] # Idle /\ End(t)
  /\ UNCHANGED <<scope, tables, store, codes, now>>

Administer(t) ==
  \/ \E a \in Agreement, title \in Title, req \in BOOLEAN :
       CreateAgreement(t, a, title, req) \/ BeginEdit(t, a, title, req)
  \/ \E v \in Version, text \in Text :
       ChangeText(t, v, text) \/ \E a \in Agreement : BeginUpload(t, v, a, text)
  \/ \E v \in Version :
       \/ \E n \in File : BeginReplace(t, v, n)
       \/ \E eff \in {now, now + 1} : BeginPublish(t, v, eff)
       \/ BeginDelete(t, v) \/ BeginWithdraw(t, v)
  \/ \E on \in BOOLEAN : BeginSwitch(t, on)
  \/ CommitEdit(t) \/ CommitUpload(t) \/ CommitReplace(t) \/ CommitDelete(t)
  \/ CommitPublish(t) \/ CommitWithdraw(t) \/ CommitSwitch(t)
  \/ CleanUp(t) \/ FailFile(t)

Sign(t) ==
  \/ \E op \in {"gate", "refresh"} : BeginAccess(t, op)
  \/ \E c \in Cont :
       BeginComplete(t, c) \/ \E v \in Version, ok \in BOOLEAN : BeginSubmit(t, c, v, ok)
  \/ Evaluate(t) \/ Grant(t) \/ Continue(t)
  \/ Refuse(t) \/ AlreadySigned(t) \/ Resume(t) \/ Reserve(t)
  \/ MakeReceipt(t) \/ MarkReady(t) \/ Review(t) \/ Append(t) \/ Void(t)

Next ==
  \/ \E t \in Tx : Administer(t) \/ Sign(t) \/ Crash(t)
  \/ \E k \in Claim : Revoke(k)
  \/ Reset \/ Tick

Spec == Init /\ [][Next]_vars

(* With a connection that may be lost between a commit and its answer.     *)
LossySpec == Init /\ [][Next \/ \E t \in Tx : LoseCommit(t)]_vars

----------------------------------------------------------------------------
(* Properties.                                                             *)

Pc == {"idle", "editing", "uploading", "replacing", "deleting", "cleaning", "publishing",
       "withdrawing", "switching", "gate", "refresh", "complete", "granting", "continuing",
       "submit", "evidence", "mark", "final", "appending", "voiding"}

AgreementRow == [st : {"none", "row"}, req : BOOLEAN, title : Title \cup {None}]
VersionRow   == {NoVersion} \cup
                [st : {"DRAFT", "PUBLISHED", "SUPERSEDED", "WITHDRAWN"},
                 ag : Agreement, text : Text, file : File, eff : Nat]
ContRow      == [st : {"none", "open", "consumed"}, epoch : Nat, expires : Nat, attempts : Nat]
ClaimRow     == [st : {"none", "CLAIMED", "EVIDENCE_READY", "COMPLETED", "INVALIDATED"},
                 rev : Nat, title : Title \cup {None}, text : Text \cup {None}, file : File,
                 prior : SUBSET (Cont \X {"valid", "revoked"})]
TxRecord     == [pc : Pc, c : Cont \cup {None}, v : Version \cup {None},
                 a : Agreement \cup {None}, epoch : Nat, flag : BOOLEAN, was : BOOLEAN,
                 title : Title \cup Text \cup {None}, num : Nat, old : File]

TablesTyped ==
  /\ scope \in Scopes
  /\ settings \in [enabled : BOOLEAN, rev : Nat]
  /\ ag \in [Agreement -> AgreementRow]
  /\ ver \in [Version -> VersionRow]
  /\ cont \in [Cont -> ContRow]
  /\ DOMAIN claim = Claim /\ \A k \in Claim : claim[k] \in ClaimRow
  /\ sig \in [Claim -> {"none", "valid", "revoked"}]
  /\ files \in [Version \X File -> {"never", "stored", "deleted"}]
  /\ receipts \subseteq Claim
  /\ epoch \in Nat /\ codes \in Nat /\ now \in Nat

(* Every table, file and connection holds a value of its type.             *)
TypeOK == TablesTyped /\ tx \in [Tx -> TxRecord]

(* A signature can be verified against its version for good: the version   *)
(* was published and still says what was signed, the claim is completed,   *)
(* the receipt is stored.  Drafts are edited, replaced and deleted while   *)
(* they are published, and published while somebody signs.                 *)
SignaturesAreFaithful ==
  \A k \in Claim :
    /\ claim[k].st = "COMPLETED" <=> sig[k] # "none"
    /\ sig[k] # "none" =>
         /\ ver[k[2]].st \in {"PUBLISHED", "SUPERSEDED", "WITHDRAWN"}
         /\ ver[k[2]].text = claim[k].text /\ ver[k[2]].file = claim[k].file
         /\ k \in receipts

(* The file a version refers to is there, whatever replacements, deletes   *)
(* and failures overlap: without it nothing can be shown, signed, verified. *)
SourcesAreKept ==
  \A v \in Version : ver[v].st # "none" => Stored(v, ver[v].file)

(* What was signed stays available and stays what was signed.              *)
EvidenceStands == SignaturesAreFaithful /\ SourcesAreKept

(* Two signatures of one version are never two submissions of the same     *)
(* moment: the later one was accepted after the earlier one was revoked.   *)
(* So at most one is valid, and a revocation is never undone by a claim    *)
(* that was already on its way.                                            *)
SignaturesFollowRevocations ==
  \A v \in Version : \A c, d \in Cont :
    c # d /\ sig[<<c, v>>] # "none" /\ sig[<<d, v>>] # "none" =>
      <<d, "revoked">> \in claim[<<c, v>>].prior \/ <<c, "revoked">> \in claim[<<d, v>>].prior

(* A decision to grant or to append that has not committed yet is right: a *)
(* grant finds everything required signed, an append its version required  *)
(* and missing.                                                            *)
Right(t) == /\ At(t, "granting") => Complete
            /\ At(t, "appending") => tx[t].v \in Missing

(* An edit that means to leave the requirement of its agreement alone, and *)
(* was overtaken by one that changed it: it changes the requirement back   *)
(* without the settings row, the lock of the decisions.                    *)
StaleEdit(t)   == At(t, "editing") /\ tx[t].was = tx[t].flag /\ ag[tx[t].a].req # tx[t].flag
StaleEditEnds  == \E t \in Tx : StaleEdit(t) /\ tx'[t] # tx[t] /\ ag' # ag

(* Who grants, and who signs, and on what: under the credentials the login *)
(* proved, through a continuation that is open.                            *)
CommitsAreDecided ==
  /\ codes' # codes =>
       \E t \in Tx : At(t, "granting") /\ tx'[t] # tx[t] /\ tx[t].epoch = epoch
  /\ \A c \in Cont : cont[c].st # cont'[c].st /\ cont'[c].st = "consumed"
       => cont[c].st = "open" /\ cont[c].epoch = epoch /\ now < cont[c].expires
  /\ \A k \in Claim : sig[k] = "none" /\ sig'[k] = "valid"
       => /\ \E t \in Tx : At(t, "appending") /\ tx'[t] # tx[t] /\ Asked(t) = k
          /\ cont[k[1]].epoch = epoch /\ now < cont[k[1]].expires

(* Access is granted only by a decision that found everything required     *)
(* signed, under the credentials the login proved, once per continuation;  *)
(* a signature is appended only by one that found it required and missing. *)
(* A decision is right when it is taken and stays right until it commits:  *)
(* no publication, withdrawal, revocation, switch, reset or edit comes     *)
(* between the two, except an edit decided on a stale read                 *)
(* (updateAgreement), since it alone does not wait for the settings row.   *)
AccessFollowsPolicy ==
  [][ /\ CommitsAreDecided
      /\ \A t \in Tx : \/ Right(t)'
                       \/ tx'[t] = tx[t] /\ (~Right(t) \/ StaleEditEnds) ]_vars

----------------------------------------------------------------------------
(* What does not hold.                                                     *)

(* signature-policy-lock.service.ts:3, "Serialize signature-policy         *)
(* mutation with every authorization/session decision": the policy a       *)
(* decision found is the policy it commits under.  The second of two       *)
(* editors of an agreement changes the requirement back without that lock. *)
AccessIsCurrent ==
  [][ /\ codes' # codes => Complete
      /\ \A k \in Claim : sig[k] = "none" /\ sig'[k] = "valid" => k[2] \in Missing ]_vars

(* verifyPublicSignatureReference compares the title in the evidence with  *)
(* the agreement's title, which an administrator may change.               *)
ReceiptsVerify ==
  \A k \in Claim : sig[k] # "none" => ag[ver[k[2]].ag].title = claim[k].title

(* While the domain requires signatures, no step takes the version in      *)
(* force away from an agreement that stays required.                       *)
RequirementsStay ==
  [][ settings.enabled /\ settings'.enabled =>
        \A a \in Agreement : IsRequired(a) /\ IsRequired(a)' /\ Covered(a) => Covered(a)' ]_vars

(* The policy of an enabled domain can be evaluated: nobody is locked out  *)
(* of it by an agreement that nothing is published for.                    *)
PolicyCanBeMet == PolicyValid

(* The set of what is required changes only with the revision.             *)
RevisionsCountChanges ==
  [][ settings'.rev = settings.rev /\ now' = now => Required' = Required ]_vars
=============================================================================
