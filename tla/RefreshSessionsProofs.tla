----------------------- MODULE RefreshSessionsProofs -----------------------
(***************************************************************************)
(* Proofs about RefreshSessions, for every value of its constants.         *)
(*                                                                         *)
(* The tables change in nine ways only (the "shapes" below).  First, each  *)
(* shape preserves what SessionInvariant says of the tables; then, each    *)
(* action has one of the shapes and preserves what the invariant says of   *)
(* the transactions; the theorems follow.                                  *)
(***************************************************************************)
EXTENDS RefreshSessions, FiniteSetTheorems, WellFoundedInduction, TLAPS

----------------------------------------------------------------------------
(* The part of SessionInvariant that speaks of the tables alone. *)

TablesTyped ==
  /\ epoch \in Nat /\ resetAt \in Nat
  /\ row \in [RowId -> RowRecord]
  /\ code \in [CodeId -> CodeRecord]
  /\ minted \in [RowId -> Nat \cup {Never}] /\ bumps \in [RowId -> Nat]

FamiliesSafe ==
  /\ UnusedRowsBlank /\ FamiliesNamed /\ BumpsCondemn /\ EpochLeads
  /\ NoSessionOutlivesReset /\ OneLiveTipPerFamily /\ CondemnedFamilyIsDead
  /\ OneEpochBumpPerFamily /\ NoTokenOutlivesItsFamily /\ CodeOpensOneSession

TablesOK == TablesTyped /\ FamiliesSafe

(* The shapes of a step on the tables. *)

Still == UNCHANGED <<store, history>>

Revoked ==
  \E S \in SUBSET RowId :
    row' = RevokeIn(row, S) /\ UNCHANGED <<code, epoch, history>>

Condemned ==
  \E r \in RowId, S \in SUBSET RowId :
    /\ S = Family(r) \/ S = RowId
    /\ Exists(r) /\ ~row[r].sec
    /\ row' = CondemnIn(row, S)
    /\ epoch' = epoch + 1
    /\ bumps' = [bumps EXCEPT ![row[r].fam] = @ + 1]
    /\ UNCHANGED <<code, resetAt, minted>>

AllRevoked ==
  /\ row' = RevokeIn(row, RowId)
  /\ epoch' = epoch + 1 /\ resetAt' = epoch + 1
  /\ UNCHANGED <<code, minted, bumps>>

Opened ==
  \E n \in RowId, c \in CodeId, new \in RowRecord :
    /\ row[n].st = "none" /\ code[c].st = "code" /\ ~code[c].used
    /\ new.st = "row" /\ new.fam = n /\ new.next = None /\ new.revoked = Never
    /\ new.sec = FALSE /\ new.auth = epoch /\ new.code = c
    /\ row' = [row EXCEPT ![n] = new]
    /\ code' = [code EXCEPT ![c].used = TRUE]
    /\ minted' = [minted EXCEPT ![n] = epoch]
    /\ UNCHANGED <<epoch, resetAt, bumps>>

Rotated ==
  \E r, n \in RowId, new \in RowRecord :
    /\ Live(r) /\ row[r].next = None /\ row[n].st = "none"
    /\ new.st = "row" /\ new.fam = row[r].fam /\ new.next = None
    /\ new.revoked = Never /\ new.sec = FALSE
    /\ new.auth = row[r].auth /\ new.code = row[r].code
    /\ row' = [row EXCEPT ![n] = new, ![r].revoked = now, ![r].next = n]
    /\ minted' = [minted EXCEPT ![row[r].fam] = epoch]
    /\ UNCHANGED <<code, epoch, resetAt, bumps>>

Answered ==
  \E n \in RowId :
    /\ Live(n)
    /\ minted' = [minted EXCEPT ![row[n].fam] = epoch]
    /\ UNCHANGED <<store, resetAt, bumps>>

CodeIssued ==
  \E c \in CodeId, new \in CodeRecord :
    /\ code[c].st = "none"
    /\ code' = [code EXCEPT ![c] = new]
    /\ UNCHANGED <<row, epoch, history>>

Pruned ==
  \E old \in SUBSET RowId, gone \in SUBSET CodeId :
    /\ \A r \in old : Exists(r) /\ row[r].expires < now
    /\ \A c \in gone : code[c].st = "code"
    /\ row' = [r \in RowId |-> IF r \in old THEN [row[r] EXCEPT !.st = "pruned"] ELSE row[r]]
    /\ code' = [c \in CodeId |-> IF c \in gone THEN [code[c] EXCEPT !.st = "pruned"] ELSE code[c]]
    /\ UNCHANGED <<epoch, history>>

----------------------------------------------------------------------------
(* Each shape keeps the tables in order. *)

LEMMA RevokedKeepsTables ==
  ASSUME TablesOK, now \in Time, Revoked
  PROVE  TablesOK'
<1> USE DEF TablesOK
<1>1. PICK S \in SUBSET RowId :
        row' = RevokeIn(row, S) /\ UNCHANGED <<code, epoch, history>>
  BY DEF Revoked
<1>2. \A r \in RowId :
        /\ row'[r].st = row[r].st /\ row'[r].fam = row[r].fam
        /\ row'[r].next = row[r].next /\ row'[r].sec = row[r].sec
        /\ row'[r].auth = row[r].auth /\ row'[r].code = row[r].code
        /\ Live(r)' => Live(r)
        /\ row[r].st = "none" => row'[r] = row[r]
  BY <1>1 DEF TablesTyped, RowRecord, RevokeIn, Live, Exists
<1>3. TablesTyped'
  <2>1. row' \in [RowId -> RowRecord]
    BY SMTT(30), <1>1, ConstantsAssumption DEF TablesTyped, RowRecord, RevokeIn, Moment, Time
  <2>2. QED
    BY <2>1, <1>1 DEF TablesTyped, history
<1>4. FamiliesSafe'
  <2>1. \A r \in RowId : Family(r)' = Family(r)
    BY <1>2 DEF Family
  <2>2. FamiliesNamed'
    BY <1>1, <1>2, <2>1 DEF FamiliesSafe, FamiliesNamed, Family
  <2>8. UnusedRowsBlank'
    BY <1>2 DEF FamiliesSafe, UnusedRowsBlank, BlankRow
  <2>3. BumpsCondemn' /\ EpochLeads' /\ OneEpochBumpPerFamily'
    BY <1>1, <1>2 DEF FamiliesSafe, BumpsCondemn, EpochLeads, OneEpochBumpPerFamily, history, Exists
  <2>4. NoSessionOutlivesReset'
    BY <1>1, <1>2 DEF FamiliesSafe, NoSessionOutlivesReset, history
  <2>5. OneLiveTipPerFamily' /\ CondemnedFamilyIsDead'
    <3>1. \A r, s \in RowId : s \in Family(r) => s \in RowId
      OBVIOUS
    <3>2. QED
      BY <1>2, <2>1 DEF FamiliesSafe, OneLiveTipPerFamily, CondemnedFamilyIsDead, Family
  <2>6. NoTokenOutlivesItsFamily' /\ CodeOpensOneSession'
    BY <1>1, <1>2 DEF FamiliesSafe, NoTokenOutlivesItsFamily, CodeOpensOneSession, history
  <2>7. QED
    BY <2>2, <2>3, <2>4, <2>5, <2>6, <2>8 DEF FamiliesSafe
<1>5. QED
  BY <1>3, <1>4

LEMMA CondemnedKeepsTables ==
  ASSUME TablesOK, now \in Time, Condemned
  PROVE  TablesOK'
<1> USE DEF TablesOK
<1>1. PICK r \in RowId, S \in SUBSET RowId :
        /\ S = Family(r) \/ S = RowId
        /\ Exists(r) /\ ~row[r].sec
        /\ row' = CondemnIn(row, S)
        /\ epoch' = epoch + 1
        /\ bumps' = [bumps EXCEPT ![row[r].fam] = @ + 1]
        /\ UNCHANGED <<code, resetAt, minted>>
  BY DEF Condemned
<1>0. row[r].fam \in RowId
  BY <1>1 DEF FamiliesSafe, FamiliesNamed, Exists
<1>2. \A s \in RowId :
        /\ row'[s].st = row[s].st /\ row'[s].fam = row[s].fam
        /\ row'[s].next = row[s].next
        /\ row'[s].auth = row[s].auth /\ row'[s].code = row[s].code
        /\ Live(s)' => Live(s) /\ (s \notin S \/ row[s].sec)
        /\ row'[s].sec <=> row[s].sec \/ (s \in S /\ row[s].st = "row")
        /\ row[s].st = "none" => row'[s] = row[s]
  <2>1. now # Never
    BY ConstantsAssumption DEF Time, Never
  <2>2. \A s \in RowId :
          row'[s] = IF s \in S /\ row[s].st = "row" /\ ~row[s].sec
                    THEN [row[s] EXCEPT !.revoked = now, !.sec = TRUE] ELSE row[s]
    BY <1>1 DEF CondemnIn
  <2>3. \A s \in RowId : row[s] \in RowRecord
    BY DEF TablesTyped
  <2>4. ASSUME NEW s \in RowId, s \in S, row[s].st = "row", ~row[s].sec
        PROVE  row'[s] = [row[s] EXCEPT !.revoked = now, !.sec = TRUE]
    BY <2>2, <2>4
  <2>5. ASSUME NEW s \in RowId, ~(s \in S /\ row[s].st = "row" /\ ~row[s].sec)
        PROVE  row'[s] = row[s]
    BY <2>2, <2>5
  <2> SUFFICES ASSUME NEW s \in RowId
               PROVE  /\ row'[s].st = row[s].st /\ row'[s].fam = row[s].fam
                      /\ row'[s].next = row[s].next
                      /\ row'[s].auth = row[s].auth /\ row'[s].code = row[s].code
                      /\ Live(s)' => Live(s) /\ (s \notin S \/ row[s].sec)
                      /\ row'[s].sec <=> row[s].sec \/ (s \in S /\ row[s].st = "row")
                      /\ row[s].st = "none" => row'[s] = row[s]
    OBVIOUS
  <2>6. CASE s \in S /\ row[s].st = "row" /\ ~row[s].sec
    <3>1. row'[s] = [row[s] EXCEPT !.revoked = now, !.sec = TRUE]
      BY <2>4, <2>6
    <3>2. row[s] \in RowRecord
      BY <2>3
    <3> HIDE <2>2, <2>3, <2>4, <2>5 DEF TablesOK
    <3>3. /\ row'[s].st = row[s].st /\ row'[s].fam = row[s].fam
          /\ row'[s].next = row[s].next /\ row'[s].auth = row[s].auth
          /\ row'[s].code = row[s].code /\ row'[s].revoked = now /\ row'[s].sec = TRUE
      BY <3>1, <3>2 DEF RowRecord
    <3>4. QED
      BY <3>3, <2>1, <2>6 DEF Live
  <2>7. CASE ~(s \in S /\ row[s].st = "row" /\ ~row[s].sec)
    <3>1. row'[s] = row[s]
      BY <2>5, <2>7
    <3>2. row[s].sec \in BOOLEAN
      BY <2>3 DEF RowRecord
    <3>3. QED
      BY <3>1, <3>2, <2>7 DEF Live, Exists
  <2>8. QED
    BY <2>6, <2>7
<1>3. TablesTyped'
  <2>1. \A s \in RowId : row[s] \in RowRecord /\ now \in Moment
    BY DEF TablesTyped, Moment
  <2>2. \A s \in RowId : [row[s] EXCEPT !.revoked = now, !.sec = TRUE] \in RowRecord
    <3> SUFFICES ASSUME NEW x \in RowRecord, now \in Moment
                 PROVE  [x EXCEPT !.revoked = now, !.sec = TRUE] \in RowRecord
      BY <2>1
    <3> HIDE DEF TablesOK
    <3>1. QED
      BY DEF RowRecord
  <2>3. row' \in [RowId -> RowRecord]
    BY <2>1, <2>2, <1>1 DEF CondemnIn
  <2>4. bumps' \in [RowId -> Nat]
    BY <1>1, <1>0 DEF TablesTyped
  <2>5. QED
    BY <2>3, <2>4, <1>1 DEF TablesTyped
<1>4. \A s \in RowId : Family(s)' = Family(s)
  BY <1>2 DEF Family
<1>5. bumps[row[r].fam] = 0
  BY <1>1, <1>0 DEF TablesTyped, FamiliesSafe, BumpsCondemn, Exists
<1>6. \A s \in RowId : Exists(s) /\ row[s].fam = row[r].fam => row'[s].sec
  BY <1>1, <1>2 DEF Family, Exists
<1>7. FamiliesNamed'
  BY <1>1, <1>2, <1>4 DEF FamiliesSafe, FamiliesNamed, Family
<1>8. BumpsCondemn' /\ OneEpochBumpPerFamily'
  BY <1>0, <1>1, <1>2, <1>5, <1>6
  DEF FamiliesSafe, FamiliesNamed, BumpsCondemn, OneEpochBumpPerFamily, Exists, TablesTyped
<1>9. EpochLeads' /\ NoTokenOutlivesItsFamily'
  <2>1. \A f \in RowId : minted[f] <= epoch
    BY DEF FamiliesSafe, EpochLeads
  <2>2. \A f \in RowId : minted'[f] < epoch' /\ minted'[f] <= epoch'
    BY <2>1, <1>1 DEF TablesTyped, Never
  <2>3. \A s \in RowId : row[s].st # "none" => row[s].fam \in RowId
    BY DEF FamiliesSafe, FamiliesNamed
  <2>4. NoTokenOutlivesItsFamily'
    <3> SUFFICES ASSUME NEW s \in RowId,
                        row'[s].st # "none"
                 PROVE  minted'[row'[s].fam] < epoch'
      BY DEF NoTokenOutlivesItsFamily
    <3>1. QED
      BY <2>2, <2>3, <1>2
  <2>5. QED
    BY <2>2, <2>4, <1>1 DEF FamiliesSafe, EpochLeads, TablesTyped
<1>10. NoSessionOutlivesReset'
  BY <1>1, <1>2 DEF FamiliesSafe, NoSessionOutlivesReset
<1>11. OneLiveTipPerFamily' /\ CondemnedFamilyIsDead'
  <2>1. OneLiveTipPerFamily'
    BY <1>2, <1>4 DEF FamiliesSafe, OneLiveTipPerFamily, Family
  <2>2. ASSUME NEW s \in RowId, row'[s].sec, NEW u \in Family(s)'
        PROVE  ~Live(u)'
    <3>1. CASE row[s].sec
      BY <3>1, <2>2, <1>2, <1>4 DEF FamiliesSafe, CondemnedFamilyIsDead, Family
    <3>2. CASE ~row[s].sec
      <4>1. s \in S /\ row[s].st = "row"
        BY <3>2, <2>2, <1>2
      <4>2. row[u].st # "none" /\ row[u].fam = row[s].fam /\ u \in RowId
        BY <2>2, <1>4 DEF Family
      <4>3. u \in S
        BY <4>1, <4>2, <1>1 DEF Family
      <4>4. row[u].sec => ~Live(u)
        BY <4>2 DEF FamiliesSafe, CondemnedFamilyIsDead, Family
      <4>5. QED
        BY <4>2, <4>3, <4>4, <1>2
    <3>3. QED
      BY <3>1, <3>2
  <2>3. QED
    BY <2>1, <2>2 DEF CondemnedFamilyIsDead
<1>12. CodeOpensOneSession'
  BY <1>2 DEF FamiliesSafe, CodeOpensOneSession
<1>13. UnusedRowsBlank'
  <2>1. UnusedRowsBlank
    BY DEF FamiliesSafe
  <2> HIDE DEF TablesOK
  <2>2. QED
    BY <1>2, <2>1 DEF UnusedRowsBlank
<1>14. QED
  BY <1>3, <1>7, <1>8, <1>9, <1>10, <1>11, <1>12, <1>13 DEF FamiliesSafe

LEMMA AllRevokedKeepsTables ==
  ASSUME TablesOK, now \in Time, AllRevoked
  PROVE  TablesOK'
<1> USE DEF TablesOK
<1>1. \A r \in RowId :
        /\ row'[r].st = row[r].st /\ row'[r].fam = row[r].fam
        /\ row'[r].sec = row[r].sec
        /\ row'[r].auth = row[r].auth /\ row'[r].code = row[r].code
        /\ ~Live(r)'
        /\ row[r].st = "none" => row'[r] = row[r]
  <2>1. now # Never
    BY ConstantsAssumption DEF Time, Never
  <2>2. \A r \in RowId :
          row'[r] = IF row[r].st = "row" /\ row[r].revoked = Never
                    THEN [row[r] EXCEPT !.revoked = now] ELSE row[r]
    BY DEF AllRevoked, RevokeIn
  <2>3. \A r \in RowId : row[r] \in RowRecord
    BY DEF TablesTyped
  <2>4. QED
    BY <2>1, <2>2, <2>3 DEF RowRecord, Live, Exists
<1>2. TablesTyped'
  <2>1. row' \in [RowId -> RowRecord]
    BY ConstantsAssumption DEF AllRevoked, TablesTyped, RowRecord, RevokeIn, Moment, Time
  <2>2. QED
    BY <2>1 DEF AllRevoked, TablesTyped
<1>3. \A r \in RowId : Family(r)' = Family(r)
  BY <1>1 DEF Family
<1>4. FamiliesNamed'
  BY <1>1, <1>3 DEF AllRevoked, FamiliesSafe, FamiliesNamed, Family
<1>5. BumpsCondemn' /\ OneEpochBumpPerFamily' /\ CodeOpensOneSession'
  BY <1>1 DEF AllRevoked, FamiliesSafe, BumpsCondemn, OneEpochBumpPerFamily,
              CodeOpensOneSession, Exists
<1>6. \A f \in RowId : minted'[f] < epoch'
  BY DEF AllRevoked, FamiliesSafe, EpochLeads, TablesTyped, Never
<1>7. EpochLeads'
  BY <1>6 DEF AllRevoked, EpochLeads, TablesTyped, Never
<1>8. NoTokenOutlivesItsFamily'
  BY <1>1, <1>4, <1>6 DEF NoTokenOutlivesItsFamily, FamiliesNamed
<1>9. NoSessionOutlivesReset' /\ OneLiveTipPerFamily'
  BY <1>1 DEF NoSessionOutlivesReset, OneLiveTipPerFamily
<1>10. CondemnedFamilyIsDead'
  BY <1>1, <1>3 DEF CondemnedFamilyIsDead, Family
<1>11. UnusedRowsBlank'
  BY <1>1 DEF FamiliesSafe, UnusedRowsBlank, BlankRow
<1>12. QED
  BY <1>2, <1>4, <1>5, <1>7, <1>8, <1>9, <1>10, <1>11 DEF FamiliesSafe

LEMMA OpenedKeepsTables ==
  ASSUME TablesOK, now \in Time, Opened
  PROVE  TablesOK'
<1> USE DEF TablesOK
<1>1. PICK n \in RowId, c \in CodeId, new \in RowRecord :
        /\ row[n].st = "none" /\ code[c].st = "code" /\ ~code[c].used
        /\ new.st = "row" /\ new.fam = n /\ new.next = None /\ new.revoked = Never
        /\ new.sec = FALSE /\ new.auth = epoch /\ new.code = c
        /\ row' = [row EXCEPT ![n] = new]
        /\ code' = [code EXCEPT ![c].used = TRUE]
        /\ minted' = [minted EXCEPT ![n] = epoch]
        /\ UNCHANGED <<epoch, resetAt, bumps>>
  BY DEF Opened
<1>2. TablesTyped'
  <2>1. code' \in [CodeId -> CodeRecord]
    <3>1. [code[c] EXCEPT !.used = TRUE] \in CodeRecord
      BY DEF TablesTyped, CodeRecord
    <3>2. QED
      BY <3>1, <1>1 DEF TablesTyped
  <2>2. QED
    BY <2>1, <1>1 DEF TablesTyped
<1>3. row'[n] = new /\ \A r \in RowId : r # n => row'[r] = row[r]
  BY <1>1 DEF TablesTyped
<1>4. \A r \in RowId : row[r].st # "none" => row[r].fam \in RowId /\ row[r].fam # n
  BY <1>1 DEF FamiliesSafe, FamiliesNamed
<1>5. Family(n)' = {n}
  BY <1>1, <1>3, <1>4 DEF Family
<1>6. \A r \in RowId : row[r].st # "none" => Family(r)' = Family(r)
  BY <1>1, <1>3, <1>4 DEF Family
<1>7. /\ code'[c].used /\ code'[c].st # "none" /\ ~code[c].used
      /\ \A d \in CodeId : code[d].used => code'[d].used /\ code'[d].st = code[d].st
  BY <1>1 DEF TablesTyped, CodeRecord
<1>8. FamiliesNamed'
  <2> SUFFICES ASSUME NEW r \in RowId, row'[r].st # "none"
               PROVE  /\ row'[r].fam \in RowId /\ row'[row'[r].fam].st # "none"
                      /\ \A s \in Family(r)' : row'[s].auth = row'[r].auth /\ row'[s].code = row'[r].code
                      /\ row'[r].code \in CodeId
                      /\ code'[row'[r].code].used /\ code'[row'[r].code].st # "none"
    BY DEF FamiliesNamed
  <2>1. CASE r = n
    BY <2>1, <1>1, <1>3, <1>5, <1>7
  <2>2. CASE r # n
    <3>1. row'[r] = row[r] /\ row[r].st # "none" /\ Family(r)' = Family(r)
      BY <2>2, <1>3, <1>6
    <3>2. \A s \in Family(r) : s # n
      BY <1>1 DEF Family
    <3>3. QED
      BY <3>1, <3>2, <1>3, <1>4, <1>7 DEF FamiliesSafe, FamiliesNamed, Family
  <2>3. QED
    BY <2>1, <2>2
<1>9. BumpsCondemn' /\ OneEpochBumpPerFamily'
  BY <1>1, <1>3 DEF FamiliesSafe, BumpsCondemn, OneEpochBumpPerFamily, Exists
<1>10. EpochLeads'
  BY <1>1 DEF FamiliesSafe, EpochLeads, TablesTyped
<1>11. NoSessionOutlivesReset'
  BY <1>1, <1>3 DEF FamiliesSafe, EpochLeads, NoSessionOutlivesReset, Live, Exists
<1>12. OneLiveTipPerFamily'
  BY <1>1, <1>3, <1>5, <1>6 DEF FamiliesSafe, OneLiveTipPerFamily, Live, Exists, Family
<1>13. CondemnedFamilyIsDead'
  <2>1. \A r \in RowId : row[r].sec => row[r].st # "none"
    BY DEF FamiliesSafe, UnusedRowsBlank, BlankRow
  <2>2. QED
    BY <2>1, <1>1, <1>3, <1>6 DEF FamiliesSafe, CondemnedFamilyIsDead, Live, Exists, Family
<1>14. NoTokenOutlivesItsFamily'
  BY <1>1, <1>3, <1>4 DEF FamiliesSafe, EpochLeads, NoTokenOutlivesItsFamily, TablesTyped
<1>15. CodeOpensOneSession'
  <2>1. \A r \in RowId : row[r].code = None \/ code[row[r].code].used
    BY DEF FamiliesSafe, UnusedRowsBlank, FamiliesNamed, BlankRow
  <2>2. \A r \in RowId : row[r].code # c
    BY <2>1, <1>7, ConstantsAssumption
  <2>3. QED
    BY <2>2, <1>1, <1>3 DEF FamiliesSafe, CodeOpensOneSession
<1>16. UnusedRowsBlank'
  <2>1. UnusedRowsBlank
    BY DEF FamiliesSafe
  <2> HIDE DEF TablesOK
  <2>2. QED
    BY <1>1, <1>3, <2>1 DEF UnusedRowsBlank
<1>17. QED
  BY <1>2, <1>8, <1>9, <1>10, <1>11, <1>12, <1>13, <1>14, <1>15, <1>16 DEF FamiliesSafe

LEMMA RotatedKeepsTables ==
  ASSUME TablesOK, now \in Time, Rotated
  PROVE  TablesOK'
<1> USE DEF TablesOK
<1>1. PICK r \in RowId, n \in RowId, new \in RowRecord :
        /\ Live(r) /\ row[r].next = None /\ row[n].st = "none"
        /\ new.st = "row" /\ new.fam = row[r].fam /\ new.next = None
        /\ new.revoked = Never /\ new.sec = FALSE
        /\ new.auth = row[r].auth /\ new.code = row[r].code
        /\ row' = [row EXCEPT ![n] = new, ![r].revoked = now, ![r].next = n]
        /\ minted' = [minted EXCEPT ![row[r].fam] = epoch]
        /\ UNCHANGED <<code, epoch, resetAt, bumps>>
  BY DEF Rotated
<1> DEFINE old == [row[r] EXCEPT !.revoked = now, !.next = n]
           f == row[r].fam
<1>2. /\ r # n /\ row[n].st = "none"
      /\ row[r].st = "row" /\ row[r].revoked = Never /\ row[r].next = None
      /\ new.st = "row" /\ new.fam = f /\ new.next = None
      /\ new.revoked = Never /\ new.sec = FALSE
      /\ new.auth = row[r].auth /\ new.code = row[r].code
      /\ code' = code /\ epoch' = epoch /\ resetAt' = resetAt /\ bumps' = bumps
  BY <1>1 DEF Live, Exists
<1>3. /\ row'[r] = old /\ row'[n] = new
      /\ \A s \in RowId : s # r /\ s # n => row'[s] = row[s]
  BY <1>1, <1>2 DEF TablesTyped
<1>4. /\ old \in RowRecord /\ old.st = "row" /\ old.fam = f /\ old.next = n
      /\ old.revoked = now /\ old.sec = row[r].sec
      /\ old.auth = row[r].auth /\ old.code = row[r].code /\ now # Never
  <2>1. row[r] \in RowRecord
    BY DEF TablesTyped
  <2>2. now \in Moment /\ now # Never
    BY ConstantsAssumption DEF Moment, Time, Never
  <2>3. QED
    BY <1>2, <2>1, <2>2 DEF RowRecord
<1>5. TablesTyped'
  <2>1. row' \in [RowId -> RowRecord]
    <3>1. row' = [s \in RowId |-> IF s = n THEN new ELSE IF s = r THEN old ELSE row[s]]
      BY <1>1, <1>2, <1>3 DEF TablesTyped
    <3>2. QED
      BY <3>1, <1>4 DEF TablesTyped
  <2>2. QED
    BY <2>1, <1>1 DEF TablesTyped
<1> HIDE DEF old
<1>6. f \in RowId /\ row[f].st # "none" /\ f # n
  BY <1>2 DEF FamiliesSafe, FamiliesNamed
<1>7. \A s \in RowId :
        Family(s)' = IF row'[s].fam = f THEN Family(r) \cup {n} ELSE Family(s)
  <2>1. \A s \in RowId :
          row'[s].fam = IF s = n THEN f ELSE row[s].fam
    BY <1>2, <1>3, <1>4
  <2>2. \A s \in RowId :
          row'[s].st # "none" <=> s = n \/ row[s].st # "none"
    BY <1>2, <1>3, <1>4
  <2>3. \A s \in RowId :
          Family(s)' = {u \in RowId : row'[u].st # "none" /\ row'[u].fam = row'[s].fam}
    BY DEF Family
  <2>4. Family(r) = {u \in RowId : row[u].st # "none" /\ row[u].fam = f}
    BY DEF Family
  <2>5. ASSUME NEW s \in RowId, row'[s].fam = f
        PROVE  Family(s)' = Family(r) \cup {n}
    BY <2>1, <2>2, <2>3, <2>4, <2>5
  <2>6. ASSUME NEW s \in RowId, row'[s].fam # f
        PROVE  Family(s)' = Family(s)
    <3>1. s # n /\ row'[s].fam = row[s].fam
      BY <2>1, <2>6
    <3>2. Family(s) = {u \in RowId : row[u].st # "none" /\ row[u].fam = row[s].fam}
      BY DEF Family
    <3>3. QED
      <4>1. \A u \in RowId :
              row'[u].st # "none" /\ row'[u].fam = row'[s].fam
                <=> row[u].st # "none" /\ row[u].fam = row[s].fam
        BY <2>1, <2>2, <2>6, <3>1, <1>2
      <4>2. QED
        BY <4>1, <2>3, <3>2
  <2>7. QED
    BY <2>5, <2>6
<1>8. ~row[r].sec /\ \A s \in Family(r) : ~row[s].sec
  <2>1. \A s \in Family(r) : s \in RowId /\ r \in Family(s)
    BY <1>2 DEF Family
  <2>2. r \in Family(r) /\ Live(r)
    BY <1>2 DEF Family, Live, Exists
  <2>3. QED
    BY <2>1, <2>2 DEF FamiliesSafe, CondemnedFamilyIsDead
<1>9. UnusedRowsBlank'
  BY <1>2, <1>3, <1>4 DEF FamiliesSafe, UnusedRowsBlank, BlankRow
<1>10. \A s \in Family(r) :
         /\ s \in RowId /\ row[s].fam = f
         /\ row[s].auth = row[r].auth /\ row[s].code = row[r].code
  BY <1>2 DEF FamiliesSafe, FamiliesNamed, Family
<1>11. FamiliesNamed'
  <2> SUFFICES ASSUME NEW s \in RowId, row'[s].st # "none"
               PROVE  /\ row'[s].fam \in RowId /\ row'[row'[s].fam].st # "none"
                      /\ \A u \in Family(s)' : row'[u].auth = row'[s].auth /\ row'[u].code = row'[s].code
                      /\ row'[s].code \in CodeId
                      /\ code'[row'[s].code].used /\ code'[row'[s].code].st # "none"
    BY DEF FamiliesNamed
  <2>1. row'[f].st # "none"
    BY <1>3, <1>4, <1>6
  <2>2. row[r].code \in CodeId /\ code[row[r].code].used /\ code[row[r].code].st # "none"
    BY <1>2 DEF FamiliesSafe, FamiliesNamed
  <2>3. CASE row'[s].fam = f
    <3>1. s \in Family(r) \cup {n}
      BY <2>3, <1>2, <1>3, <1>4 DEF Family
    <3>2. \A u \in Family(r) \cup {n} : row'[u].auth = row[r].auth /\ row'[u].code = row[r].code
      BY <1>2, <1>3, <1>4, <1>10
    <3>3. QED
      <4>1. row'[s].auth = row[r].auth /\ row'[s].code = row[r].code
        BY <3>1, <3>2
      <4>2. \A u \in Family(s)' : row'[u].auth = row[r].auth /\ row'[u].code = row[r].code
        BY <3>2, <2>3, <1>7
      <4>3. QED
        BY <4>1, <4>2, <2>1, <2>2, <2>3, <1>2, <1>6
  <2>4. CASE row'[s].fam # f
    <3>1. s # r /\ s # n /\ row'[s] = row[s] /\ Family(s)' = Family(s)
      BY <2>4, <1>2, <1>3, <1>4, <1>7
    <3>2. \A u \in Family(s) : u \in RowId /\ u # r /\ u # n
      BY <3>1, <2>4, <1>2 DEF Family
    <3>3. row[s].fam \in RowId /\ row[row[s].fam].st # "none"
      BY <3>1 DEF FamiliesSafe, FamiliesNamed
    <3>4. row'[row[s].fam].st # "none"
      BY <3>3, <1>2, <1>3, <1>4
    <3>5. QED
      BY <3>1, <3>2, <3>3, <3>4, <1>2, <1>3 DEF FamiliesSafe, FamiliesNamed
  <2>5. QED
    BY <2>3, <2>4
<1>12. BumpsCondemn' /\ OneEpochBumpPerFamily'
  <2>1. bumps[f] = 0
    BY <1>2, <1>6, <1>8 DEF FamiliesSafe, BumpsCondemn, Exists, TablesTyped
  <2>2. OneEpochBumpPerFamily'
    BY <1>2 DEF FamiliesSafe, OneEpochBumpPerFamily
  <2>3. ASSUME NEW s \in RowId
        PROVE  /\ Exists(s)' /\ bumps'[row'[s].fam] > 0 => row'[s].sec
               /\ row'[s].st = "none" => bumps'[s] = 0
    <3>1. CASE s \in {r, n}
      BY <3>1, <2>1, <1>2, <1>3, <1>4
    <3>2. CASE s \notin {r, n}
      BY <3>2, <1>2, <1>3 DEF FamiliesSafe, BumpsCondemn, Exists
    <3>3. QED
      BY <3>1, <3>2
  <2>4. QED
    BY <2>2, <2>3 DEF BumpsCondemn
<1>13. EpochLeads'
  BY <1>1 DEF FamiliesSafe, EpochLeads, TablesTyped
<1>14. NoSessionOutlivesReset'
  BY <1>2, <1>3, <1>4 DEF FamiliesSafe, NoSessionOutlivesReset, Live, Exists
<1>15. \A s \in Family(r) : ~Live(s)'
  BY <1>2, <1>3, <1>4, <1>10 DEF FamiliesSafe, OneLiveTipPerFamily, Live, Exists, Family
<1>16. OneLiveTipPerFamily'
  <2> SUFFICES ASSUME NEW s \in RowId, Live(s)'
               PROVE  row'[s].next = None /\ \A u \in Family(s)' : Live(u)' => u = s
    BY DEF OneLiveTipPerFamily
  <2>1. CASE row'[s].fam = f
    <3>1. s = n
      BY <2>1, <1>2, <1>3, <1>4, <1>15 DEF Live, Exists, Family
    <3>2. QED
      BY <3>1, <2>1, <1>2, <1>3, <1>7, <1>15
  <2>2. CASE row'[s].fam # f
    <3>1. s # r /\ s # n /\ row'[s] = row[s] /\ Family(s)' = Family(s)
      BY <2>2, <1>2, <1>3, <1>4, <1>7
    <3>2. \A u \in Family(s) : u \in RowId /\ row'[u] = row[u]
      BY <3>1, <2>2, <1>2, <1>3 DEF Family
    <3>3. QED
      BY <3>1, <3>2 DEF FamiliesSafe, OneLiveTipPerFamily, Live, Exists
  <2>3. QED
    BY <2>1, <2>2
<1>17. CondemnedFamilyIsDead'
  <2> SUFFICES ASSUME NEW s \in RowId, row'[s].sec, NEW u \in Family(s)'
               PROVE  ~Live(u)'
    BY DEF CondemnedFamilyIsDead
  <2>0. \A v \in RowId : row[v].sec => row[v].st # "none"
    BY DEF FamiliesSafe, UnusedRowsBlank, BlankRow
  <2>1. s # n /\ s # r /\ row'[s] = row[s] /\ row[s].st # "none"
    BY <2>0, <1>2, <1>3, <1>4, <1>8
  <2>2. row'[s].fam # f /\ Family(s)' = Family(s)
    BY <2>1, <1>7, <1>8 DEF Family
  <2>3. u \in RowId /\ row'[u] = row[u]
    BY <2>1, <2>2, <1>2, <1>3 DEF Family
  <2>4. QED
    BY <2>1, <2>2, <2>3 DEF FamiliesSafe, CondemnedFamilyIsDead, Live, Exists
<1>18. NoTokenOutlivesItsFamily'
  <2> SUFFICES ASSUME NEW s \in RowId, row'[s].st # "none",
                      row'[s].sec \/ row'[s].auth < resetAt
               PROVE  minted'[row'[s].fam] < epoch
    BY <1>2 DEF NoTokenOutlivesItsFamily
  <2>1. row[r].auth >= resetAt /\ row[r].auth \in Nat /\ resetAt \in Nat
    BY <1>2 DEF FamiliesSafe, NoSessionOutlivesReset, TablesTyped, RowRecord, Live, Exists
  <2>2. \A u \in Family(r) \cup {n} : ~row'[u].sec /\ ~(row'[u].auth < resetAt)
    <3>1. \A u \in Family(r) : u # n /\ row'[u].sec = row[u].sec /\ row'[u].auth = row[u].auth
      BY <1>2, <1>3, <1>4, <1>10 DEF Family
    <3>2. QED
      BY <3>1, <2>1, <1>2, <1>3, <1>8, <1>10
  <2>3. s \notin Family(r) \cup {n}
    BY <2>2
  <2>4. row'[s] = row[s] /\ row'[s].fam # f
    BY <2>3, <1>2, <1>3 DEF Family
  <2>5. QED
    BY <2>4, <1>1 DEF FamiliesSafe, FamiliesNamed, NoTokenOutlivesItsFamily, TablesTyped
<1>19. CodeOpensOneSession'
  <2>1. \A s \in RowId : \E u \in RowId : row'[s].code = row[u].code /\ row'[s].fam = row[u].fam
    BY <1>2, <1>3, <1>4
  <2>2. QED
    BY <2>1 DEF FamiliesSafe, CodeOpensOneSession
<1>20. QED
  BY <1>5, <1>9, <1>11, <1>12, <1>13, <1>14, <1>16, <1>17, <1>18, <1>19 DEF FamiliesSafe

LEMMA AnsweredKeepsTables ==
  ASSUME TablesOK, Answered
  PROVE  TablesOK'
<1> USE DEF TablesOK
<1>1. PICK n \in RowId :
        /\ Live(n)
        /\ minted' = [minted EXCEPT ![row[n].fam] = epoch]
        /\ UNCHANGED <<row, code, epoch, resetAt, bumps>>
  BY DEF Answered, store
<1>2. TablesTyped'
  BY <1>1 DEF TablesTyped
<1>3. UnusedRowsBlank' /\ FamiliesNamed' /\ BumpsCondemn' /\ NoSessionOutlivesReset'
      /\ OneLiveTipPerFamily' /\ CondemnedFamilyIsDead' /\ OneEpochBumpPerFamily'
      /\ CodeOpensOneSession'
  BY <1>1 DEF FamiliesSafe, UnusedRowsBlank, FamiliesNamed, BumpsCondemn,
              NoSessionOutlivesReset, OneLiveTipPerFamily, CondemnedFamilyIsDead,
              OneEpochBumpPerFamily, CodeOpensOneSession, Live, Exists, Family
<1>4. EpochLeads'
  BY <1>1 DEF FamiliesSafe, EpochLeads, TablesTyped
<1>5. NoTokenOutlivesItsFamily'
  <2> SUFFICES ASSUME NEW r \in RowId, row[r].st # "none",
                      row[r].sec \/ row[r].auth < resetAt
               PROVE  minted'[row[r].fam] < epoch
    BY <1>1 DEF NoTokenOutlivesItsFamily
  <2>1. CASE row[r].fam = row[n].fam
    <3>1. n \in Family(r) /\ r \in Family(n) /\ row[n].auth = row[r].auth
      BY <2>1, <1>1 DEF FamiliesSafe, FamiliesNamed, Family, Live, Exists
    <3>2. ~row[r].sec
      BY <3>1, <1>1 DEF FamiliesSafe, CondemnedFamilyIsDead
    <3>3. row[n].auth >= resetAt /\ row[n].auth \in Nat /\ resetAt \in Nat
      BY <1>1 DEF FamiliesSafe, NoSessionOutlivesReset, TablesTyped, RowRecord
    <3>4. QED
      BY <3>1, <3>2, <3>3
  <2>2. CASE row[r].fam # row[n].fam
    BY <2>2, <1>1 DEF FamiliesSafe, FamiliesNamed, NoTokenOutlivesItsFamily, TablesTyped
  <2>3. QED
    BY <2>1, <2>2
<1>6. QED
  BY <1>2, <1>3, <1>4, <1>5 DEF FamiliesSafe

LEMMA CodeIssuedKeepsTables ==
  ASSUME TablesOK, CodeIssued
  PROVE  TablesOK'
<1> USE DEF TablesOK
<1>1. PICK c \in CodeId, new \in CodeRecord :
        /\ code[c].st = "none"
        /\ code' = [code EXCEPT ![c] = new]
        /\ UNCHANGED <<row, epoch, resetAt, minted, bumps>>
  BY DEF CodeIssued, history
<1>2. TablesTyped'
  BY <1>1 DEF TablesTyped
<1>3. FamiliesNamed'
  <2>1. \A r \in RowId : Family(r)' = Family(r)
    BY <1>1 DEF Family
  <2>2. \A d \in CodeId : code[d].st # "none" => code'[d] = code[d]
    BY <1>1 DEF TablesTyped
  <2>3. QED
    BY <2>1, <2>2, <1>1 DEF FamiliesSafe, FamiliesNamed, Family
<1>4. QED
  BY <1>1, <1>2, <1>3
  DEF FamiliesSafe, UnusedRowsBlank, BumpsCondemn, EpochLeads, NoSessionOutlivesReset,
      OneLiveTipPerFamily, CondemnedFamilyIsDead, OneEpochBumpPerFamily,
      NoTokenOutlivesItsFamily, CodeOpensOneSession, Live, Exists, Family

LEMMA PrunedKeepsTables ==
  ASSUME TablesOK, Pruned
  PROVE  TablesOK'
<1> USE DEF TablesOK
<1>1. PICK old \in SUBSET RowId, gone \in SUBSET CodeId :
        /\ \A r \in old : Exists(r) /\ row[r].expires < now
        /\ \A c \in gone : code[c].st = "code"
        /\ row' = [r \in RowId |-> IF r \in old THEN [row[r] EXCEPT !.st = "pruned"] ELSE row[r]]
        /\ code' = [c \in CodeId |-> IF c \in gone THEN [code[c] EXCEPT !.st = "pruned"] ELSE code[c]]
        /\ UNCHANGED <<epoch, resetAt, minted, bumps>>
  BY DEF Pruned, history
<1>2. TablesTyped'
  <2>1. \A r \in RowId : [row[r] EXCEPT !.st = "pruned"] \in RowRecord
    BY DEF TablesTyped, RowRecord
  <2>2. \A c \in CodeId : [code[c] EXCEPT !.st = "pruned"] \in CodeRecord
    BY DEF TablesTyped, CodeRecord
  <2>3. QED
    BY <2>1, <2>2, <1>1 DEF TablesTyped
<1>3. \A r \in RowId :
        /\ row'[r].st = "none" <=> row[r].st = "none"
        /\ row'[r].fam = row[r].fam /\ row'[r].sec = row[r].sec
        /\ row'[r].next = row[r].next
        /\ row'[r].auth = row[r].auth /\ row'[r].code = row[r].code
        /\ Live(r)' => Live(r)
        /\ Exists(r)' => Exists(r)
        /\ row[r].st = "none" => row'[r] = row[r]
  BY <1>1 DEF TablesTyped, RowRecord, Live, Exists
<1>4. \A c \in CodeId :
        code'[c].used = code[c].used /\ (code[c].st # "none" => code'[c].st # "none")
  BY <1>1 DEF TablesTyped, CodeRecord
<1>5. \A r \in RowId : Family(r)' = Family(r)
  BY <1>3 DEF Family
<1>6. UnusedRowsBlank'
  BY <1>3 DEF FamiliesSafe, UnusedRowsBlank, BlankRow
<1>7. FamiliesNamed'
  BY <1>3, <1>4, <1>5 DEF FamiliesSafe, FamiliesNamed, Family
<1>8. epoch' = epoch /\ resetAt' = resetAt /\ minted' = minted /\ bumps' = bumps
  BY <1>1
<1>9. /\ BumpsCondemn' /\ OneEpochBumpPerFamily' /\ EpochLeads'
      /\ NoTokenOutlivesItsFamily' /\ NoSessionOutlivesReset' /\ CodeOpensOneSession'
  <2>1. BumpsCondemn' /\ OneEpochBumpPerFamily' /\ EpochLeads'
    BY <1>3, <1>8 DEF FamiliesSafe, BumpsCondemn, OneEpochBumpPerFamily, EpochLeads
  <2>2. NoTokenOutlivesItsFamily'
    BY <1>3, <1>8 DEF FamiliesSafe, NoTokenOutlivesItsFamily
  <2>3. NoSessionOutlivesReset'
    BY <1>3, <1>8 DEF FamiliesSafe, NoSessionOutlivesReset
  <2>4. CodeOpensOneSession'
    BY <1>3, <1>8 DEF FamiliesSafe, CodeOpensOneSession
  <2>5. QED
    BY <2>1, <2>2, <2>3, <2>4
<1>10. OneLiveTipPerFamily' /\ CondemnedFamilyIsDead'
  BY <1>3, <1>5 DEF FamiliesSafe, OneLiveTipPerFamily, CondemnedFamilyIsDead, Family
<1>11. QED
  BY <1>2, <1>6, <1>7, <1>9, <1>10 DEF FamiliesSafe

LEMMA StillKeepsTables ==
  ASSUME TablesOK, Still
  PROVE  TablesOK'
BY DEF Still, store, history, TablesOK, TablesTyped, FamiliesSafe, UnusedRowsBlank,
       FamiliesNamed, BumpsCondemn, EpochLeads, NoSessionOutlivesReset,
       OneLiveTipPerFamily, CondemnedFamilyIsDead, OneEpochBumpPerFamily,
       NoTokenOutlivesItsFamily, CodeOpensOneSession, Live, Exists, Family

----------------------------------------------------------------------------
(* The part of SessionInvariant that speaks of the transactions. *)

WorldTyped ==
  /\ now \in Time
  /\ orgSt \in [Org -> Status] /\ teamSt \in [Workspace -> Status]
  /\ disabled \subseteq Domain
  /\ tx \in [Tx -> TxRecord]

TxSafe == (\A t \in Tx : WellFormed(t) /\ DecisionHolds(t)) /\ UserMutex

LEMMA InvariantParts == SessionInvariant <=> TablesOK /\ WorldTyped /\ TxSafe
BY DEF SessionInvariant, TypeOK, TablesOK, TablesTyped, FamiliesSafe, WorldTyped, TxSafe

LEMMA InvariantPartsNext == SessionInvariant' <=> TablesOK' /\ WorldTyped' /\ TxSafe'
BY DEF SessionInvariant, TypeOK, TablesOK, TablesTyped, FamiliesSafe, WorldTyped, TxSafe

LEMMA IdleTyped == Idle \in TxRecord
BY ConstantsAssumption DEF Idle, TxRecord, Ref, Scope, Moment, Time

(* A transaction that has decided, and is not memberwise, holds the lock. *)
LEMMA DecidedHoldsUser ==
  ASSUME SessionInvariant, NEW u \in Tx,
         tx[u].op \in Issuing, Decided(u)
  PROVE  HoldsUser(u)
BY DEF Issuing, Rotations, Decided, HoldsUser, TakesUserLock, UserLocked, Memberwise

(* A transaction ends: whatever it wrote, it wrote under the user lock.    *)
LEMMA EndKeepsInvariant ==
  ASSUME SessionInvariant, NEW t \in Tx, End(t), TablesOK', now' = now,
         orgSt' \in [Org -> Status], teamSt' \in [Workspace -> Status],
         disabled' \subseteq Domain,
         \A r \in RowId : row[r].st # "none" => row'[r].st # "none",
         HoldsUser(t) \/ UNCHANGED <<row, epoch>>
  PROVE  SessionInvariant'
<1>1. TablesOK /\ WorldTyped /\ TxSafe
  BY InvariantParts
<1>2. tx'[t] = Idle /\ \A u \in Tx : u # t => tx'[u] = tx[u]
  BY <1>1 DEF End, WorldTyped
<1>3. WorldTyped'
  BY <1>1, IdleTyped DEF WorldTyped, End
<1>4. \A u \in Tx : WellFormed(u)'
  BY <1>1, <1>2 DEF TxSafe, WellFormed, Idle, Rotations, Revoking, Memberwise
<1>5. ~HoldsUser(t)' /\ \A u \in Tx : u # t => (HoldsUser(u)' <=> HoldsUser(u))
  BY <1>2 DEF HoldsUser, TakesUserLock, UserLocked, Idle
<1>6. UserMutex'
  BY <1>1, <1>5 DEF TxSafe, UserMutex
<1>7. ASSUME NEW u \in Tx
      PROVE  DecisionHolds(u)'
  <2>1. CASE u = t
    BY <2>1, <1>2 DEF DecisionHolds, Idle, Rotations
  <2>2. CASE u # t /\ HoldsUser(t)
    <3>1. ~HoldsUser(u)
      BY <2>2, <1>1 DEF TxSafe, UserMutex
    <3>2. tx[u].op \in Issuing => ~Decided(u)
      BY <3>1, DecidedHoldsUser
    <3>3. tx[u].op \in Rotations => tx[u].tip = None
      BY <3>2, <1>1 DEF TxSafe, DecisionHolds, Issuing, Rotations
    <3>4. QED
      BY <2>2, <3>2, <3>3, <1>2 DEF DecisionHolds, Decided, Issuing, Rotations
  <2>3. CASE u # t /\ UNCHANGED <<row, epoch>>
    BY <2>3, <1>1, <1>2 DEF TxSafe, DecisionHolds, Decided, Exists
  <2>4. QED
    BY <2>1, <2>2, <2>3
<1>8. QED
  BY <1>3, <1>4, <1>6, <1>7, InvariantPartsNext DEF TxSafe

(* A transaction moves on without writing anything. *)
LEMMA MoveKeepsInvariant ==
  ASSUME SessionInvariant, NEW t \in Tx, NEW new \in TxRecord,
         tx' = [tx EXCEPT ![t] = new],
         UNCHANGED <<now, store, members, disabled, history>>,
         WellFormed(t)', DecisionHolds(t)',
         HoldsUser(t)' => HoldsUser(t) \/ \A u \in Tx : ~HoldsUser(u)
  PROVE  SessionInvariant'
<1>1. TablesOK /\ WorldTyped /\ TxSafe
  BY InvariantParts
<1>2. \A u \in Tx : u # t => tx'[u] = tx[u]
  BY <1>1 DEF WorldTyped
<1>3. TablesOK'
  BY <1>1, StillKeepsTables DEF Still
<1>4. WorldTyped'
  BY <1>1 DEF WorldTyped, members
<1>5. \A u \in Tx : u # t => WellFormed(u)' /\ DecisionHolds(u)'
  BY <1>1, <1>2 DEF TxSafe, WellFormed, DecisionHolds, Decided, Exists, store
<1>6. UserMutex'
  <2>1. \A u \in Tx : u # t => (HoldsUser(u)' <=> HoldsUser(u))
    BY <1>2 DEF HoldsUser, TakesUserLock
  <2>2. QED
    BY <2>1, <1>1 DEF TxSafe, UserMutex
<1>7. QED
  BY <1>3, <1>4, <1>5, <1>6, InvariantPartsNext DEF TxSafe

LEMMA AbortKeepsInvariant ==
  ASSUME SessionInvariant, NEW t \in Tx, Abort(t)
  PROVE  SessionInvariant'
<1>1. TablesOK /\ WorldTyped /\ TxSafe
  BY InvariantParts
<1>2. TablesOK'
  BY <1>1, StillKeepsTables DEF Abort, Still
<1>3. QED
  BY <1>1, <1>2, EndKeepsInvariant DEF Abort, members, store, WorldTyped

----------------------------------------------------------------------------
(* Beginning a transaction. *)

LEMMA BeginKeepsInvariant ==
  ASSUME SessionInvariant, NEW t \in Tx, NEW new \in TxRecord, Begin(t, new),
         new.pc \in {"login", "user", "source"}, new.tip = None,
         new.pc = "login" => new.op = "issueCode",
         new.pc = "source" => new.op \in Memberwise,
         new.op # "none",
         new.op \in Rotations \cup {"logout"} => new.ref \in RowId /\ row[new.ref].st # "none",
         new.op = "exchange" => new.ref \in CodeId,
         new.op = "switch" => new.dst \in Workspace,
         new.op \in Revoking \cup Memberwise => new.src \in Workspace
  PROVE  SessionInvariant'
<1>1. tx'[t] = new
  BY InvariantParts DEF Begin, WorldTyped
<1>2. WellFormed(t)'
  BY <1>1 DEF WellFormed, Begin, store
<1>3. DecisionHolds(t)'
  BY <1>1 DEF DecisionHolds, Decided, Issuing, Rotations, Memberwise
<1>4. ~HoldsUser(t)'
  BY <1>1 DEF HoldsUser, TakesUserLock, UserLocked
<1>5. QED
  BY <1>2, <1>3, <1>4, MoveKeepsInvariant DEF Begin

LEMMA StartKeepsInvariant ==
  ASSUME SessionInvariant, NEW t \in Tx, Start(t)
  PROVE  SessionInvariant'
<1>1. TablesOK /\ WorldTyped /\ TxSafe
  BY InvariantParts
<1>2. CASE \E d \in Domain, w \in Scope, mfa \in MfaProofs : Authenticate(t, d, w, mfa)
  <2>1. PICK d \in Domain, w \in Scope, mfa \in MfaProofs : Authenticate(t, d, w, mfa)
    BY <1>2
  <2> DEFINE new == [Idle EXCEPT !.op = "issueCode", !.pc = "login", !.dom = d,
                                 !.src = w, !.mfa = mfa, !.epoch = epoch]
  <2>2. new \in TxRecord
    BY <1>1, IdleTyped, ConstantsAssumption DEF Idle, TxRecord, TablesOK, TablesTyped, AllOperations
  <2>3. QED
    BY <2>1, <2>2, BeginKeepsInvariant
    DEF Authenticate, Idle, Rotations, Revoking, Memberwise
<1>3. CASE BeginIssueCode(t)
  <2> DEFINE new == [tx[t] EXCEPT !.pc = "user"]
  <2>1. new \in TxRecord
    BY <1>1 DEF WorldTyped, TxRecord
  <2>2. tx'[t] = new /\ tx[t] \in TxRecord
    BY <1>1, <1>3 DEF BeginIssueCode, Goto, WorldTyped
  <2>3. new.op = "issueCode" /\ new.pc = "user" /\ new.op = tx[t].op /\ new.tip = None
    BY <1>1, <1>3 DEF BeginIssueCode, TxSafe, WellFormed, WorldTyped, TxRecord, Rotations
  <2>4. WellFormed(t)' /\ DecisionHolds(t)' /\ ~HoldsUser(t)'
    BY <2>2, <2>3 DEF WellFormed, DecisionHolds, Decided, HoldsUser, UserLocked, Rotations, Revoking, Memberwise
  <2>5. QED
    BY <1>3, <2>1, <2>4, MoveKeepsInvariant DEF BeginIssueCode, Goto
<1>4. CASE \E c \in CodeId : BeginExchange(t, c)
  <2>1. PICK c \in CodeId : BeginExchange(t, c)
    BY <1>4
  <2> DEFINE new == [Idle EXCEPT !.op = "exchange", !.pc = "user", !.ref = c,
                       !.dom = code[c].dom, !.src = code[c].ws, !.mfa = code[c].mfa,
                       !.at = now, !.epoch = code[c].epoch]
  <2>2. code[c] \in CodeRecord /\ now \in Moment
    BY <1>1 DEF TablesOK, TablesTyped, WorldTyped, Moment
  <2>3. new \in TxRecord
    BY <2>2, IdleTyped DEF Idle, TxRecord, CodeRecord, AllOperations, Issuing, Ref
  <2>4. QED
    BY <2>1, <2>3, BeginKeepsInvariant
    DEF BeginExchange, Idle, Rotations, Revoking, Memberwise
<1>5. ASSUME NEW r \in RowId,
             BeginRefresh(t, r) \/ BeginLogout(t, r) \/ \E w \in Workspace : BeginSwitch(t, r, w)
      PROVE  SessionInvariant'
  <2>1. row[r] \in RowRecord
    BY <1>1 DEF TablesOK, TablesTyped
  <2>2. CASE BeginRefresh(t, r)
    <3> DEFINE new == [Idle EXCEPT !.op = "refresh", !.pc = "user", !.ref = r,
                                   !.dom = row[r].dom, !.src = row[r].ws]
    <3>1. new \in TxRecord
      BY <2>1, IdleTyped DEF Idle, TxRecord, RowRecord, AllOperations, Issuing, Rotations, Ref
    <3>2. QED
      BY <2>2, <3>1, BeginKeepsInvariant
      DEF BeginRefresh, Idle, Rotations, Revoking, Memberwise, Exists
  <2>3. CASE BeginLogout(t, r)
    <3> DEFINE new == [Idle EXCEPT !.op = "logout", !.pc = "user", !.ref = r, !.dom = row[r].dom]
    <3>1. new \in TxRecord
      BY <2>1, IdleTyped DEF Idle, TxRecord, RowRecord, AllOperations, Ref
    <3>2. QED
      BY <2>3, <3>1, BeginKeepsInvariant
      DEF BeginLogout, Idle, Rotations, Revoking, Memberwise, Exists
  <2>4. CASE \E w \in Workspace : BeginSwitch(t, r, w)
    <3>1. PICK w \in Workspace : BeginSwitch(t, r, w)
      BY <2>4
    <3> DEFINE new == [Idle EXCEPT !.op = "switch", !.pc = "user", !.ref = r,
                         !.dom = row[r].dom, !.src = row[r].ws, !.dst = w]
    <3>2. new \in TxRecord
      BY <2>1, IdleTyped DEF Idle, TxRecord, RowRecord, AllOperations, Issuing, Rotations, Ref, Scope
    <3>3. QED
      BY <3>1, <3>2, BeginKeepsInvariant
      DEF BeginSwitch, Idle, Rotations, Revoking, Memberwise, Exists
  <2>5. QED
    BY <1>5, <2>2, <2>3, <2>4
<1>6. CASE BeginReset(t)
  <2> DEFINE new == [Idle EXCEPT !.op = "reset", !.pc = "user"]
  <2>1. new \in TxRecord
    BY IdleTyped DEF Idle, TxRecord, AllOperations
  <2>2. QED
    BY <1>6, <2>1, BeginKeepsInvariant DEF BeginReset, Idle, Rotations, Revoking, Memberwise
<1>7. ASSUME NEW op \in Revoking, NEW w \in Workspace, BeginRevoking(t, op, w)
      PROVE  SessionInvariant'
  <2> DEFINE new == [Idle EXCEPT !.op = op, !.pc = "user", !.src = w]
  <2>1. new \in TxRecord
    BY IdleTyped DEF Idle, TxRecord, AllOperations, Scope
  <2>2. QED
    BY <1>7, <2>1, BeginKeepsInvariant DEF BeginRevoking, Idle, Rotations, Revoking, Memberwise
<1>8. ASSUME NEW op \in Memberwise, NEW w \in Workspace, BeginMemberwise(t, op, w)
      PROVE  SessionInvariant'
  <2> DEFINE new == [Idle EXCEPT !.op = op, !.pc = "source", !.src = w]
  <2>1. new \in TxRecord
    BY IdleTyped DEF Idle, TxRecord, AllOperations, Scope
  <2>2. QED
    BY <1>8, <2>1, BeginKeepsInvariant DEF BeginMemberwise, Idle, Rotations, Revoking, Memberwise
<1>9. QED
  BY <1>2, <1>3, <1>4, <1>5, <1>6, <1>7, <1>8 DEF Start

----------------------------------------------------------------------------
(* Waiting for locks, and deciding under the user lock. *)

LEMMA AcquireKeepsInvariant ==
  ASSUME SessionInvariant, NEW t \in Tx, Acquire(t)
  PROVE  SessionInvariant'
<1>1. TablesOK /\ WorldTyped /\ TxSafe
  BY InvariantParts
<1>2. tx[t] \in TxRecord /\ WellFormed(t) /\ DecisionHolds(t)
  BY <1>1 DEF WorldTyped, TxSafe
<1>3. CASE LockUser(t)
  <2> DEFINE new == [tx[t] EXCEPT !.pc = IF tx[t].op \in Revoking THEN "source" ELSE "decide"]
  <2>1. new \in TxRecord
    BY <1>2 DEF TxRecord
  <2>2. tx'[t] = new /\ new.op = tx[t].op /\ new.ref = tx[t].ref /\ new.dst = tx[t].dst
        /\ new.src = tx[t].src /\ new.tip = tx[t].tip /\ new.epoch = tx[t].epoch
        /\ new.pc = (IF tx[t].op \in Revoking THEN "source" ELSE "decide")
    BY <1>1, <1>2, <1>3 DEF LockUser, Goto, WorldTyped, TxRecord
  <2>3. WellFormed(t)'
    BY <1>2, <1>3, <2>2 DEF WellFormed, LockUser, store
  <2>4. DecisionHolds(t)'
    BY <1>2, <1>3, <2>2
    DEF DecisionHolds, Decided, LockUser, Rotations, Revoking
  <2>5. QED
    BY <1>3, <2>1, <2>3, <2>4, MoveKeepsInvariant DEF LockUser, Goto
<1>4. CASE LockSource(t) \/ LockTarget(t)
  <2> DEFINE w == IF tx[t].pc = "source" THEN tx[t].src ELSE tx[t].dst
             p == IF tx[t].pc = "source" /\ tx[t].dst # None THEN "target" ELSE "commit"
             new == [tx[t] EXCEPT !.orgs = @ \cup {OrgOf[w]}, !.pc = p]
  <2>1. OrgOf[w] \in Org
    BY <1>2, <1>4, ConstantsAssumption DEF WellFormed, LockSource, LockTarget
  <2>2. new \in TxRecord
    BY <1>2, <2>1 DEF TxRecord
  <2>3. tx' = [tx EXCEPT ![t] = new]
    <3>1. tx \in [Tx -> TxRecord]
      BY <1>1 DEF WorldTyped
    <3>2. CASE LockSource(t)
      BY <3>1, <3>2, <1>2 DEF LockSource, TxRecord
    <3>3. CASE LockTarget(t)
      BY <3>1, <3>3, <1>2 DEF LockTarget, TxRecord
    <3>4. QED
      BY <1>4, <3>2, <3>3
  <2>4. tx'[t] = new /\ new.op = tx[t].op /\ new.ref = tx[t].ref /\ new.dst = tx[t].dst
        /\ new.src = tx[t].src /\ new.tip = tx[t].tip /\ new.epoch = tx[t].epoch
        /\ new.pc = p /\ tx[t].pc \in {"source", "target"}
        /\ (new.pc = "target" => new.dst # None)
    BY <1>1, <1>2, <1>4, <2>3 DEF LockSource, LockTarget, WorldTyped, TxRecord
  <2>5. WellFormed(t)'
    <3>1. new.pc = "target" => new.dst \in Workspace
      BY <1>2, <2>4 DEF TxRecord, Scope
    <3>2. QED
      BY <1>2, <1>4, <2>4, <3>1 DEF WellFormed, LockSource, LockTarget, store
  <2>6. DecisionHolds(t)'
    BY <1>2, <1>4, <2>4 DEF DecisionHolds, Decided, LockSource, LockTarget, store, Exists
  <2>7. HoldsUser(t)' => HoldsUser(t)
    BY <2>4 DEF HoldsUser, TakesUserLock, UserLocked
  <2>8. UNCHANGED <<now, store, members, disabled, history>>
    BY <1>4 DEF LockSource, LockTarget
  <2> HIDE DEF new
  <2>9. QED
    BY <2>2, <2>3, <2>5, <2>6, <2>7, <2>8, MoveKeepsInvariant
<1>5. QED
  BY <1>3, <1>4 DEF Acquire

(* Reuse and logout condemn, or find the family condemned already. *)
LEMMA CondemnShape ==
  ASSUME TablesOK, NEW r \in RowId, NEW S, S = Family(r) \/ S = RowId,
         Condemn(row, r, S), UNCHANGED <<code, resetAt, minted>>
  PROVE  /\ Condemned \/ Still
         /\ \A s \in RowId : row[s].st # "none" => row'[s].st # "none"
<1>1. CASE row[r].st = "row" /\ ~row[r].sec
  <2>1. r \in S /\ S \in SUBSET RowId
    BY <1>1 DEF Family
  <2>2. S \cup {r} = S
    BY <2>1
  <2>3. row' = CondemnIn(row, S)
    BY <1>1, <2>2 DEF Condemn
  <2>4. epoch' = epoch + 1 /\ bumps' = [bumps EXCEPT ![row[r].fam] = @ + 1]
    BY <1>1 DEF Condemn
  <2>5. Condemned
    BY <1>1, <2>1, <2>3, <2>4 DEF Condemned, Exists
  <2>6. \A s \in RowId : row[s] \in RowRecord
    BY DEF TablesOK, TablesTyped
  <2>7. \A s \in RowId : row[s].st # "none" => row'[s].st # "none"
    BY <2>3, <2>6 DEF CondemnIn, RowRecord
  <2>8. QED
    BY <2>5, <2>7
<1>2. CASE ~(row[r].st = "row" /\ ~row[r].sec)
  BY <1>2 DEF Condemn, Still, store, history
<1>3. QED
  BY <1>1, <1>2

LEMMA CondemnKeepsInvariant ==
  ASSUME SessionInvariant, NEW t \in Tx, HoldsUser(t), NEW r \in RowId,
         NEW S, S = Family(r) \/ S = RowId,
         Condemn(row, r, S), End(t),
         UNCHANGED <<now, code, members, disabled, resetAt, minted>>
  PROVE  SessionInvariant'
<1>1. TablesOK /\ WorldTyped
  BY InvariantParts
<1>2. /\ Condemned \/ Still
      /\ \A s \in RowId : row[s].st # "none" => row'[s].st # "none"
  BY <1>1, CondemnShape
<1>3. TablesOK'
  BY <1>1, <1>2, CondemnedKeepsTables, StillKeepsTables DEF WorldTyped
<1>4. QED
  BY <1>1, <1>2, <1>3, EndKeepsInvariant DEF WorldTyped, members

(* A decision moves the transaction to its first lock, or to its commit. *)
LEMMA FirstLockLeads ==
  ASSUME NEW src \in Scope, NEW dst \in Scope
  PROVE  /\ FirstLock(src, dst) \in {"source", "target", "commit"}
         /\ FirstLock(src, dst) = "source" => src \in Workspace
         /\ FirstLock(src, dst) = "target" => dst \in Workspace
BY DEF FirstLock, Scope

LEMMA DecideCredentialKeepsInvariant ==
  ASSUME SessionInvariant, NEW t \in Tx, DecideCredential(t)
  PROVE  SessionInvariant'
<1>1. TablesOK /\ WorldTyped /\ TxSafe
  BY InvariantParts
<1>2. tx[t] \in TxRecord /\ WellFormed(t) /\ DecisionHolds(t)
  BY <1>1 DEF WorldTyped, TxSafe
<1>3. CASE Abort(t)
  BY <1>3, AbortKeepsInvariant
<1>4. CASE ~Abort(t)
  <2>1. PICK w \in Scope :
          /\ tx[t].op \in {"issueCode", "exchange"} /\ tx[t].pc = "decide"
          /\ tx[t].epoch = epoch
          /\ tx' = [tx EXCEPT ![t].dst = w, ![t].pc = FirstLock(tx[t].src, w)]
          /\ UNCHANGED <<now, store, members, disabled, history>>
    BY <1>4 DEF DecideCredential, Resolvable, Scope
  <2> DEFINE p == FirstLock(tx[t].src, w)
             new == [tx[t] EXCEPT !.dst = w, !.pc = p]
  <2>2. /\ p \in {"source", "target", "commit"}
        /\ p = "source" => tx[t].src \in Workspace
        /\ p = "target" => w \in Workspace
    BY <1>2, FirstLockLeads DEF TxRecord
  <2> HIDE DEF p
  <2>3. new \in TxRecord
    BY <1>2, <2>2 DEF TxRecord
  <2>4. tx' = [tx EXCEPT ![t] = new]
    <3>1. tx \in [Tx -> TxRecord]
      BY <1>1 DEF WorldTyped
    <3>2. QED
      BY <1>2, <2>1, <3>1 DEF p, TxRecord
  <2>5. tx'[t] = new /\ new.op = tx[t].op /\ new.ref = tx[t].ref /\ new.dst = w
        /\ new.src = tx[t].src /\ new.tip = tx[t].tip /\ new.epoch = tx[t].epoch /\ new.pc = p
    BY <1>1, <1>2, <2>4 DEF WorldTyped, TxRecord
  <2>6. WellFormed(t)'
    BY <1>2, <2>1, <2>2, <2>5 DEF WellFormed, Rotations, Revoking, Memberwise, store
  <2>7. DecisionHolds(t)'
    BY <2>1, <2>5 DEF DecisionHolds, Decided, store, Rotations
  <2>8. HoldsUser(t)
    BY <2>1 DEF HoldsUser, TakesUserLock, UserLocked, Memberwise
  <2> HIDE DEF new
  <2>9. QED
    BY <2>1, <2>3, <2>4, <2>6, <2>7, <2>8, MoveKeepsInvariant
<1>5. QED
  BY <1>3, <1>4

LEMMA DecideRotationKeepsInvariant ==
  ASSUME SessionInvariant, NEW t \in Tx, DecideRotation(t)
  PROVE  SessionInvariant'
<1>1. TablesOK /\ WorldTyped /\ TxSafe
  BY InvariantParts
<1>2. tx[t] \in TxRecord /\ WellFormed(t) /\ DecisionHolds(t)
  BY <1>1 DEF WorldTyped, TxSafe
<1>3. CASE Abort(t)
  BY <1>3, AbortKeepsInvariant
<1>4. CASE ~Abort(t)
  <2> DEFINE r == tx[t].ref
             p == FirstLock(tx[t].src, tx[t].dst)
             new == [tx[t] EXCEPT !.pc = p]
  <2>1. /\ tx[t].op \in Rotations /\ tx[t].pc = "decide"
        /\ Live(r) /\ row[r].next = None
        /\ tx' = [tx EXCEPT ![t] = new]
        /\ UNCHANGED <<now, store, members, disabled, history>>
    BY <1>4 DEF DecideRotation, Goto, Live
  <2>2. /\ p \in {"source", "target", "commit"}
        /\ p = "source" => tx[t].src \in Workspace
        /\ p = "target" => tx[t].dst \in Workspace
    BY <1>2, FirstLockLeads DEF TxRecord
  <2>3. new \in TxRecord
    BY <1>2, <2>2 DEF TxRecord
  <2>4. tx'[t] = new /\ new.op = tx[t].op /\ new.ref = tx[t].ref /\ new.dst = tx[t].dst
        /\ new.src = tx[t].src /\ new.tip = tx[t].tip /\ new.epoch = tx[t].epoch /\ new.pc = p
    BY <1>1, <1>2, <2>1 DEF WorldTyped, TxRecord
  <2>5. WellFormed(t)'
    BY <1>2, <2>1, <2>2, <2>4 DEF WellFormed, Rotations, Revoking, Memberwise, store
  <2>6. tx[t].tip = None
    BY <1>2, <2>1 DEF DecisionHolds, Decided
  <2>7. DecisionHolds(t)'
    BY <2>1, <2>4, <2>6 DEF DecisionHolds, Decided, store, Rotations, Live, Exists
  <2>8. HoldsUser(t)
    BY <2>1 DEF HoldsUser, TakesUserLock, UserLocked, Memberwise, Rotations
  <2> HIDE DEF new
  <2>9. QED
    BY <2>1, <2>3, <2>5, <2>7, <2>8, MoveKeepsInvariant
<1>5. QED
  BY <1>3, <1>4

LEMMA RejectReplayKeepsInvariant ==
  ASSUME SessionInvariant, NEW t \in Tx, RejectReplay(t)
  PROVE  SessionInvariant'
<1> DEFINE r == tx[t].ref
           S == IF Broken(r) THEN RowId ELSE Family(r)
<1>1. HoldsUser(t)
  BY DEF RejectReplay, HoldsUser, TakesUserLock, UserLocked, Memberwise, Rotations
<1>2. r \in RowId
  BY InvariantParts DEF RejectReplay, TxSafe, WellFormed
<1>3. S = Family(r) \/ S = RowId
  OBVIOUS
<1>4. /\ Condemn(row, r, S) /\ End(t)
      /\ UNCHANGED <<now, code, members, disabled, resetAt, minted>>
  BY DEF RejectReplay
<1> HIDE DEF S
<1>5. QED
  BY <1>1, <1>2, <1>3, <1>4, CondemnKeepsInvariant

LEMMA DecideReplayKeepsInvariant ==
  ASSUME SessionInvariant, NEW t \in Tx, DecideReplay(t)
  PROVE  SessionInvariant'
<1>1. TablesOK /\ WorldTyped /\ TxSafe
  BY InvariantParts
<1>2. tx[t] \in TxRecord /\ WellFormed(t)
  BY <1>1 DEF WorldTyped, TxSafe
<1>3. CASE Abort(t)
  BY <1>3, AbortKeepsInvariant
<1>4. CASE ~Abort(t)
  <2> DEFINE r == tx[t].ref
             src(n) == IF tx[t].op = "switch" THEN None ELSE row[n].ws
  <2>1. /\ tx[t].op \in Rotations /\ tx[t].pc = "decide" /\ ~Broken(r)
        /\ r \in RowId
    BY <1>2 DEF DecideReplay, WellFormed
  <2>2. PICK n \in RowId :
          /\ IsTip(r, n) /\ Live(n)
          /\ tx' = [tx EXCEPT ![t].tip = n, ![t].at = row[r].revoked,
                              ![t].src = src(n), ![t].pc = FirstLock(src(n), tx[t].dst)]
          /\ UNCHANGED <<now, store, members, disabled, history>>
    BY <1>4 DEF DecideReplay
  <2> DEFINE p == FirstLock(src(n), tx[t].dst)
             new == [tx[t] EXCEPT !.tip = n, !.at = row[r].revoked, !.src = src(n), !.pc = p]
  <2>3. row[r] \in RowRecord /\ row[n] \in RowRecord
    BY <1>1, <2>1 DEF TablesOK, TablesTyped
  <2>4. row[n].fam = row[r].fam
    <3>1. PICK k \in 1 .. MaxDepth : Path(r)[k] = n
      BY <2>2 DEF IsTip
    <3>2. n # None
      BY ConstantsAssumption
    <3>3. <<row[n].fam, row[n].dom, row[n].mfa>> = <<row[r].fam, row[r].dom, row[r].mfa>>
      BY <2>1, <3>1, <3>2 DEF Broken
    <3>4. QED
      BY <3>3
  <2>5. src(n) \in Scope
    BY <2>3 DEF RowRecord, Scope
  <2>6. /\ p \in {"source", "target", "commit"}
        /\ p = "source" => src(n) \in Workspace
        /\ p = "target" => tx[t].dst \in Workspace
    BY <1>2, <2>5, FirstLockLeads DEF TxRecord
  <2> HIDE DEF p, src
  <2>7. new \in TxRecord
    BY <1>2, <2>3, <2>5, <2>6 DEF TxRecord, RowRecord
  <2>8. tx' = [tx EXCEPT ![t] = new]
    <3>1. tx \in [Tx -> TxRecord]
      BY <1>1 DEF WorldTyped
    <3>2. QED
      BY <1>2, <2>2, <3>1 DEF p, TxRecord
  <2>9. tx'[t] = new /\ new.op = tx[t].op /\ new.ref = tx[t].ref /\ new.dst = tx[t].dst
        /\ new.src = src(n) /\ new.tip = n /\ new.pc = p
    BY <1>1, <1>2, <2>8 DEF WorldTyped, TxRecord
  <2>10. WellFormed(t)'
    BY <1>2, <2>1, <2>2, <2>6, <2>9 DEF WellFormed, Rotations, Revoking, Memberwise, store
  <2>11. row[n].next = None /\ row[n].st = "row" /\ row[n].revoked = Never /\ n # None
    BY <2>2, ConstantsAssumption DEF IsTip, Live, Exists
  <2> HIDE DEF new
  <2>12. DecisionHolds(t)'
    <3>1. tx'[t].op \in Rotations /\ tx'[t].op # "exchange" /\ tx'[t].tip = n
          /\ tx'[t].ref = r /\ Decided(t)'
      BY <2>1, <2>6, <2>9 DEF Rotations, Decided
    <3>2. row' = row /\ n # None
      BY <2>2, <2>11 DEF store
    <3> HIDE DEF r
    <3>3. QED
      BY <2>4, <2>11, <3>1, <3>2 DEF DecisionHolds, Exists
  <2>13. HoldsUser(t)
    BY <2>1 DEF HoldsUser, TakesUserLock, UserLocked, Memberwise, Rotations
  <2>14. QED
    BY <2>2, <2>7, <2>8, <2>10, <2>12, <2>13, MoveKeepsInvariant
<1>5. QED
  BY <1>3, <1>4

----------------------------------------------------------------------------
(* Ending with writes. *)

LEMMA RefuseKeepsInvariant ==
  ASSUME SessionInvariant, NEW t \in Tx, Refuse(t),
         tx[t].op \in Rotations \cup {"issueCode", "exchange"}, Decided(t)
  PROVE  SessionInvariant'
<1>1. TablesOK /\ WorldTyped /\ TxSafe
  BY InvariantParts
<1> DEFINE r == tx[t].ref
<1>2. HoldsUser(t)
  BY DEF Decided, HoldsUser, TakesUserLock, UserLocked, Memberwise, Rotations
<1>3. CASE Abort(t)
  BY <1>3, AbortKeepsInvariant
<1>4. CASE ~Abort(t)
  <2>1. \/ /\ Condemn(row, r, Family(r)) /\ End(t)
           /\ UNCHANGED <<now, code, members, disabled, resetAt, minted>>
        \/ /\ row' = RevokeIn(row, Family(r)) /\ End(t)
           /\ UNCHANGED <<now, code, epoch, members, disabled, history>>
    BY <1>4 DEF Refuse
  <2>2. CASE row' = RevokeIn(row, Family(r)) /\ End(t)
             /\ UNCHANGED <<now, code, epoch, members, disabled, history>>
    <3>1. TablesOK'
      <4>1. Revoked
        BY <2>2 DEF Revoked, Family
      <4>2. QED
        BY <4>1, <1>1, RevokedKeepsTables DEF WorldTyped
    <3>2. \A s \in RowId : row[s].st # "none" => row'[s].st # "none"
      BY <2>2, <1>1 DEF RevokeIn, TablesOK, TablesTyped, RowRecord
    <3>3. QED
      BY <1>1, <1>2, <2>2, <3>1, <3>2, EndKeepsInvariant DEF WorldTyped, members
  <2>3. CASE Condemn(row, r, Family(r)) /\ End(t)
             /\ UNCHANGED <<now, code, members, disabled, resetAt, minted>>
    <3>1. CASE r \in RowId
      BY <2>3, <3>1, <1>2, CondemnKeepsInvariant
    <3>2. CASE r \notin RowId
      <4>1. tx[t].op \notin Rotations
        BY <3>2, <1>1 DEF TxSafe, WellFormed
      <4>2. tx[t].tip # None
        BY <1>4 DEF Refuse
      <4>3. QED
        BY <4>1, <4>2, <1>1 DEF TxSafe, WellFormed
    <3>3. QED
      BY <3>1, <3>2
  <2>4. QED
    BY <2>1, <2>2, <2>3
<1>5. QED
  BY <1>3, <1>4

LEMMA CommitCodeKeepsInvariant ==
  ASSUME SessionInvariant, NEW t \in Tx, CommitCode(t)
  PROVE  SessionInvariant'
<1>1. TablesOK /\ WorldTyped
  BY InvariantParts
<1> DEFINE new == [st |-> "code", dom |-> tx[t].dom, ws |-> tx[t].src,
                   mfa |-> tx[t].mfa, epoch |-> tx[t].epoch,
                   expires |-> now + CodeTtl, used |-> FALSE]
<1>2. new \in CodeRecord
  <2>1. tx[t] \in TxRecord /\ now + CodeTtl \in Nat
    BY <1>1, ConstantsAssumption DEF WorldTyped, Time
  <2>2. QED
    BY <2>1 DEF TxRecord, CodeRecord
<1>3. CodeIssued
  <2>1. PICK c \in CodeId : code[c].st = "none" /\ code' = [code EXCEPT ![c] = new]
    BY DEF CommitCode
  <2> HIDE DEF new
  <2>2. QED
    BY <1>2, <2>1 DEF CommitCode, CodeIssued
<1>4. TablesOK'
  BY <1>1, <1>3, CodeIssuedKeepsTables
<1>5. QED
  BY <1>1, <1>4, EndKeepsInvariant DEF CommitCode, WorldTyped, members

LEMMA CommitExchangeKeepsInvariant ==
  ASSUME SessionInvariant, NEW t \in Tx, CommitExchange(t)
  PROVE  SessionInvariant'
<1>1. TablesOK /\ WorldTyped /\ TxSafe
  BY InvariantParts
<1> DEFINE c == tx[t].ref
           w == IF tx[t].dst # None THEN tx[t].dst ELSE tx[t].src
<1>2. tx[t].op = "exchange" /\ tx[t].pc = "commit"
  BY DEF CommitExchange
<1>3. tx[t] \in TxRecord /\ c \in CodeId /\ tx[t].epoch = epoch
  BY <1>1, <1>2 DEF WorldTyped, TxSafe, WellFormed, DecisionHolds, Decided
<1>4. CASE Abort(t)
  BY <1>4, AbortKeepsInvariant
<1>5. CASE ~Abort(t)
  <2>1. PICK n \in RowId, ttl \in SessionTtls :
          /\ row[n].st = "none"
          /\ row' = [row EXCEPT ![n] =
               [BlankRow EXCEPT !.st = "row", !.fam = n, !.dom = tx[t].dom,
                  !.ws = w, !.mfa = tx[t].mfa, !.created = now,
                  !.expires = now + ttl, !.auth = tx[t].epoch, !.code = c]]
          /\ code' = [code EXCEPT ![c].used = TRUE]
          /\ minted' = [minted EXCEPT ![n] = epoch]
          /\ End(t)
          /\ UNCHANGED <<now, epoch, members, disabled, resetAt, bumps>>
    BY <1>5 DEF CommitExchange
  <2>2. code[c].st = "code" /\ ~code[c].used
    BY <1>5 DEF CommitExchange, Claimable
  <2> DEFINE new == [BlankRow EXCEPT !.st = "row", !.fam = n, !.dom = tx[t].dom,
                  !.ws = w, !.mfa = tx[t].mfa, !.created = now,
                  !.expires = now + ttl, !.auth = tx[t].epoch, !.code = c]
  <2>3. /\ new \in RowRecord
        /\ new.st = "row" /\ new.fam = n /\ new.next = None /\ new.revoked = Never
        /\ new.sec = FALSE /\ new.auth = epoch /\ new.code = c
    <3>1. now + ttl \in Nat /\ now \in Time /\ Never \in Moment
      BY <1>1, ConstantsAssumption DEF WorldTyped, Time, Moment
    <3>2. w \in Scope
      BY <1>3 DEF TxRecord
    <3> HIDE DEF w
    <3>3. QED
      BY <1>3, <3>1, <3>2 DEF BlankRow, RowRecord, TxRecord
  <2>4. Opened
    <3>1. row' = [row EXCEPT ![n] = new]
      BY <2>1
    <3> HIDE DEF new
    <3>2. QED
      BY <1>3, <2>1, <2>2, <2>3, <3>1 DEF Opened
  <2>5. TablesOK'
    BY <1>1, <2>4, OpenedKeepsTables DEF WorldTyped
  <2>6. HoldsUser(t)
    BY <1>2 DEF HoldsUser, TakesUserLock, UserLocked, Memberwise
  <2>7. \A s \in RowId : row[s].st # "none" => row'[s].st # "none"
    BY <2>1, <1>1 DEF TablesOK, TablesTyped
  <2>8. QED
    BY <1>1, <2>1, <2>5, <2>6, <2>7, EndKeepsInvariant DEF WorldTyped, members
<1>6. QED
  BY <1>4, <1>5

LEMMA RotateKeepsInvariant ==
  ASSUME SessionInvariant, NEW t \in Tx, Rotate(t)
  PROVE  SessionInvariant'
<1>1. TablesOK /\ WorldTyped /\ TxSafe
  BY InvariantParts
<1> DEFINE r == tx[t].ref
<1>2. tx[t].op \in Rotations /\ tx[t].pc = "commit" /\ tx[t].tip = None
  BY DEF Rotate
<1>3. /\ tx[t] \in TxRecord /\ r \in RowId
      /\ row[r].revoked = Never /\ row[r].next = None
      /\ Exists(r) \/ row[r].expires < now
  BY <1>1, <1>2 DEF WorldTyped, TxSafe, WellFormed, DecisionHolds, Decided
<1>4. row[r] \in RowRecord /\ now \in Time /\ now \in Nat
  BY <1>1, <1>3, ConstantsAssumption DEF TablesOK, TablesTyped, WorldTyped, Time
<1>5. CASE Abort(t)
  BY <1>5, AbortKeepsInvariant
<1>6. CASE ~Abort(t)
  <2>1. ~(row[r].expires <= now)
    BY <1>6 DEF Rotate
  <2>2. Live(r)
    BY <1>3, <1>4, <2>1 DEF Live, RowRecord
  <2> DEFINE new == Successor(r, Target(t))
  <2>3. PICK n \in RowId :
          /\ row[n].st = "none"
          /\ row' = Superseded([row EXCEPT ![n] = new], r, n)
          /\ minted' = [minted EXCEPT ![row[r].fam] = epoch]
          /\ UNCHANGED <<epoch, bumps>>
          /\ End(t)
          /\ UNCHANGED <<now, code, members, disabled, resetAt>>
    BY <1>3, <1>6, <2>2 DEF Rotate
  <2>4. /\ new \in RowRecord /\ new.st = "row" /\ new.fam = row[r].fam /\ new.next = None
        /\ new.revoked = Never /\ new.sec = FALSE
        /\ new.auth = row[r].auth /\ new.code = row[r].code
    <3>1. Target(t) \in Scope /\ Never \in Moment
      BY <1>3, <1>4 DEF Target, TxRecord, RowRecord, Moment
    <3>2. now + Longest(row[r].expires - row[r].created, MinTtl) \in Nat
      <4>1. row[r].expires \in Nat /\ row[r].created \in Nat /\ MinTtl \in Nat
        BY <1>4, ConstantsAssumption DEF RowRecord, Time
      <4>2. QED
        BY <4>1, <1>4 DEF Longest
    <3>3. row[r].st = "row"
      BY <2>2 DEF Live, Exists
    <3> DEFINE until == now + Longest(row[r].expires - row[r].created, MinTtl)
    <3>4. new = [row[r] EXCEPT !.parent = r, !.next = None, !.ws = Target(t),
                   !.created = now, !.revoked = Never, !.sec = FALSE, !.expires = until]
      BY DEF Successor
    <3> HIDE DEF r, until, new
    <3>5. row[r] \in RowRecord /\ r \in RowId /\ now \in Time /\ until \in Nat
      BY <1>3, <1>4, <3>2 DEF until
    <3>6. PICK x \in RowRecord : x = row[r]
      BY <3>5
    <3>7. new = [x EXCEPT !.parent = r, !.next = None, !.ws = Target(t),
                   !.created = now, !.revoked = Never, !.sec = FALSE, !.expires = until]
      BY <3>4, <3>6
    <3>8. /\ new.st = x.st /\ new.fam = x.fam /\ new.auth = x.auth /\ new.code = x.code
          /\ new.next = None /\ new.revoked = Never /\ new.sec = FALSE
      BY <3>7 DEF RowRecord
    <3>9. new \in RowRecord
      BY <3>1, <3>5, <3>7 DEF RowRecord
    <3>10. QED
      BY <3>3, <3>6, <3>8, <3>9
  <2> HIDE DEF new
  <2>5. row' = [row EXCEPT ![n] = new, ![r].revoked = now, ![r].next = n]
    BY <2>3 DEF Superseded
  <2>6. Rotated
    BY <1>3, <2>2, <2>3, <2>4, <2>5 DEF Rotated
  <2>7. TablesOK'
    BY <1>1, <2>6, RotatedKeepsTables DEF WorldTyped
  <2>8. HoldsUser(t)
    BY <1>2 DEF HoldsUser, TakesUserLock, UserLocked, Memberwise, Rotations
  <2>9. \A s \in RowId : row[s].st # "none" => row'[s].st # "none"
    <3>1. row \in [RowId -> RowRecord] /\ r # n
      BY <1>1, <2>2, <2>3 DEF TablesOK, TablesTyped, Live, Exists
    <3>2. \A s \in RowId \ {n} : row'[s].st = row[s].st
      BY <1>3, <2>5, <3>1 DEF RowRecord
    <3>3. QED
      BY <2>3, <3>2
  <2>10. QED
    BY <1>1, <2>3, <2>7, <2>8, <2>9, EndKeepsInvariant DEF WorldTyped, members
<1>7. QED
  BY <1>5, <1>6

LEMMA AnswerReplayKeepsInvariant ==
  ASSUME SessionInvariant, NEW t \in Tx, AnswerReplay(t)
  PROVE  SessionInvariant'
<1>1. TablesOK /\ WorldTyped /\ TxSafe
  BY InvariantParts
<1> DEFINE r == tx[t].ref
           n == tx[t].tip
<1>2. tx[t].op \in Rotations /\ tx[t].pc = "commit" /\ n # None
  BY DEF AnswerReplay
<1>3. CASE Refuse(t)
  BY <1>2, <1>3, RefuseKeepsInvariant DEF Decided
<1>4. CASE Abort(t)
  BY <1>4, AbortKeepsInvariant
<1>5. CASE ~Refuse(t) /\ ~Abort(t)
  <2>1. /\ ~(row[n].expires <= now)
        /\ minted' = [minted EXCEPT ![row[r].fam] = epoch] /\ End(t)
        /\ UNCHANGED <<now, store, members, disabled, resetAt, bumps>>
    BY <1>5 DEF AnswerReplay
  <2>2. n \in RowId /\ now \in Nat
    BY <1>1, <1>2, ConstantsAssumption DEF WorldTyped, TxRecord, Time
  <2>3. row[n].fam = row[r].fam /\ row[n].revoked = Never /\ (Exists(n) \/ row[n].expires < now)
    BY <1>1, <1>2 DEF TxSafe, DecisionHolds
  <2>4. Live(n)
    <3>1. row[n].expires \in Nat
      BY <1>1, <2>2 DEF TablesOK, TablesTyped, RowRecord
    <3>2. QED
      BY <2>1, <2>2, <2>3, <3>1 DEF Live
  <2>5. TablesOK'
    <3>1. Answered
      BY <2>1, <2>2, <2>3, <2>4 DEF Answered
    <3>2. QED
      BY <1>1, <3>1, AnsweredKeepsTables
  <2>6. QED
    BY <1>1, <2>1, <2>5, EndKeepsInvariant DEF WorldTyped, members, store
<1>6. QED
  BY <1>3, <1>4, <1>5

LEMMA LogoutKeepsInvariant ==
  ASSUME SessionInvariant, NEW t \in Tx, Logout(t)
  PROVE  SessionInvariant'
<1> DEFINE r == tx[t].ref
<1>1. HoldsUser(t)
  BY DEF Logout, HoldsUser, TakesUserLock, UserLocked, Memberwise
<1>2. r \in RowId
  BY InvariantParts DEF Logout, TxSafe, WellFormed
<1>3. /\ Condemn(row, r, Family(r)) /\ End(t)
      /\ UNCHANGED <<now, code, members, disabled, resetAt, minted>>
  BY DEF Logout
<1>4. QED
  BY <1>1, <1>2, <1>3, CondemnKeepsInvariant

LEMMA ResetKeepsInvariant ==
  ASSUME SessionInvariant, NEW t \in Tx, Reset(t)
  PROVE  SessionInvariant'
<1>1. TablesOK /\ WorldTyped
  BY InvariantParts
<1>2. HoldsUser(t)
  BY DEF Reset, HoldsUser, TakesUserLock, UserLocked, Memberwise
<1>3. TablesOK'
  <2>1. AllRevoked
    BY DEF Reset, AllRevoked
  <2>2. QED
    BY <1>1, <2>1, AllRevokedKeepsTables DEF WorldTyped
<1>4. \A s \in RowId : row[s].st # "none" => row'[s].st # "none"
  BY <1>1 DEF Reset, RevokeIn, TablesOK, TablesTyped, RowRecord
<1>5. QED
  BY <1>1, <1>2, <1>3, <1>4, EndKeepsInvariant DEF Reset, WorldTyped, members

(* Membership changes revoke some sessions under the user lock ... *)
LEMMA RevokingKeepsInvariant ==
  ASSUME SessionInvariant, NEW t \in Tx,
         Deactivate(t) \/ RemoveMember(t) \/ RemoveTeamMember(t)
  PROVE  SessionInvariant'
<1>1. TablesOK /\ WorldTyped
  BY InvariantParts
<1>2. HoldsUser(t)
  BY DEF Deactivate, RemoveMember, RemoveTeamMember, Locked, HoldsUser, TakesUserLock,
         UserLocked, Memberwise
<1>3. /\ End(t) /\ UNCHANGED <<now, code, epoch, disabled, history>>
      /\ orgSt' \in [Org -> Status] /\ teamSt' \in [Workspace -> Status]
  BY <1>1 DEF Deactivate, RemoveMember, RemoveTeamMember, MoveTeams, WorldTyped, Status
<1>4. PICK S \in SUBSET RowId : row' = RevokeIn(row, S)
  BY DEF Deactivate, RemoveMember, RemoveTeamMember, SessionsOf
<1>5. TablesOK'
  <2>1. Revoked
    BY <1>3, <1>4 DEF Revoked
  <2>2. QED
    BY <1>1, <2>1, RevokedKeepsTables DEF WorldTyped
<1>6. \A s \in RowId : row[s].st # "none" => row'[s].st # "none"
  BY <1>1, <1>4 DEF RevokeIn, TablesOK, TablesTyped, RowRecord
<1>7. QED
  BY <1>1, <1>2, <1>3, <1>5, <1>6, EndKeepsInvariant DEF WorldTyped

(* ... or touch no session at all. *)
LEMMA MemberwiseKeepsInvariant ==
  ASSUME SessionInvariant, NEW t \in Tx,
         Reactivate(t) \/ AddMember(t) \/ AddTeamMember(t) \/ DeleteTeam(t) \/ DeleteOrg(t)
  PROVE  SessionInvariant'
<1>1. TablesOK /\ WorldTyped
  BY InvariantParts
<1>2. /\ End(t) /\ UNCHANGED <<now, store, disabled, history>>
      /\ orgSt' \in [Org -> Status] /\ teamSt' \in [Workspace -> Status]
  <2>1. CASE Reactivate(t)
    BY <1>1, <2>1 DEF Reactivate, MoveTeams, WorldTyped, Status
  <2>2. CASE AddMember(t)
    BY <1>1, <2>2 DEF AddMember, MoveTeams, WorldTyped, Status
  <2>3. CASE AddTeamMember(t)
    BY <1>1, <2>3 DEF AddTeamMember, MoveTeams, WorldTyped, Status
  <2>4. CASE DeleteTeam(t)
    BY <1>1, <2>4 DEF DeleteTeam, WorldTyped, Status
  <2>5. CASE DeleteOrg(t)
    BY <1>1, <2>5 DEF DeleteOrg, MoveTeams, WorldTyped, Status
  <2>6. QED
    BY <2>1, <2>2, <2>3, <2>4, <2>5
<1>3. TablesOK'
  BY <1>1, <1>2, StillKeepsTables DEF Still
<1>4. QED
  BY <1>1, <1>2, <1>3, EndKeepsInvariant DEF WorldTyped, store

LEMMA FinishKeepsInvariant ==
  ASSUME SessionInvariant, NEW t \in Tx, Finish(t)
  PROVE  SessionInvariant'
<1>1. CASE RefuseScope(t) \/ RefusePolicy(t)
  <2>1. CASE RefusePolicy(t)
    BY <2>1, RefuseKeepsInvariant DEF RefusePolicy, Decided
  <2>2. CASE RefuseScope(t)
    BY <2>2, RefuseKeepsInvariant DEF RefuseScope, Decided, Issuing
  <2>3. QED
    BY <1>1, <2>1, <2>2
<1>2. CASE RefuseMembership(t)
  BY <1>2, AbortKeepsInvariant DEF RefuseMembership
<1>3. CASE DecideCredential(t) \/ DecideRotation(t) \/ RejectReplay(t) \/ DecideReplay(t)
  BY <1>3, DecideCredentialKeepsInvariant, DecideRotationKeepsInvariant,
     RejectReplayKeepsInvariant, DecideReplayKeepsInvariant
<1>4. CASE CommitCode(t) \/ CommitExchange(t) \/ Rotate(t) \/ AnswerReplay(t)
  BY <1>4, CommitCodeKeepsInvariant, CommitExchangeKeepsInvariant,
     RotateKeepsInvariant, AnswerReplayKeepsInvariant
<1>5. CASE Logout(t) \/ Reset(t)
  BY <1>5, LogoutKeepsInvariant, ResetKeepsInvariant
<1>6. CASE Deactivate(t) \/ RemoveMember(t) \/ RemoveTeamMember(t)
  BY <1>6, RevokingKeepsInvariant
<1>7. CASE Reactivate(t) \/ AddMember(t) \/ AddTeamMember(t) \/ DeleteTeam(t) \/ DeleteOrg(t)
  BY <1>7, MemberwiseKeepsInvariant
<1>8. QED
  BY <1>1, <1>2, <1>3, <1>4, <1>5, <1>6, <1>7 DEF Finish

----------------------------------------------------------------------------
(* The surroundings move under every transaction's feet. *)

LEMMA EnvironmentKeepsInvariant ==
  ASSUME SessionInvariant, Environment
  PROVE  SessionInvariant'
<1>1. TablesOK /\ WorldTyped /\ TxSafe
  BY InvariantParts
<1>2. tx' = tx /\ epoch' = epoch /\ UNCHANGED members
  BY DEF Environment, SetDomainStatus, Prune, Tick, store
<1>3. UserMutex' /\ \A t \in Tx : HoldsUser(t)' <=> HoldsUser(t)
  BY <1>1, <1>2 DEF TxSafe, UserMutex, HoldsUser, TakesUserLock
<1>4. CASE Prune
  <2>0. now \in Nat /\ Retention \in Nat /\ now' = now /\ disabled' = disabled
    BY <1>1, <1>4, ConstantsAssumption DEF WorldTyped, Time, Prune
  <2>1. Pruned
    <3> DEFINE old == {r \in RowId : Exists(r) /\ row[r].expires < now - Retention}
               gone == {c \in CodeId : code[c].st = "code" /\ code[c].expires < now}
    <3>1. \A r \in old : Exists(r) /\ row[r].expires < now
      <4>1. \A r \in RowId : row[r].expires \in Nat
        BY <1>1 DEF TablesOK, TablesTyped, RowRecord
      <4>2. QED
        BY <2>0, <4>1
    <3>2. \A c \in gone : code[c].st = "code"
      OBVIOUS
    <3>3. /\ row' = [r \in RowId |-> IF r \in old THEN [row[r] EXCEPT !.st = "pruned"] ELSE row[r]]
          /\ code' = [c \in CodeId |-> IF c \in gone THEN [code[c] EXCEPT !.st = "pruned"] ELSE code[c]]
          /\ UNCHANGED <<epoch, history>>
      BY <1>4 DEF Prune
    <3>4. old \in SUBSET RowId /\ gone \in SUBSET CodeId
      OBVIOUS
    <3> HIDE DEF old, gone
    <3>5. QED
      BY <3>1, <3>2, <3>3, <3>4 DEF Pruned
  <2>2. TablesOK'
    BY <1>1, <2>1, PrunedKeepsTables
  <2>3. WorldTyped'
    BY <1>1, <1>2, <2>0 DEF WorldTyped, members
  <2>4. \A r \in RowId :
          /\ row'[r].st # "none" <=> row[r].st # "none"
          /\ row'[r].fam = row[r].fam /\ row'[r].revoked = row[r].revoked
          /\ row'[r].next = row[r].next /\ row'[r].expires = row[r].expires
          /\ Exists(r) => Exists(r)' \/ row[r].expires < now
    <3>1. PICK old \in SUBSET RowId :
            /\ \A r \in old : Exists(r) /\ row[r].expires < now
            /\ row' = [r \in RowId |-> IF r \in old THEN [row[r] EXCEPT !.st = "pruned"] ELSE row[r]]
      BY <2>1 DEF Pruned
    <3>2. \A r \in RowId : row[r] \in RowRecord
      BY <1>1 DEF TablesOK, TablesTyped
    <3>3. \A r \in RowId : row'[r] = IF r \in old THEN [row[r] EXCEPT !.st = "pruned"] ELSE row[r]
      BY <3>1
    <3>4. QED
      BY <3>1, <3>2, <3>3 DEF RowRecord, Exists
  <2>5. ASSUME NEW t \in Tx
        PROVE  WellFormed(t)' /\ DecisionHolds(t)'
    <3>1. tx[t] \in TxRecord /\ WellFormed(t) /\ DecisionHolds(t)
      BY <1>1 DEF WorldTyped, TxSafe
    <3>2. WellFormed(t)'
      BY <1>2, <2>4, <3>1 DEF WellFormed
    <3>3. tx[t].op \in Rotations => tx[t].ref \in RowId
      BY <3>1 DEF WellFormed
    <3>4. tx[t].tip # None => tx[t].tip \in RowId
      BY <3>1 DEF TxRecord
    <3>5. DecisionHolds(t)'
      BY <1>2, <2>0, <2>4, <3>1, <3>3, <3>4 DEF DecisionHolds, Decided
    <3>6. QED
      BY <3>2, <3>5
  <2>6. QED
    BY <1>3, <2>2, <2>3, <2>5, InvariantPartsNext DEF TxSafe
<1>5. CASE Tick \/ \E d \in Domain : SetDomainStatus(d)
  <2>1. /\ UNCHANGED <<store, members, history>> /\ disabled' \subseteq Domain
        /\ now' \in Time /\ now' >= now /\ now \in Nat /\ now' \in Nat
    BY <1>1, <1>5, ConstantsAssumption DEF Tick, SetDomainStatus, WorldTyped, Time
  <2>2. TablesOK' /\ WorldTyped'
    BY <1>1, <1>2, <2>1, StillKeepsTables DEF Still, WorldTyped, members
  <2>3. \A r \in RowId : row[r].expires \in Nat
    BY <1>1 DEF TablesOK, TablesTyped, RowRecord
  <2>4. row' = row /\ code' = code
    BY <2>1 DEF store
  <2>5. ASSUME NEW t \in Tx
        PROVE  WellFormed(t)' /\ DecisionHolds(t)'
    <3>1. tx[t] \in TxRecord /\ WellFormed(t) /\ DecisionHolds(t)
      BY <1>1 DEF WorldTyped, TxSafe
    <3>2. tx[t].op \in Rotations => tx[t].ref \in RowId
      BY <3>1 DEF WellFormed
    <3>3. tx[t].tip # None => tx[t].tip \in RowId
      BY <3>1 DEF TxRecord
    <3>4. \A r \in RowId : row[r].expires < now => row[r].expires < now'
      BY <2>1, <2>3
    <3>5. QED
      BY <1>2, <2>4, <3>1, <3>2, <3>3, <3>4 DEF WellFormed, DecisionHolds, Decided, Exists
  <2>6. QED
    BY <1>3, <2>2, <2>5, InvariantPartsNext DEF TxSafe
<1>6. QED
  BY <1>4, <1>5 DEF Environment

----------------------------------------------------------------------------
(* The invariant. *)

LEMMA InitInvariant == Init => SessionInvariant
<1> SUFFICES ASSUME Init PROVE SessionInvariant
  OBVIOUS
<1> USE DEF Init
<1>1. BlankRow \in RowRecord /\ BlankCode \in CodeRecord
  BY ConstantsAssumption DEF BlankRow, BlankCode, RowRecord, CodeRecord, Scope, Moment, Time, Never
<1>2. \A r \in RowId : row[r] = BlankRow /\ row[r].st = "none" /\ ~row[r].sec /\ row[r].code = None
  BY DEF BlankRow
<1>3. TablesOK
  <2>1. TablesTyped
    BY <1>1 DEF TablesTyped, Never
  <2>2. FamiliesSafe
    BY <1>2 DEF FamiliesSafe, UnusedRowsBlank, FamiliesNamed, BumpsCondemn, EpochLeads,
                NoSessionOutlivesReset, OneLiveTipPerFamily, CondemnedFamilyIsDead,
                OneEpochBumpPerFamily, NoTokenOutlivesItsFamily, CodeOpensOneSession,
                Live, Exists, Never
  <2>3. QED
    BY <2>1, <2>2 DEF TablesOK
<1>4. WorldTyped
  BY IdleTyped, ConstantsAssumption DEF WorldTyped, Status, Time
<1>5. TxSafe
  BY DEF TxSafe, WellFormed, DecisionHolds, UserMutex, HoldsUser, UserLocked, Idle,
         Rotations, Revoking, Memberwise
<1>6. QED
  BY <1>3, <1>4, <1>5, InvariantParts

LEMMA NextInvariant == SessionInvariant /\ [Next]_vars => SessionInvariant'
<1> SUFFICES ASSUME SessionInvariant, [Next]_vars PROVE SessionInvariant'
  OBVIOUS
<1>1. CASE Environment
  BY <1>1, EnvironmentKeepsInvariant
<1>2. ASSUME NEW t \in Tx, Start(t) \/ Acquire(t) \/ Finish(t) \/ Crash(t)
      PROVE  SessionInvariant'
  BY <1>2, StartKeepsInvariant, AcquireKeepsInvariant, FinishKeepsInvariant,
     AbortKeepsInvariant DEF Crash
<1>3. CASE UNCHANGED vars
  <2>1. TablesOK' /\ WorldTyped' /\ TxSafe'
    <3>1. TablesOK /\ WorldTyped /\ TxSafe
      BY InvariantParts
    <3>2. TablesOK'
      BY <1>3, <3>1, StillKeepsTables DEF vars, Still
    <3>3. WorldTyped' /\ TxSafe'
      BY <1>3, <3>1 DEF vars, store, members, WorldTyped, TxSafe, WellFormed, DecisionHolds,
                        Decided, Exists, UserMutex, HoldsUser, TakesUserLock
    <3>4. QED
      BY <3>2, <3>3
  <2>2. QED
    BY <2>1, InvariantPartsNext
<1>4. QED
  BY <1>1, <1>2, <1>3 DEF Next

(* The strengthened invariant holds in every reachable state.              *)
THEOREM SessionSafety == Spec => []SessionInvariant
<1>1. QED
  BY InitInvariant, NextInvariant, PTL DEF Spec

(* Every variable keeps its type: no row, code or transaction ever leaves  *)
(* the states the schema and the services know.                            *)
THEOREM TypeCorrect == Spec => []TypeOK
<1>1. SessionInvariant => TypeOK
  BY DEF SessionInvariant
<1>2. QED
  BY <1>1, SessionSafety, PTL

(* revokeAllRefreshTokensForUser closes every session, for any number of   *)
(* devices, rotations and exchanges in flight.                             *)
THEOREM ResetClosesEverySession == Spec => []NoSessionOutlivesReset
<1>1. SessionInvariant => NoSessionOutlivesReset
  BY DEF SessionInvariant
<1>2. QED
  BY <1>1, SessionSafety, PTL

(* exchangeRefreshToken never leaves two live tokens in one family.        *)
THEOREM RotationNeverForks == Spec => []OneLiveTipPerFamily
<1>1. SessionInvariant => OneLiveTipPerFamily
  BY DEF SessionInvariant
<1>2. QED
  BY <1>1, SessionSafety, PTL

(* revokeFamilyForSecurity condemns a family once: no token of it is live  *)
(* again, and however often it is condemned or its old tokens presented,   *)
(* the user's global epoch moves once.                                     *)
THEOREM CondemnationIsFinal == Spec => []CondemnedForGood
<1>1. SessionInvariant => CondemnedForGood
  BY DEF SessionInvariant, CondemnedForGood
<1>2. QED
  BY <1>1, SessionSafety, PTL

(* Access tokens die with their session: the last tv signed for a family   *)
(* that was condemned, or opened before the last reset, is below the       *)
(* current epoch.                                                          *)
THEOREM AccessTokensDieWithTheirFamily == Spec => []NoTokenOutlivesItsFamily
<1>1. SessionInvariant => NoTokenOutlivesItsFamily
  BY DEF SessionInvariant
<1>2. QED
  BY <1>1, SessionSafety, PTL

(* consumeAuthorizationCode lets a code open one session.                  *)
THEOREM CodesAreSingleUse == Spec => []CodeOpensOneSession
<1>1. SessionInvariant => CodeOpensOneSession
  BY DEF SessionInvariant
<1>2. QED
  BY <1>1, SessionSafety, PTL

----------------------------------------------------------------------------
(***************************************************************************)
(* The scopes of sessions and the membership locks, the chains a replay    *)
(* walks, and that the whole implements SessionFamilies.                   *)
(*                                                                         *)
(* A step leaves every row in its place, opens one family or replaces one  *)
(* row by its successor.  That is shown first, action by action; what      *)
(* SessionInvariant does not say of rows, scopes and locks is then         *)
(* preserved by each of the three.                                         *)
(***************************************************************************)

(* What a step does to the rows. *)

(* What is never written again once a row was inserted. *)
SameRow(r) ==
  /\ row'[r].fam = row[r].fam /\ row'[r].parent = row[r].parent
  /\ row'[r].dom = row[r].dom /\ row'[r].ws = row[r].ws /\ row'[r].mfa = row[r].mfa
  /\ row'[r].created = row[r].created /\ row'[r].expires = row[r].expires

(* Rows may be revoked, and those that expired before an instant pruned.   *)
RowsStay ==
  \E h \in Int : \A r \in RowId :
    /\ SameRow(r) /\ row'[r].next = row[r].next
    /\ row'[r].st = "none" <=> row[r].st = "none"
    /\ Exists(r)' <=> Exists(r) /\ row[r].expires >= h
    /\ Live(r)' => Live(r)

(* The code exchange of t inserts the first row of a family. *)
Opens(t) ==
  \E n \in RowId, new \in RowRecord :
    /\ tx[t].op = "exchange" /\ tx[t].pc = "commit"
    /\ row[n].st = "none" /\ row' = [row EXCEPT ![n] = new]
    /\ new.st = "row" /\ new.fam = n /\ new.next = None /\ new.sec = FALSE
    /\ new.dom = tx[t].dom
    /\ new.ws = IF tx[t].dst # None THEN tx[t].dst ELSE tx[t].src
    /\ new.mfa = tx[t].mfa /\ MfaSufficient(new.ws, new.mfa)
    /\ new.created = now /\ new.revoked = Never /\ UNCHANGED <<epoch, bumps>>

(* The rotation of t replaces a live row by its successor. *)
Replaces(t) ==
  LET r == tx[t].ref IN
  \E n \in RowId, new \in RowRecord :
    /\ tx[t].op \in Rotations /\ tx[t].pc = "commit" /\ tx[t].tip = None
    /\ r \in RowId /\ Live(r) /\ row[r].next = None /\ row[r].expires > now
    /\ row[n].st = "none"
    /\ row' = [row EXCEPT ![n] = new, ![r].revoked = now, ![r].next = n]
    /\ new.st = "row" /\ new.fam = row[r].fam /\ new.next = None /\ new.sec = FALSE
    /\ new.parent = r /\ new.dom = row[r].dom /\ new.mfa = row[r].mfa
    /\ new.ws = Target(t)
    /\ tx[t].op = "switch" => MfaSufficient(tx[t].dst, new.mfa)
    /\ new.created = now /\ new.revoked = Never
    /\ new.expires = now + Longest(row[r].expires - row[r].created, MinTtl)
    /\ UNCHANGED <<epoch, bumps>>

LEMMA UnchangedRowsStay ==
  ASSUME TablesOK, row' = row
  PROVE  RowsStay
<1>1. \A r \in RowId : row[r].expires >= 0
  BY DEF TablesOK, TablesTyped, RowRecord
<1>2. 0 \in Int
  OBVIOUS
<1>3. QED
  BY <1>1, <1>2 DEF RowsStay, SameRow, Exists, Live

LEMMA RevokedRowsStay ==
  ASSUME TablesOK, Revoked \/ AllRevoked
  PROVE  RowsStay
<1>1. PICK S \in SUBSET RowId : row' = RevokeIn(row, S)
  BY DEF Revoked, AllRevoked
<1>2. \A r \in RowId : row[r].expires >= 0
  BY DEF TablesOK, TablesTyped, RowRecord
<1>3. \A r \in RowId :
        /\ SameRow(r) /\ row'[r].next = row[r].next /\ row'[r].st = row[r].st
        /\ Live(r)' => Live(r)
  BY <1>1 DEF TablesOK, TablesTyped, RowRecord, RevokeIn, SameRow, Live, Exists
<1>4. QED
  BY <1>2, <1>3, 0 \in Int DEF RowsStay, Exists

LEMMA CondemnedRowsStay ==
  ASSUME TablesOK, now \in Time, Condemned
  PROVE  RowsStay
<1>1. PICK S \in SUBSET RowId : row' = CondemnIn(row, S)
  BY DEF Condemned
<1>2. \A r \in RowId : row[r].expires >= 0
  BY DEF TablesOK, TablesTyped, RowRecord
<1>3. now # Never
  BY ConstantsAssumption DEF Time, Never
<1>4. ASSUME NEW r \in RowId
      PROVE  /\ SameRow(r) /\ row'[r].next = row[r].next /\ row'[r].st = row[r].st
             /\ Live(r)' => Live(r)
  <2>1. row[r] \in RowRecord
    BY DEF TablesOK, TablesTyped
  <2>2. row'[r] = row[r] \/ row'[r] = [row[r] EXCEPT !.revoked = now, !.sec = TRUE]
    BY <1>1 DEF CondemnIn
  <2>3. QED
    BY <1>3, <2>1, <2>2 DEF RowRecord, SameRow, Live, Exists
<1>5. QED
  BY <1>2, <1>4, 0 \in Int DEF RowsStay, Exists

LEMMA PruneRowsStay ==
  ASSUME TablesOK, now \in Time, Prune
  PROVE  RowsStay
<1> DEFINE h == now - Retention
           old == {r \in RowId : Exists(r) /\ row[r].expires < h}
<1>1. h \in Int
  BY ConstantsAssumption DEF Time
<1>2. \A r \in RowId : row'[r] = IF r \in old THEN [row[r] EXCEPT !.st = "pruned"] ELSE row[r]
  BY DEF Prune
<1>3. \A r \in RowId : row[r] \in RowRecord /\ row[r].expires \in Nat
  BY DEF TablesOK, TablesTyped, RowRecord
<1>4. \A r \in RowId : r \in old <=> Exists(r) /\ row[r].expires < h
  OBVIOUS
<1> HIDE DEF h, old
<1>5. \A r \in RowId :
        /\ SameRow(r) /\ row'[r].next = row[r].next /\ row'[r].revoked = row[r].revoked
        /\ row'[r].st = IF r \in old THEN "pruned" ELSE row[r].st
  <2> SUFFICES ASSUME NEW r \in RowId
               PROVE  /\ SameRow(r) /\ row'[r].next = row[r].next
                      /\ row'[r].revoked = row[r].revoked
                      /\ row'[r].st = IF r \in old THEN "pruned" ELSE row[r].st
    OBVIOUS
  <2>1. PICK x \in RowRecord : x = row[r]
    BY <1>3
  <2>2. row'[r] = IF r \in old THEN [x EXCEPT !.st = "pruned"] ELSE x
    BY <1>2, <2>1
  <2>3. QED
    BY <2>1, <2>2 DEF RowRecord, SameRow
<1>6. ASSUME NEW r \in RowId
      PROVE  /\ SameRow(r) /\ row'[r].next = row[r].next
             /\ row'[r].st = "none" <=> row[r].st = "none"
             /\ Exists(r)' <=> Exists(r) /\ row[r].expires >= h
             /\ Live(r)' => Live(r)
  <2>1. CASE r \in old
    BY <1>1, <1>3, <1>4, <1>5, <2>1 DEF Exists, Live
  <2>2. CASE r \notin old
    BY <1>1, <1>3, <1>4, <1>5, <2>2 DEF Exists, Live
  <2>3. QED
    BY <2>1, <2>2
<1>7. QED
  BY <1>1, <1>6 DEF RowsStay

----------------------------------------------------------------------------
(* What beside SessionInvariant the scopes and locks rest on. *)

Member(w) == orgSt[OrgOf[w]] = "ACTIVE" /\ teamSt[w] = "ACTIVE"

(* A transaction's scope is that of the row it rotates or of the tip it    *)
(* answers with, in a domain that is not disabled; it holds no membership  *)
(* rows before it locked its source, and moves nowhere unless it issues.   *)
TxScoped(t) ==
  LET x == tx[t] IN
  /\ x.pc \in {"idle", "login", "user", "decide", "source"} => x.orgs = {}
  /\ x.op \in {"refresh"} \cup Revoking \cup Memberwise => x.dst = None
  /\ x.op \in Issuing => x.dom \notin disabled
  /\ x.op \in Rotations => row[x.ref].dom = x.dom
  /\ x.op \in Rotations /\ x.tip = None => x.src = row[x.ref].ws
  /\ x.tip # None => row[x.tip].ws = Target(t)

(* The memberships a session is issued for are locked and ACTIVE; those    *)
(* that are changed are locked.                                            *)
TxHolds(t) ==
  LET x == tx[t] IN
  /\ x.op \in Issuing /\ x.pc \in {"target", "commit"} /\ x.src # None =>
       OrgOf[x.src] \in x.orgs /\ Member(x.src)
  /\ x.op \in Issuing /\ x.pc = "commit" /\ x.dst # None =>
       OrgOf[x.dst] \in x.orgs /\ Member(x.dst)
  /\ x.op \in Revoking \cup Memberwise /\ x.pc = "commit" => OrgOf[x.src] \in x.orgs

(* Membership row locks are exclusive. *)
OrgMutex == \A t, u \in Tx : t # u => \A o \in Org : ~(o \in tx[t].orgs /\ o \in tx[u].orgs)

ScopeInvariant ==
  /\ \A t \in Tx : TxScoped(t) /\ TxHolds(t)
  /\ OrgMutex
  /\ ScopedSessionsHaveMembership /\ AssuranceFollowsScope

(* What the chains rest on: a successor is a child of the same family,     *)
(* domain and assurance that is kept at least as long.                     *)
Linked(r, n) ==
  /\ row[n].st # "none" /\ row[n].parent = r
  /\ row[n].fam = row[r].fam /\ row[n].dom = row[r].dom /\ row[n].mfa = row[r].mfa
  /\ row[n].expires >= row[r].expires
  /\ Exists(r) => Exists(n)

ChainsLinked ==
  \A r \in RowId : row[r].st # "none" =>
    /\ row[r].created <= now
    /\ row[r].next # None => Linked(r, row[r].next)

FamiliesRooted == \A r \in RowId : row[r].st # "none" => row[row[r].fam].fam = row[r].fam
SecBumped == \A r \in RowId : row[r].sec => bumps[row[r].fam] > 0

(* Successors rise in rank, so no chain returns to itself. *)
ChainsRise ==
  \E rank \in [RowId -> Nat] :
    \A r \in RowId : row[r].st # "none" /\ row[r].next # None => rank[r] < rank[row[r].next]

ChainInvariant == ChainsLinked /\ FamiliesRooted /\ SecBumped /\ ChainsRise

----------------------------------------------------------------------------
(* Each action ends quietly, opens, replaces, changes memberships, or only *)
(* moves its transaction on.                                               *)

Quiet(t) == End(t) /\ RowsStay /\ UNCHANGED <<now, members, disabled>>
Issues(t) == End(t) /\ (Opens(t) \/ Replaces(t)) /\ UNCHANGED <<now, members, disabled>>

LEMMA AbortIsQuiet ==
  ASSUME SessionInvariant, NEW t \in Tx, Abort(t)
  PROVE  Quiet(t)
BY InvariantParts, UnchangedRowsStay DEF Abort, Quiet, store

LEMMA CondemnStays ==
  ASSUME SessionInvariant, NEW r \in RowId, NEW S, S = Family(r) \/ S = RowId,
         Condemn(row, r, S), UNCHANGED <<code, resetAt, minted>>
  PROVE  RowsStay
<1>1. TablesOK /\ now \in Time
  BY InvariantParts DEF WorldTyped
<1>2. Condemned \/ Still
  BY <1>1, CondemnShape
<1>3. QED
  BY <1>1, <1>2, CondemnedRowsStay, UnchangedRowsStay DEF Still, store

LEMMA RefuseIsQuiet ==
  ASSUME SessionInvariant, NEW t \in Tx, Refuse(t)
  PROVE  Quiet(t)
<1> DEFINE r == tx[t].ref
<1>1. CASE Abort(t)
  BY <1>1, AbortIsQuiet
<1>2. CASE ~Abort(t)
  <2>1. tx[t].tip # None
    BY <1>2 DEF Refuse
  <2>2. r \in RowId
    BY <2>1, InvariantParts DEF TxSafe, WellFormed
  <2>3. \/ /\ Condemn(row, r, Family(r)) /\ End(t)
           /\ UNCHANGED <<now, code, members, disabled, resetAt, minted>>
        \/ /\ row' = RevokeIn(row, Family(r)) /\ End(t)
           /\ UNCHANGED <<now, code, epoch, members, disabled, history>>
    BY <1>2 DEF Refuse
  <2>4. CASE /\ Condemn(row, r, Family(r)) /\ End(t)
             /\ UNCHANGED <<now, code, members, disabled, resetAt, minted>>
    BY <2>2, <2>4, CondemnStays DEF Quiet
  <2>5. CASE /\ row' = RevokeIn(row, Family(r)) /\ End(t)
             /\ UNCHANGED <<now, code, epoch, members, disabled, history>>
    <3>1. Family(r) \in SUBSET RowId
      BY DEF Family
    <3>2. Revoked
      BY <2>5, <3>1 DEF Revoked
    <3>3. QED
      BY <2>5, <3>2, InvariantParts, RevokedRowsStay DEF Quiet
  <2>6. QED
    BY <2>3, <2>4, <2>5
<1>3. QED
  BY <1>1, <1>2

LEMMA ExchangeShape ==
  ASSUME SessionInvariant, NEW t \in Tx, CommitExchange(t)
  PROVE  Abort(t) \/ Issues(t)
<1>1. TablesOK /\ WorldTyped /\ TxSafe
  BY InvariantParts
<1> DEFINE c == tx[t].ref
           w == IF tx[t].dst # None THEN tx[t].dst ELSE tx[t].src
<1>2. tx[t].op = "exchange" /\ tx[t].pc = "commit"
  BY DEF CommitExchange
<1>3. tx[t] \in TxRecord /\ c \in CodeId
  BY <1>1, <1>2 DEF WorldTyped, TxSafe, WellFormed
<1>4. CASE Abort(t)
  BY <1>4
<1>5. CASE ~Abort(t)
  <2>1. PICK n \in RowId, ttl \in SessionTtls :
          /\ row[n].st = "none"
          /\ row' = [row EXCEPT ![n] =
               [BlankRow EXCEPT !.st = "row", !.fam = n, !.dom = tx[t].dom,
                  !.ws = w, !.mfa = tx[t].mfa, !.created = now,
                  !.expires = now + ttl, !.auth = tx[t].epoch, !.code = c]]
          /\ End(t)
          /\ UNCHANGED <<now, epoch, members, disabled, bumps>>
    BY <1>5 DEF CommitExchange
  <2>2. MfaSufficient(w, tx[t].mfa)
    BY <1>5 DEF CommitExchange
  <2> DEFINE new == [BlankRow EXCEPT !.st = "row", !.fam = n, !.dom = tx[t].dom,
                  !.ws = w, !.mfa = tx[t].mfa, !.created = now,
                  !.expires = now + ttl, !.auth = tx[t].epoch, !.code = c]
  <2>3. /\ new \in RowRecord
        /\ new.st = "row" /\ new.fam = n /\ new.next = None /\ new.sec = FALSE
        /\ new.dom = tx[t].dom /\ new.ws = w /\ new.mfa = tx[t].mfa /\ new.created = now
        /\ new.revoked = Never
    <3>1. now + ttl \in Nat /\ now \in Time /\ Never \in Moment
      BY <1>1, ConstantsAssumption DEF WorldTyped, Time, Moment
    <3>2. w \in Scope
      BY <1>3 DEF TxRecord
    <3> HIDE DEF w
    <3>3. QED
      BY <1>3, <3>1, <3>2 DEF BlankRow, RowRecord, TxRecord
  <2>4. row' = [row EXCEPT ![n] = new]
    BY <2>1
  <2> HIDE DEF new
  <2>5. Opens(t)
    BY <1>2, <2>1, <2>2, <2>3, <2>4 DEF Opens
  <2>6. QED
    BY <2>1, <2>5 DEF Issues
<1>6. QED
  BY <1>4, <1>5

LEMMA RotateShape ==
  ASSUME SessionInvariant, NEW t \in Tx, Rotate(t)
  PROVE  Abort(t) \/ Issues(t)
<1>1. TablesOK /\ WorldTyped /\ TxSafe
  BY InvariantParts
<1> DEFINE r == tx[t].ref
<1>2. tx[t].op \in Rotations /\ tx[t].pc = "commit" /\ tx[t].tip = None
  BY DEF Rotate
<1>3. /\ tx[t] \in TxRecord /\ r \in RowId
      /\ row[r].revoked = Never /\ row[r].next = None
      /\ Exists(r) \/ row[r].expires < now
  BY <1>1, <1>2 DEF WorldTyped, TxSafe, WellFormed, DecisionHolds, Decided
<1>4. row[r] \in RowRecord /\ now \in Time /\ now \in Nat
  BY <1>1, <1>3, ConstantsAssumption DEF TablesOK, TablesTyped, WorldTyped, Time
<1>5. CASE Abort(t)
  BY <1>5
<1>6. CASE ~Abort(t)
  <2>1. ~(row[r].expires <= now)
    BY <1>6 DEF Rotate
  <2>2. Live(r) /\ row[r].expires > now
    BY <1>3, <1>4, <2>1 DEF Live, RowRecord
  <2> DEFINE new == Successor(r, Target(t))
             until == now + Longest(row[r].expires - row[r].created, MinTtl)
  <2>3. PICK n \in RowId :
          /\ row[n].st = "none"
          /\ row' = Superseded([row EXCEPT ![n] = new], r, n)
          /\ UNCHANGED <<epoch, bumps>>
          /\ End(t)
          /\ UNCHANGED <<now, members, disabled>>
    BY <1>3, <1>6, <2>2 DEF Rotate
  <2>4. tx[t].op = "switch" => MfaSufficient(tx[t].dst, row[r].mfa)
    BY DEF Rotate
  <2>5. /\ new \in RowRecord /\ new.st = "row" /\ new.fam = row[r].fam /\ new.next = None
        /\ new.sec = FALSE /\ new.parent = r /\ new.dom = row[r].dom
        /\ new.mfa = row[r].mfa /\ new.ws = Target(t) /\ new.created = now
        /\ new.expires = until /\ new.revoked = Never
    <3>1. Target(t) \in Scope /\ Never \in Moment
      BY <1>3, <1>4 DEF Target, TxRecord, RowRecord, Moment
    <3>2. until \in Nat
      <4>1. row[r].expires \in Nat /\ row[r].created \in Nat /\ MinTtl \in Nat
        BY <1>4, ConstantsAssumption DEF RowRecord, Time
      <4>2. QED
        BY <4>1, <1>4 DEF Longest
    <3>3. row[r].st = "row"
      BY <2>2 DEF Live, Exists
    <3>4. new = [row[r] EXCEPT !.parent = r, !.next = None, !.ws = Target(t),
                   !.created = now, !.revoked = Never, !.sec = FALSE, !.expires = until]
      BY DEF Successor
    <3> HIDE DEF r, until, new
    <3>5. row[r] \in RowRecord /\ r \in RowId /\ now \in Time /\ until \in Nat
      BY <1>3, <1>4, <3>2 DEF until
    <3>6. PICK x \in RowRecord : x = row[r]
      BY <3>5
    <3>7. new = [x EXCEPT !.parent = r, !.next = None, !.ws = Target(t),
                   !.created = now, !.revoked = Never, !.sec = FALSE, !.expires = until]
      BY <3>4, <3>6
    <3>8. /\ new.st = x.st /\ new.fam = x.fam /\ new.dom = x.dom /\ new.mfa = x.mfa
          /\ new.next = None /\ new.sec = FALSE /\ new.parent = r /\ new.ws = Target(t)
          /\ new.created = now /\ new.expires = until /\ new.revoked = Never
      BY <3>7 DEF RowRecord
    <3>9. new \in RowRecord
      BY <3>1, <3>5, <3>7 DEF RowRecord
    <3>10. QED
      BY <3>3, <3>6, <3>8, <3>9
  <2> HIDE DEF new
  <2>6. row' = [row EXCEPT ![n] = new, ![r].revoked = now, ![r].next = n]
    BY <2>3 DEF Superseded
  <2>7. Replaces(t)
    BY <1>2, <1>3, <2>2, <2>3, <2>4, <2>5, <2>6 DEF Replaces
  <2>8. QED
    BY <2>3, <2>7 DEF Issues
<1>7. QED
  BY <1>5, <1>6

Decides(t) ==
  ~Abort(t) /\ (DecideCredential(t) \/ DecideRotation(t) \/ DecideReplay(t))

ChangesMembers(t) ==
  \/ Deactivate(t) \/ RemoveMember(t) \/ RemoveTeamMember(t)
  \/ Reactivate(t) \/ AddMember(t) \/ AddTeamMember(t) \/ DeleteTeam(t) \/ DeleteOrg(t)

LEMMA FinishShapes ==
  ASSUME SessionInvariant, NEW t \in Tx, Finish(t)
  PROVE  Quiet(t) \/ Issues(t) \/ Decides(t) \/ ChangesMembers(t)
<1>0. TablesOK /\ WorldTyped /\ TxSafe
  BY InvariantParts
<1>1. CASE Abort(t)
  BY <1>1, AbortIsQuiet
<1>2. CASE ~Abort(t)
  <2>1. CASE RefuseScope(t) \/ RefusePolicy(t) \/ RefuseMembership(t)
    BY <1>2, <2>1, RefuseIsQuiet DEF RefuseScope, RefusePolicy, RefuseMembership
  <2>2. CASE DecideCredential(t) \/ DecideRotation(t) \/ DecideReplay(t)
    BY <1>2, <2>2 DEF Decides
  <2>3. CASE RejectReplay(t)
    <3> DEFINE r == tx[t].ref
               S == IF Broken(r) THEN RowId ELSE Family(r)
    <3>1. r \in RowId /\ (S = Family(r) \/ S = RowId)
      BY <1>0, <2>3 DEF RejectReplay, TxSafe, WellFormed
    <3>2. /\ Condemn(row, r, S) /\ End(t)
          /\ UNCHANGED <<now, code, members, disabled, resetAt, minted>>
      BY <2>3 DEF RejectReplay
    <3> HIDE DEF r, S
    <3>3. QED
      BY <3>1, <3>2, CondemnStays DEF Quiet
  <2>4. CASE CommitCode(t)
    BY <1>0, <2>4, UnchangedRowsStay DEF CommitCode, Quiet
  <2>5. CASE CommitExchange(t) \/ Rotate(t)
    BY <1>2, <2>5, ExchangeShape, RotateShape
  <2>6. CASE AnswerReplay(t)
    <3>1. CASE Refuse(t)
      BY <3>1, RefuseIsQuiet
    <3>2. CASE ~Refuse(t)
      BY <1>0, <1>2, <2>6, <3>2, UnchangedRowsStay DEF AnswerReplay, Quiet, store
    <3>3. QED
      BY <3>1, <3>2
  <2>7. CASE Logout(t)
    <3>1. tx[t].ref \in RowId
      BY <1>0, <2>7 DEF Logout, TxSafe, WellFormed
    <3>2. QED
      BY <2>7, <3>1, CondemnStays DEF Logout, Quiet
  <2>8. CASE Reset(t)
    <3>1. AllRevoked
      BY <2>8 DEF Reset, AllRevoked
    <3>2. QED
      BY <1>0, <2>8, <3>1, RevokedRowsStay DEF Reset, Quiet
  <2>9. CASE ChangesMembers(t)
    BY <2>9
  <2>10. QED
    BY <2>1, <2>2, <2>3, <2>4, <2>5, <2>6, <2>7, <2>8, <2>9 DEF Finish, ChangesMembers
<1>3. QED
  BY <1>1, <1>2

(* A membership change ends, and revokes sessions or leaves them alone.    *)
LEMMA MembersShape ==
  ASSUME SessionInvariant, NEW t \in Tx, ChangesMembers(t)
  PROVE  End(t) /\ RowsStay /\ UNCHANGED <<now, disabled>>
<1>1. TablesOK
  BY InvariantParts
<1>2. CASE Deactivate(t) \/ RemoveMember(t) \/ RemoveTeamMember(t)
  <2>1. End(t) /\ UNCHANGED <<now, code, epoch, disabled, history>>
    BY <1>2 DEF Deactivate, RemoveMember, RemoveTeamMember
  <2>2. PICK S \in SUBSET RowId : row' = RevokeIn(row, S)
    BY <1>2 DEF Deactivate, RemoveMember, RemoveTeamMember, SessionsOf
  <2>3. Revoked
    BY <2>1, <2>2 DEF Revoked
  <2>4. QED
    BY <1>1, <2>1, <2>3, RevokedRowsStay
<1>3. CASE Reactivate(t) \/ AddMember(t) \/ AddTeamMember(t) \/ DeleteTeam(t) \/ DeleteOrg(t)
  <2>1. End(t) /\ UNCHANGED <<now, store, disabled, history>>
    BY <1>3 DEF Reactivate, AddMember, AddTeamMember, DeleteTeam, DeleteOrg
  <2>2. QED
    BY <1>1, <2>1, UnchangedRowsStay DEF store
<1>4. QED
  BY <1>2, <1>3 DEF ChangesMembers

----------------------------------------------------------------------------
(* Scopes and locks: the transactions. *)

TxsScoped == (\A t \in Tx : TxScoped(t) /\ TxHolds(t)) /\ OrgMutex

(* What a transaction that does not move relies on. *)
LEMMA OthersScoped ==
  ASSUME SessionInvariant, NEW u \in Tx, TxScoped(u), tx'[u] = tx[u], disabled' = disabled,
         \A r \in RowId : row[r].st # "none" => SameRow(r)
  PROVE  TxScoped(u)'
<1>1. tx[u] \in TxRecord /\ WellFormed(u) /\ DecisionHolds(u)
  BY InvariantParts DEF WorldTyped, TxSafe
<1>2. tx[u].op \in Rotations => tx[u].ref \in RowId /\ row[tx[u].ref].st # "none"
  BY <1>1 DEF WellFormed
<1>3. tx[u].tip # None =>
        tx[u].op \in Rotations /\ tx[u].tip \in RowId /\ row[tx[u].tip].st # "none"
  BY <1>1 DEF WellFormed, DecisionHolds, TxRecord
<1>4. tx[u].op \in Rotations => SameRow(tx[u].ref)
  BY <1>2
<1>5. tx[u].tip # None => SameRow(tx[u].tip)
  BY <1>3
<1>6. tx[u].op \in Rotations => Target(u)' = Target(u)
  BY <1>4 DEF Target, SameRow
<1>7. QED
  BY <1>3, <1>4, <1>5, <1>6 DEF TxScoped, SameRow

(* A transaction ends and gives back its locks. *)
LEMMA EndKeepsTxsScoped ==
  ASSUME SessionInvariant, TxsScoped, NEW t \in Tx, End(t), disabled' = disabled,
         \A r \in RowId : row[r].st # "none" => SameRow(r),
         \A u \in Tx \ {t}, w \in Workspace :
           OrgOf[w] \in tx[u].orgs /\ Member(w) => Member(w)'
  PROVE  TxsScoped'
<1>1. tx \in [Tx -> TxRecord]
  BY InvariantParts DEF WorldTyped
<1>2. tx'[t] = Idle /\ \A u \in Tx \ {t} : tx'[u] = tx[u]
  BY <1>1 DEF End
<1>3. TxScoped(t)' /\ TxHolds(t)'
  BY <1>2 DEF TxScoped, TxHolds, Idle, Issuing, Rotations, Revoking, Memberwise
<1>4. ASSUME NEW u \in Tx \ {t} PROVE TxScoped(u)' /\ TxHolds(u)'
  <2>1. TxScoped(u)'
    BY <1>2, OthersScoped DEF TxsScoped
  <2>2. TxHolds(u) /\ tx[u].src \in Scope /\ tx[u].dst \in Scope
    BY <1>1 DEF TxsScoped, TxRecord
  <2>3. TxHolds(u)'
    BY <1>2, <2>2 DEF TxHolds, Scope
  <2>4. QED
    BY <2>1, <2>3
<1>5. OrgMutex'
  <2>1. tx'[t].orgs = {}
    BY <1>2 DEF Idle
  <2>2. QED
    BY <1>2, <2>1 DEF TxsScoped, OrgMutex
<1>6. QED
  BY <1>3, <1>4, <1>5 DEF TxsScoped

(* A transaction moves on, and nothing else does. *)
LEMMA MoveKeepsTxsScoped ==
  ASSUME SessionInvariant, TxsScoped, NEW t \in Tx, NEW new, tx' = [tx EXCEPT ![t] = new],
         UNCHANGED <<store, members, disabled>>,
         TxScoped(t)', TxHolds(t)',
         \A o \in Org : o \in new.orgs => o \in tx[t].orgs \/ OrgFree(t, o)
  PROVE  TxsScoped'
<1>1. tx \in [Tx -> TxRecord]
  BY InvariantParts DEF WorldTyped
<1>2. tx'[t] = new /\ \A u \in Tx \ {t} : tx'[u] = tx[u]
  BY <1>1
<1>3. \A r \in RowId : SameRow(r)
  BY DEF SameRow, store
<1>4. ASSUME NEW u \in Tx \ {t} PROVE TxScoped(u)' /\ TxHolds(u)'
  BY <1>2, <1>3, OthersScoped DEF TxsScoped, TxHolds, Member, members
<1>5. OrgMutex'
  BY <1>2 DEF TxsScoped, OrgMutex, OrgFree
<1>6. QED
  BY <1>4, <1>5 DEF TxsScoped

LEMMA BeginKeepsTxsScoped ==
  ASSUME SessionInvariant, TxsScoped, NEW t \in Tx, NEW new, Begin(t, new),
         new.pc \in {"login", "user", "source"}, new.orgs = {}, new.tip = None,
         new.op \in {"refresh"} \cup Revoking \cup Memberwise => new.dst = None,
         new.op \in Issuing => new.dom \notin disabled,
         new.op \in Rotations => row[new.ref].dom = new.dom /\ row[new.ref].ws = new.src
  PROVE  TxsScoped'
<1>1. tx \in [Tx -> TxRecord]
  BY InvariantParts DEF WorldTyped
<1>2. tx'[t] = new /\ tx' = [tx EXCEPT ![t] = new] /\ UNCHANGED <<store, members, disabled>>
  BY <1>1 DEF Begin
<1>3. TxScoped(t)'
  BY <1>2 DEF TxScoped, store
<1>4. TxHolds(t)'
  <2>1. new.pc \notin {"target", "commit"}
    OBVIOUS
  <2>2. QED
    BY <1>2, <2>1 DEF TxHolds
<1>5. QED
  BY <1>2, <1>3, <1>4, MoveKeepsTxsScoped

LEMMA StartKeepsTxsScoped ==
  ASSUME SessionInvariant, TxsScoped, NEW t \in Tx, Start(t)
  PROVE  TxsScoped'
<1> USE DEF Idle, Issuing, Rotations, Revoking, Memberwise
<1>1. CASE \E d \in Domain, w \in Scope, mfa \in MfaProofs : Authenticate(t, d, w, mfa)
  BY <1>1, BeginKeepsTxsScoped DEF Authenticate
<1>2. CASE BeginIssueCode(t)
  <2> DEFINE new == [tx[t] EXCEPT !.pc = "user"]
  <2>1. /\ tx[t] \in TxRecord /\ WellFormed(t) /\ TxScoped(t) /\ tx[t].pc = "login"
        /\ tx \in [Tx -> TxRecord]
    BY <1>2, InvariantParts DEF BeginIssueCode, WorldTyped, TxSafe, TxsScoped
  <2>2. tx' = [tx EXCEPT ![t] = new] /\ UNCHANGED <<store, members, disabled>>
    BY <1>2 DEF BeginIssueCode, Goto
  <2>3. /\ tx'[t].op = "issueCode" /\ tx'[t].pc = "user" /\ tx'[t].orgs = {}
        /\ tx'[t].tip = None /\ new.orgs = {}
    BY <2>1, <2>2 DEF TxRecord, WellFormed, TxScoped
  <2>4. TxScoped(t)' /\ TxHolds(t)'
    BY <2>3 DEF TxScoped, TxHolds
  <2>5. QED
    BY <2>2, <2>3, <2>4, MoveKeepsTxsScoped
<1>3. CASE \E c \in CodeId : BeginExchange(t, c)
  BY <1>3, BeginKeepsTxsScoped DEF BeginExchange
<1>4. CASE \E r \in RowId : BeginRefresh(t, r)
  BY <1>4, BeginKeepsTxsScoped DEF BeginRefresh
<1>5. CASE \E r \in RowId : BeginLogout(t, r)
  BY <1>5, BeginKeepsTxsScoped DEF BeginLogout
<1>6. CASE \E r \in RowId, w \in Workspace : BeginSwitch(t, r, w)
  BY <1>6, BeginKeepsTxsScoped DEF BeginSwitch
<1>7. CASE BeginReset(t)
  BY <1>7, BeginKeepsTxsScoped DEF BeginReset
<1>8. CASE \E op \in Revoking, w \in Workspace : BeginRevoking(t, op, w)
  BY <1>8, BeginKeepsTxsScoped DEF BeginRevoking
<1>9. CASE \E op \in Memberwise, w \in Workspace : BeginMemberwise(t, op, w)
  BY <1>9, BeginKeepsTxsScoped DEF BeginMemberwise
<1>10. QED
  BY <1>1, <1>2, <1>3, <1>4, <1>5, <1>6, <1>7, <1>8, <1>9 DEF Start

LEMMA ActiveScopeIsMember ==
  ASSUME NEW d, NEW w \in Workspace, ActiveScope(d, w)
  PROVE  Member(w)
BY ConstantsAssumption DEF ActiveScope, Member

LEMMA AcquireKeepsTxsScoped ==
  ASSUME SessionInvariant, TxsScoped, NEW t \in Tx, Acquire(t)
  PROVE  TxsScoped'
<1>1. /\ tx[t] \in TxRecord /\ WellFormed(t) /\ TxScoped(t) /\ TxHolds(t)
      /\ tx \in [Tx -> TxRecord]
  BY InvariantParts DEF WorldTyped, TxSafe, TxsScoped
<1>2. CASE LockUser(t)
  <2> DEFINE new == [tx[t] EXCEPT !.pc = IF tx[t].op \in Revoking THEN "source" ELSE "decide"]
  <2>1. tx' = [tx EXCEPT ![t] = new] /\ UNCHANGED <<store, members, disabled>> /\ tx[t].pc = "user"
    BY <1>2 DEF LockUser, Goto
  <2>2. /\ new.op = tx[t].op /\ new.ref = tx[t].ref /\ new.dst = tx[t].dst /\ new.dom = tx[t].dom
        /\ new.src = tx[t].src /\ new.tip = tx[t].tip /\ new.orgs = tx[t].orgs
        /\ new.pc \in {"source", "decide"}
    BY <1>1 DEF TxRecord
  <2>3. tx'[t] = new
    BY <1>1, <2>1
  <2> HIDE DEF new
  <2>4. TxScoped(t)'
    BY <1>1, <2>1, <2>2, <2>3 DEF TxScoped, store, Target
  <2>5. TxHolds(t)'
    BY <2>2, <2>3 DEF TxHolds
  <2>6. QED
    BY <2>1, <2>2, <2>4, <2>5, MoveKeepsTxsScoped
<1>3. CASE LockSource(t)
  <2> DEFINE o == OrgOf[tx[t].src]
             new == [tx[t] EXCEPT !.orgs = @ \cup {o},
                                  !.pc = IF tx[t].dst = None THEN "commit" ELSE "target"]
  <2>1. /\ tx' = [tx EXCEPT ![t] = new] /\ UNCHANGED <<store, members, disabled>>
        /\ tx[t].pc = "source" /\ OrgFree(t, o)
        /\ tx[t].op \in Issuing => ActiveScope(tx[t].dom, tx[t].src)
    <3>1. tx' = [tx EXCEPT ![t].orgs = @ \cup {o},
                           ![t].pc = IF tx[t].dst = None THEN "commit" ELSE "target"]
      BY <1>3 DEF LockSource
    <3>2. tx' = [tx EXCEPT ![t] = new]
      BY <1>1, <3>1
    <3>3. QED
      BY <1>3, <3>2 DEF LockSource
  <2>2. /\ new.op = tx[t].op /\ new.ref = tx[t].ref /\ new.dst = tx[t].dst /\ new.dom = tx[t].dom
        /\ new.src = tx[t].src /\ new.tip = tx[t].tip /\ new.orgs = tx[t].orgs \cup {o}
        /\ new.pc = IF tx[t].dst = None THEN "commit" ELSE "target"
    BY <1>1 DEF TxRecord
  <2>3. tx'[t] = new
    BY <1>1, <2>1
  <2> HIDE DEF new
  <2>4. TxScoped(t)'
    BY <1>1, <2>1, <2>2, <2>3 DEF TxScoped, store, Target
  <2>5. tx[t].op \in Issuing => Member(tx[t].src)
    BY <1>1, <2>1, ActiveScopeIsMember DEF WellFormed
  <2>6. TxHolds(t)'
    BY <2>1, <2>2, <2>3, <2>5 DEF TxHolds, Member, members
  <2>7. QED
    BY <2>1, <2>2, <2>4, <2>6, MoveKeepsTxsScoped
<1>4. CASE LockTarget(t)
  <2> DEFINE o == OrgOf[tx[t].dst]
             new == [tx[t] EXCEPT !.orgs = @ \cup {o}, !.pc = "commit"]
  <2>1. /\ tx' = [tx EXCEPT ![t] = new] /\ UNCHANGED <<store, members, disabled>>
        /\ tx[t].pc = "target" /\ OrgFree(t, o) /\ ActiveScope(tx[t].dom, tx[t].dst)
    <3>1. tx' = [tx EXCEPT ![t].orgs = @ \cup {o}, ![t].pc = "commit"]
      BY <1>4 DEF LockTarget
    <3>2. tx' = [tx EXCEPT ![t] = new]
      BY <1>1, <3>1
    <3>3. QED
      BY <1>4, <3>2 DEF LockTarget
  <2>2. /\ new.op = tx[t].op /\ new.ref = tx[t].ref /\ new.dst = tx[t].dst /\ new.dom = tx[t].dom
        /\ new.src = tx[t].src /\ new.tip = tx[t].tip /\ new.orgs = tx[t].orgs \cup {o}
        /\ new.pc = "commit"
    BY <1>1 DEF TxRecord
  <2>3. tx'[t] = new
    BY <1>1, <2>1
  <2> HIDE DEF new
  <2>4. TxScoped(t)'
    BY <1>1, <2>1, <2>2, <2>3 DEF TxScoped, store, Target
  <2>5. Member(tx[t].dst)
    BY <1>1, <2>1, ActiveScopeIsMember DEF WellFormed
  <2>6. tx[t].op \notin Revoking \cup Memberwise
    BY <1>1, <2>1, ConstantsAssumption DEF WellFormed, TxScoped
  <2>7. TxHolds(t)'
    BY <1>1, <2>1, <2>2, <2>3, <2>5, <2>6 DEF TxHolds, Member, members
  <2>8. QED
    BY <2>1, <2>2, <2>4, <2>7, MoveKeepsTxsScoped
<1>5. QED
  BY <1>2, <1>3, <1>4 DEF Acquire

(* A decision leads to the first lock its scopes need. *)
LEMMA DecidedHoldsNothing ==
  ASSUME NEW t \in Tx, tx'[t].op \in Issuing \cup {"issueCode"}, tx'[t].orgs = {},
         tx'[t].src \in Scope, tx'[t].dst \in Scope,
         tx'[t].pc = FirstLock(tx'[t].src, tx'[t].dst)
  PROVE  TxHolds(t)' /\ tx'[t].pc \notin {"idle", "login", "user", "decide"}
<1>1. tx'[t].op \notin Revoking \cup Memberwise
  BY DEF Issuing, Rotations, Revoking, Memberwise
<1>2. /\ tx'[t].pc \in {"source", "target", "commit"}
      /\ tx'[t].pc = "target" => tx'[t].src = None
      /\ tx'[t].pc = "commit" => tx'[t].src = None /\ tx'[t].dst = None
  BY DEF FirstLock
<1>3. QED
  BY <1>1, <1>2 DEF TxHolds

LEMMA DecidesKeepsTxsScoped ==
  ASSUME SessionInvariant, TxsScoped, NEW t \in Tx, Decides(t)
  PROVE  TxsScoped'
<1>1. /\ tx[t] \in TxRecord /\ WellFormed(t) /\ DecisionHolds(t) /\ TxScoped(t)
      /\ tx \in [Tx -> TxRecord]
  BY InvariantParts DEF WorldTyped, TxSafe, TxsScoped
<1>0. ~Abort(t)
  BY DEF Decides
<1>2. CASE DecideCredential(t)
  <2>1. PICK w \in Scope :
          /\ tx[t].op \in {"issueCode", "exchange"} /\ tx[t].pc = "decide"
          /\ tx' = [tx EXCEPT ![t].dst = w, ![t].pc = FirstLock(tx[t].src, w)]
          /\ UNCHANGED <<store, members, disabled>>
    BY <1>0, <1>2 DEF DecideCredential, Resolvable, Scope
  <2> DEFINE p == FirstLock(tx[t].src, w)
             new == [tx[t] EXCEPT !.dst = w, !.pc = p]
  <2> HIDE DEF p
  <2>2. tx' = [tx EXCEPT ![t] = new]
    BY <1>1, <2>1 DEF p, TxRecord
  <2>3. /\ new.op = tx[t].op /\ new.dst = w /\ new.dom = tx[t].dom /\ new.src = tx[t].src
        /\ new.tip = tx[t].tip /\ new.orgs = tx[t].orgs /\ new.pc = p
    BY <1>1 DEF TxRecord
  <2>4. tx'[t] = new
    BY <1>1, <2>2
  <2> HIDE DEF new
  <2>5. tx[t].tip = None /\ tx[t].orgs = {}
    BY <1>1, <2>1 DEF WellFormed, TxScoped, Rotations
  <2>6. tx[t].src \in Scope
    BY <1>1 DEF TxRecord
  <2>7. TxHolds(t)'
    BY <2>1, <2>3, <2>4, <2>5, <2>6, DecidedHoldsNothing DEF p, Issuing
  <2>8. TxScoped(t)'
    BY <1>1, <2>1, <2>3, <2>4, <2>5 DEF TxScoped, Issuing, Rotations, Revoking, Memberwise
  <2>9. QED
    BY <2>1, <2>2, <2>3, <2>5, <2>7, <2>8, MoveKeepsTxsScoped
<1>3. CASE DecideRotation(t)
  <2> DEFINE p == FirstLock(tx[t].src, tx[t].dst)
             new == [tx[t] EXCEPT !.pc = p]
  <2>1. /\ tx[t].op \in Rotations /\ tx[t].pc = "decide"
        /\ tx' = [tx EXCEPT ![t] = new] /\ UNCHANGED <<store, members, disabled>>
    BY <1>0, <1>3 DEF DecideRotation, Goto
  <2> HIDE DEF p
  <2>2. /\ new.op = tx[t].op /\ new.dst = tx[t].dst /\ new.dom = tx[t].dom /\ new.src = tx[t].src
        /\ new.tip = tx[t].tip /\ new.orgs = tx[t].orgs /\ new.pc = p /\ new.ref = tx[t].ref
    BY <1>1 DEF TxRecord
  <2>3. tx'[t] = new
    BY <1>1, <2>1
  <2> HIDE DEF new
  <2>4. tx[t].tip = None /\ tx[t].orgs = {} /\ tx[t].src \in Scope /\ tx[t].dst \in Scope
    BY <1>1, <2>1 DEF DecisionHolds, Decided, TxScoped, TxRecord
  <2>5. TxHolds(t)' /\ tx'[t].pc \notin {"idle", "login", "user", "decide"}
    BY <2>1, <2>2, <2>3, <2>4, DecidedHoldsNothing DEF p, Issuing
  <2>6. TxScoped(t)'
    BY <1>1, <2>1, <2>2, <2>3, <2>4 DEF TxScoped, store
  <2>7. QED
    BY <2>1, <2>2, <2>4, <2>5, <2>6, MoveKeepsTxsScoped
<1>4. CASE DecideReplay(t)
  <2> DEFINE r == tx[t].ref
             src(n) == IF tx[t].op = "switch" THEN None ELSE row[n].ws
  <2>1. PICK n \in RowId :
          /\ tx[t].op \in Rotations /\ tx[t].pc = "decide"
          /\ IsTip(r, n) /\ ~Conflicting(r, Target(t))
          /\ tx' = [tx EXCEPT ![t].tip = n, ![t].at = row[r].revoked,
                              ![t].src = src(n), ![t].pc = FirstLock(src(n), tx[t].dst)]
          /\ UNCHANGED <<store, members, disabled>>
    BY <1>0, <1>4 DEF DecideReplay
  <2> DEFINE p == FirstLock(src(n), tx[t].dst)
             new == [tx[t] EXCEPT !.tip = n, !.at = row[r].revoked, !.src = src(n), !.pc = p]
  <2> HIDE DEF p, src
  <2>2. tx' = [tx EXCEPT ![t] = new]
    BY <1>1, <2>1 DEF p, TxRecord
  <2>3. /\ new.op = tx[t].op /\ new.dst = tx[t].dst /\ new.dom = tx[t].dom /\ new.src = src(n)
        /\ new.tip = n /\ new.orgs = tx[t].orgs /\ new.pc = p /\ new.ref = tx[t].ref
    BY <1>1 DEF TxRecord
  <2>4. tx'[t] = new
    BY <1>1, <2>2
  <2> HIDE DEF new
  <2>5. n # None /\ tx[t].orgs = {} /\ tx[t].dst \in Scope /\ src(n) \in Scope
    <3>1. row[n] \in RowRecord
      BY InvariantParts DEF TablesOK, TablesTyped
    <3>2. QED
      BY <1>1, <2>1, <3>1, ConstantsAssumption DEF TxScoped, TxRecord, RowRecord, src, Scope
  <2>6. TxHolds(t)' /\ tx'[t].pc \notin {"idle", "login", "user", "decide"}
    BY <2>1, <2>3, <2>4, <2>5, DecidedHoldsNothing DEF p, Issuing
  <2>7. row[n].ws = Target(t)
    <3>1. PICK k \in 1 .. MaxDepth : Path(r)[k] = n
      BY <2>1 DEF IsTip
    <3>2. QED
      BY <2>1, <2>5, <3>1 DEF Conflicting
  <2>8. TxScoped(t)'
    <3>1. row' = row /\ disabled' = disabled /\ Target(t)' = Target(t)
      BY <2>1, <2>3, <2>4 DEF store, Target
    <3>2. tx[t].op \notin Revoking \cup Memberwise
      BY <2>1 DEF Rotations, Revoking, Memberwise
    <3>3. QED
      BY <1>1, <2>3, <2>4, <2>5, <2>7, <3>1, <3>2 DEF TxScoped
  <2>9. QED
    BY <2>1, <2>2, <2>3, <2>5, <2>6, <2>8, MoveKeepsTxsScoped
<1>5. QED
  BY <1>2, <1>3, <1>4 DEF Decides

(* A membership change touches one organisation, whose rows it has locked. *)
LEMMA MembersLocal ==
  ASSUME SessionInvariant, NEW t \in Tx, ChangesMembers(t),
         NEW w \in Workspace, OrgOf[w] # OrgOf[tx[t].src]
  PROVE  orgSt'[OrgOf[w]] = orgSt[OrgOf[w]] /\ teamSt'[w] = teamSt[w]
<1>0. /\ orgSt \in [Org -> Status] /\ teamSt \in [Workspace -> Status]
      /\ OrgOf \in [Workspace -> Org]
  BY InvariantParts, ConstantsAssumption DEF WorldTyped
<1>1. /\ tx[t].op \in Revoking \cup Memberwise /\ tx[t].src \in Workspace
  <2>1. tx[t].op \in Revoking \cup Memberwise
    BY DEF ChangesMembers, Deactivate, RemoveMember, RemoveTeamMember, Reactivate, AddMember,
           AddTeamMember, DeleteTeam, DeleteOrg, Locked, Revoking, Memberwise
  <2>2. QED
    BY <2>1, InvariantParts DEF TxSafe, WellFormed
<1>2. OrgOf[DefaultTeam[OrgOf[tx[t].src]]] = OrgOf[tx[t].src]
  BY <1>0, <1>1, DefaultTeamAssumption
<1>3. CASE Deactivate(t)
  BY <1>0, <1>3 DEF Deactivate, MoveTeams, ActiveTeams, TeamsOf
<1>4. CASE RemoveMember(t)
  BY <1>0, <1>4 DEF RemoveMember, MoveTeams, TeamsOf
<1>5. CASE RemoveTeamMember(t)
  BY <1>0, <1>5 DEF RemoveTeamMember, MoveTeams
<1>6. CASE Reactivate(t)
  BY <1>0, <1>6 DEF Reactivate, MoveTeams, TeamsOf
<1>7. CASE AddMember(t)
  BY <1>0, <1>2, <1>7 DEF AddMember, MoveTeams
<1>8. CASE AddTeamMember(t)
  BY <1>0, <1>8 DEF AddTeamMember, MoveTeams
<1>9. CASE DeleteTeam(t)
  BY <1>0, <1>2, <1>9 DEF DeleteTeam
<1>10. CASE DeleteOrg(t)
  BY <1>0, <1>10 DEF DeleteOrg, MoveTeams, TeamsOf
<1>11. QED
  BY <1>3, <1>4, <1>5, <1>6, <1>7, <1>8, <1>9, <1>10 DEF ChangesMembers

LEMMA IssuesKeepRows ==
  ASSUME SessionInvariant, NEW t \in Tx, Issues(t), NEW s \in RowId, row[s].st # "none"
  PROVE  SameRow(s)
<1>1. row \in [RowId -> RowRecord]
  BY InvariantParts DEF TablesOK, TablesTyped
<1>2. CASE Opens(t)
  BY <1>1, <1>2 DEF Opens, SameRow
<1>3. CASE Replaces(t)
  <2>1. PICK n \in RowId, new \in RowRecord :
          /\ row[n].st = "none"
          /\ row' = [row EXCEPT ![n] = new, ![tx[t].ref].revoked = now, ![tx[t].ref].next = n]
    BY <1>3 DEF Replaces
  <2>2. tx[t].ref \in RowId /\ tx[t].ref # n
    BY <1>3, <2>1 DEF Replaces, Live, Exists
  <2>3. QED
    BY <1>1, <2>1, <2>2 DEF RowRecord, SameRow
<1>4. QED
  BY <1>2, <1>3 DEF Issues

LEMMA FinishKeepsTxsScoped ==
  ASSUME SessionInvariant, TxsScoped, NEW t \in Tx,
         Quiet(t) \/ Issues(t) \/ Decides(t) \/ ChangesMembers(t)
  PROVE  TxsScoped'
<1>1. CASE Quiet(t)
  BY <1>1, EndKeepsTxsScoped DEF Quiet, RowsStay, Member, members
<1>2. CASE Issues(t)
  <2>1. \A r \in RowId : row[r].st # "none" => SameRow(r)
    BY <1>2, IssuesKeepRows
  <2>2. QED
    BY <1>2, <2>1, EndKeepsTxsScoped DEF Issues, Member, members
<1>3. CASE Decides(t)
  BY <1>3, DecidesKeepsTxsScoped
<1>4. CASE ChangesMembers(t)
  <2>1. End(t) /\ RowsStay /\ UNCHANGED disabled
    BY <1>4, MembersShape
  <2>2. OrgOf[tx[t].src] \in tx[t].orgs
    BY <1>4 DEF TxsScoped, TxHolds, ChangesMembers, Deactivate, RemoveMember, RemoveTeamMember,
           Reactivate, AddMember, AddTeamMember, DeleteTeam, DeleteOrg, Locked, Revoking, Memberwise
  <2>3. ASSUME NEW u \in Tx \ {t}, NEW w \in Workspace, OrgOf[w] \in tx[u].orgs, Member(w)
        PROVE  Member(w)'
    <3>1. OrgOf[w] \in Org
      BY ConstantsAssumption
    <3>2. OrgOf[w] # OrgOf[tx[t].src]
      BY <2>2, <2>3, <3>1 DEF TxsScoped, OrgMutex
    <3>3. QED
      BY <1>4, <2>3, <3>2, MembersLocal DEF Member
  <2>4. QED
    BY <2>1, <2>3, EndKeepsTxsScoped DEF RowsStay
<1>5. QED
  BY <1>1, <1>2, <1>3, <1>4

(* A domain is disabled only while nobody issues. *)
LEMMA EnvironmentKeepsTxsScoped ==
  ASSUME SessionInvariant, TxsScoped, Environment
  PROVE  TxsScoped'
<1>1. tx' = tx /\ UNCHANGED members
  BY DEF Environment, SetDomainStatus, Prune, Tick
<1>2. \A t \in Tx : TxHolds(t)'
  BY <1>1 DEF TxsScoped, TxHolds, Member, members
<1>3. OrgMutex'
  BY <1>1 DEF TxsScoped, OrgMutex
<1>4. \A t \in Tx : TxScoped(t)'
  <2>1. CASE \E d \in Domain : SetDomainStatus(d)
    <3>1. row' = row /\ \A t \in Tx : tx[t].op \notin Issuing
      BY <2>1 DEF SetDomainStatus, HoldsProduct, store
    <3>2. QED
      BY <1>1, <3>1 DEF TxsScoped, TxScoped, Target
  <2>2. CASE Prune \/ Tick
    <3>1. disabled' = disabled /\ \A r \in RowId : SameRow(r)
      <4>1. TablesOK /\ now \in Time
        BY InvariantParts DEF WorldTyped
      <4>2. RowsStay
        BY <2>2, <4>1, PruneRowsStay, UnchangedRowsStay DEF Tick, store
      <4>3. QED
        BY <2>2, <4>2 DEF RowsStay, Prune, Tick
    <3>2. QED
      BY <1>1, <3>1, OthersScoped DEF TxsScoped
  <2>3. QED
    BY <2>1, <2>2 DEF Environment
<1>5. QED
  BY <1>2, <1>3, <1>4 DEF TxsScoped

LEMMA NextTxsScoped ==
  ASSUME SessionInvariant, TxsScoped, [Next]_vars
  PROVE  TxsScoped'
<1>1. CASE Environment
  BY <1>1, EnvironmentKeepsTxsScoped
<1>2. ASSUME NEW t \in Tx, Start(t) \/ Acquire(t) \/ Finish(t) \/ Crash(t)
      PROVE  TxsScoped'
  <2>1. CASE Start(t) \/ Acquire(t)
    BY <2>1, StartKeepsTxsScoped, AcquireKeepsTxsScoped
  <2>2. CASE Finish(t)
    BY <2>2, FinishShapes, FinishKeepsTxsScoped
  <2>3. CASE Crash(t)
    BY <2>3, AbortIsQuiet, FinishKeepsTxsScoped DEF Crash
  <2>4. QED
    BY <1>2, <2>1, <2>2, <2>3
<1>3. CASE UNCHANGED vars
  BY <1>3 DEF vars, store, members, TxsScoped, TxScoped, TxHolds, OrgMutex, Member, Target
<1>4. QED
  BY <1>1, <1>2, <1>3 DEF Next

----------------------------------------------------------------------------
(* Scopes and locks: the sessions. *)

(* Only a membership change touches memberships, and only issuing inserts. *)
LEMMA StepShapes ==
  ASSUME SessionInvariant, [Next]_vars
  PROVE  \/ RowsStay /\ UNCHANGED members /\ now' >= now
         \/ \E t \in Tx : Issues(t)
         \/ \E t \in Tx : ChangesMembers(t)
<1>1. TablesOK /\ now \in Time /\ now >= now
  BY InvariantParts, ConstantsAssumption DEF WorldTyped, Time
<1>2. CASE Environment
  <2>1. UNCHANGED members /\ (Prune \/ row' = row)
    BY <1>2 DEF Environment, SetDomainStatus, Prune, Tick, store
  <2>2. now' >= now
    BY <1>1, <1>2, ConstantsAssumption DEF Environment, SetDomainStatus, Prune, Tick, Time
  <2>3. QED
    BY <1>1, <2>1, <2>2, PruneRowsStay, UnchangedRowsStay
<1>3. ASSUME NEW t \in Tx, Start(t) \/ Acquire(t) \/ Finish(t) \/ Crash(t)
      PROVE  \/ RowsStay /\ UNCHANGED members /\ now' >= now
             \/ Issues(t) \/ ChangesMembers(t)
  <2>1. CASE Start(t)
    <3>1. UNCHANGED <<now, store, members>>
      BY <2>1 DEF Start, Authenticate, BeginIssueCode, BeginExchange, BeginRefresh, BeginLogout,
             BeginSwitch, BeginReset, BeginRevoking, BeginMemberwise, Begin
    <3>2. QED
      BY <1>1, <3>1, UnchangedRowsStay DEF store
  <2>2. CASE Acquire(t)
    BY <1>1, <2>2, UnchangedRowsStay DEF Acquire, LockUser, LockSource, LockTarget, store
  <2>3. CASE Finish(t)
    <3>1. CASE Decides(t)
      <4>1. UNCHANGED <<now, store, members>>
        BY <3>1 DEF Decides, DecideCredential, DecideRotation, DecideReplay
      <4>2. QED
        BY <1>1, <4>1, UnchangedRowsStay DEF store
    <3>2. QED
      BY <1>1, <2>3, <3>1, FinishShapes DEF Quiet
  <2>4. CASE Crash(t)
    BY <1>1, <2>4, AbortIsQuiet DEF Crash, Quiet
  <2>5. QED
    BY <1>3, <2>1, <2>2, <2>3, <2>4
<1>4. CASE UNCHANGED vars
  BY <1>1, <1>4, UnchangedRowsStay DEF vars, store
<1>5. QED
  BY <1>2, <1>3, <1>4 DEF Next

(* The one row that issuing inserts. *)
StaysOld(s) ==
  SameRow(s) /\ (Live(s)' => Live(s)) /\ (row[s].st = "none" => row'[s].st = "none")

LEMMA IssuedRow ==
  ASSUME SessionInvariant, TxsScoped, AssuranceFollowsScope, NEW t \in Tx, Issues(t)
  PROVE  \E n \in RowId :
           /\ \A s \in RowId \ {n} : StaysOld(s)
           /\ row[n].st = "none"
           /\ row'[n].ws \in MfaRequired => row'[n].mfa
           /\ row'[n].ws # None => row'[n].ws \in Workspace /\ Member(row'[n].ws)
           /\ row'[n].dom \notin disabled
<1>1. /\ row \in [RowId -> RowRecord] /\ now \in Time /\ now # Never
      /\ tx[t] \in TxRecord /\ TxScoped(t) /\ TxHolds(t)
  BY InvariantParts, ConstantsAssumption DEF TablesOK, TablesTyped, WorldTyped, TxsScoped, Time, Never
<1>2. CASE Opens(t)
  <2>1. PICK n \in RowId, new \in RowRecord :
          /\ tx[t].op = "exchange" /\ tx[t].pc = "commit"
          /\ row[n].st = "none" /\ row' = [row EXCEPT ![n] = new]
          /\ new.dom = tx[t].dom
          /\ new.ws = IF tx[t].dst # None THEN tx[t].dst ELSE tx[t].src
          /\ new.mfa = tx[t].mfa /\ MfaSufficient(new.ws, new.mfa)
    BY <1>2 DEF Opens
  <2>2. row'[n] = new /\ \A s \in RowId \ {n} : row'[s] = row[s]
    BY <1>1, <2>1
  <2>3. new.ws # None => new.ws \in Workspace /\ Member(new.ws)
    BY <1>1, <2>1 DEF TxHolds, TxRecord, Scope, Issuing
  <2>4. new.dom \notin disabled
    BY <1>1, <2>1 DEF TxScoped, Issuing
  <2>5. QED
    BY <2>1, <2>2, <2>3, <2>4 DEF MfaSufficient, StaysOld, SameRow, Live, Exists
<1>3. CASE Replaces(t)
  <2> DEFINE r == tx[t].ref
  <2>1. PICK n \in RowId, new \in RowRecord :
          /\ tx[t].op \in Rotations /\ tx[t].pc = "commit" /\ tx[t].tip = None
          /\ r \in RowId /\ Live(r) /\ row[n].st = "none"
          /\ row' = [row EXCEPT ![n] = new, ![r].revoked = now, ![r].next = n]
          /\ new.dom = row[r].dom /\ new.mfa = row[r].mfa /\ new.ws = Target(t)
          /\ tx[t].op = "switch" => MfaSufficient(tx[t].dst, new.mfa)
    BY <1>3 DEF Replaces
  <2> HIDE DEF r
  <2>2. r # n
    BY <2>1 DEF Live, Exists
  <2>3. /\ row'[n] = new /\ \A s \in RowId \ {n, r} : row'[s] = row[s]
        /\ SameRow(r) /\ row'[r].revoked = now /\ row'[r].st = row[r].st
    BY <1>1, <2>1, <2>2 DEF RowRecord, SameRow
  <2>4. \A s \in RowId \ {n} : StaysOld(s)
    BY <1>1, <2>1, <2>3 DEF StaysOld, SameRow, Live, Exists
  <2>5. CASE tx[t].op = "switch"
    <3>1. new.ws = tx[t].dst /\ tx[t].dst \in Workspace
      BY <2>1, <2>5, InvariantParts DEF Target, TxSafe, WellFormed
    <3>2. tx[t].dst # None
      BY <3>1, ConstantsAssumption
    <3>3. Member(new.ws)
      BY <1>1, <2>1, <3>1, <3>2 DEF TxHolds, Issuing
    <3>4. new.dom \notin disabled
      BY <1>1, <2>1 DEF r, TxScoped, Issuing
    <3>5. new.ws \in MfaRequired => new.mfa
      BY <2>1, <2>5, <3>1 DEF MfaSufficient
    <3>6. QED
      BY <2>1, <2>3, <2>4, <3>1, <3>3, <3>4, <3>5
  <2>6. CASE tx[t].op = "refresh"
    <3>1. new.ws = row[r].ws /\ tx[t].src = new.ws
      BY <1>1, <2>1, <2>6 DEF Target, r, TxScoped
    <3>2. new.ws # None => new.ws \in Workspace /\ Member(new.ws)
      BY <1>1, <2>1, <3>1 DEF TxHolds, Issuing, TxRecord, Scope
    <3>3. new.ws \in MfaRequired => new.mfa
      BY <2>1, <3>1 DEF AssuranceFollowsScope
    <3>4. new.dom \notin disabled
      BY <1>1, <2>1 DEF r, TxScoped, Issuing
    <3>5. QED
      BY <2>1, <2>3, <2>4, <3>2, <3>3, <3>4
  <2>7. QED
    BY <2>1, <2>5, <2>6 DEF Rotations
<1>4. QED
  BY <1>2, <1>3 DEF Issues

LEMMA NextAssurance ==
  ASSUME SessionInvariant, TxsScoped, AssuranceFollowsScope, [Next]_vars
  PROVE  AssuranceFollowsScope'
<1>1. CASE \E t \in Tx : Issues(t)
  <2>1. PICK n \in RowId :
          /\ \A s \in RowId \ {n} : StaysOld(s)
          /\ row'[n].ws \in MfaRequired => row'[n].mfa
    BY <1>1, IssuedRow
  <2>2. QED
    BY <2>1 DEF AssuranceFollowsScope, StaysOld, SameRow
<1>2. CASE RowsStay
  BY <1>2 DEF AssuranceFollowsScope, RowsStay, SameRow
<1>3. QED
  BY <1>1, <1>2, StepShapes, MembersShape

(* Memberships that end take their sessions with them, and those that      *)
(* begin find none.                                                        *)
LEMMA MembersKeepSessionsScoped ==
  ASSUME SessionInvariant, ScopedSessionsHaveMembership, NEW t \in Tx, ChangesMembers(t)
  PROVE  ScopedSessionsHaveMembership'
<1> DEFINE v == tx[t].src
           o == OrgOf[v]
<1>1. /\ row \in [RowId -> RowRecord] /\ orgSt \in [Org -> Status]
      /\ teamSt \in [Workspace -> Status] /\ OrgOf \in [Workspace -> Org]
      /\ now \in Time /\ now # Never
  BY InvariantParts, ConstantsAssumption DEF TablesOK, TablesTyped, WorldTyped, Time, Never
<1>2. v \in Workspace /\ o \in Org
  <2>1. tx[t].op \in Revoking \cup Memberwise
    BY DEF ChangesMembers, Deactivate, RemoveMember, RemoveTeamMember, Reactivate, AddMember,
           AddTeamMember, DeleteTeam, DeleteOrg, Locked, Revoking, Memberwise
  <2>2. QED
    BY <1>1, <2>1, InvariantParts DEF TxSafe, WellFormed
<1>3. RowsStay
  BY MembersShape
<1> SUFFICES ASSUME NEW r \in RowId, NEW w \in Workspace,
                    Live(r)', row[r].ws = w, Live(r), Member(w) \/ teamSt[w] = "DELETED"
             PROVE  Member(w)' \/ teamSt'[w] = "DELETED"
  <2>1. ASSUME NEW r \in RowId, Live(r)', row'[r].ws # None
        PROVE  LET w == row'[r].ws IN
               \/ orgSt'[OrgOf[w]] = "ACTIVE" /\ teamSt'[w] = "ACTIVE"
               \/ teamSt'[w] = "DELETED"
    <3>1. PICK w \in Workspace : w = row'[r].ws /\ w = row[r].ws /\ Live(r)
      BY <1>1, <1>3, <2>1 DEF RowsStay, SameRow, RowRecord, Scope
    <3>2. Member(w) \/ teamSt[w] = "DELETED"
      BY <2>1, <3>1 DEF ScopedSessionsHaveMembership, Member
    <3>3. Member(w)' \/ teamSt'[w] = "DELETED"
      BY <2>1, <3>1, <3>2
    <3>4. QED
      BY <3>1, <3>3 DEF Member
  <2>2. QED
    BY <2>1 DEF ScopedSessionsHaveMembership
<1>4. Live(r) /\ row[r].ws = w /\ w # None
  BY ConstantsAssumption
<1>5. Member(w) \/ teamSt[w] = "DELETED"
  OBVIOUS
<1> HIDE DEF v
<1>6. CASE OrgOf[w] # o
  BY <1>4, <1>5, <1>6, MembersLocal DEF Member, v
<1>7. CASE OrgOf[w] = o
  <2>1. CASE Deactivate(t) \/ RemoveMember(t)
    <3>1. row' = RevokeIn(row, SessionsOf(o))
      BY <2>1 DEF Deactivate, RemoveMember, v
    <3>2. r \in SessionsOf(o)
      BY <1>2, <1>4, <1>7 DEF SessionsOf
    <3>3. ~Live(r)'
      BY <1>1, <1>4, <3>1, <3>2 DEF RevokeIn, Live, Exists, RowRecord
    <3>4. QED
      BY <3>3
  <2>2. CASE RemoveTeamMember(t)
    <3>1. row' = RevokeIn(row, {s \in RowId : row[s].ws = v})
      BY <2>2 DEF RemoveTeamMember, v
    <3>2. w # v
      BY <1>1, <1>4, <3>1 DEF RevokeIn, Live, Exists, RowRecord
    <3>3. QED
      BY <1>1, <1>4, <1>5, <2>2, <3>2 DEF RemoveTeamMember, MoveTeams, Member, v
  <2>3. CASE Reactivate(t)
    <3>1. orgSt[o] = "DEACTIVATED" /\ teamSt[w] = "DELETED"
      BY <1>5, <1>7, <2>3 DEF Reactivate, v, Member
    <3>2. teamSt'[w] = "DELETED"
      BY <1>4, <2>3, <3>1 DEF Reactivate, MoveTeams
    <3>3. QED
      BY <3>2
  <2>4. CASE AddMember(t)
    <3>1. orgSt'[o] = "ACTIVE" /\ orgSt[o] # "ACTIVE"
      BY <1>1, <1>2, <2>4 DEF AddMember, v
    <3>2. teamSt[w] = "DELETED"
      BY <1>5, <1>7, <3>1 DEF Member
    <3>3. teamSt'[w] = "ACTIVE" \/ teamSt'[w] = teamSt[w]
      BY <1>4, <2>4 DEF AddMember, MoveTeams
    <3>4. QED
      BY <1>7, <3>1, <3>2, <3>3 DEF Member
  <2>5. CASE AddTeamMember(t)
    <3>1. orgSt' = orgSt /\ (teamSt'[w] = "ACTIVE" \/ teamSt'[w] = teamSt[w])
      BY <1>4, <2>5 DEF AddTeamMember, MoveTeams
    <3>2. teamSt[w] = "DELETED" => teamSt'[w] = "DELETED"
      BY <1>4, <2>5 DEF AddTeamMember, MoveTeams
    <3>3. QED
      BY <1>5, <3>1, <3>2 DEF Member
  <2>6. CASE DeleteTeam(t)
    <3>1. /\ orgSt' = orgSt
          /\ teamSt'[w] \in {"DELETED", "ACTIVE", teamSt[w]}
          /\ teamSt[w] = "DELETED" => teamSt'[w] = "DELETED"
      <4>1. orgSt' = orgSt /\ teamSt'[w] \in {"DELETED", "ACTIVE", teamSt[w]}
        BY <1>4, <2>6 DEF DeleteTeam
      <4>2. ASSUME teamSt[w] = "DELETED" PROVE teamSt'[w] = "DELETED"
        BY <1>4, <2>6, <4>2 DEF DeleteTeam
      <4>3. QED
        BY <4>1, <4>2
    <3>2. QED
      BY <1>5, <3>1 DEF Member
  <2>7. CASE DeleteOrg(t)
    <3>1. teamSt'[w] = "DELETED"
      BY <1>4, <1>7, <2>7 DEF DeleteOrg, MoveTeams, TeamsOf, v
    <3>2. QED
      BY <3>1
  <2>8. QED
    BY <2>1, <2>2, <2>3, <2>4, <2>5, <2>6, <2>7 DEF ChangesMembers
<1>8. QED
  BY <1>6, <1>7

LEMMA NextSessionsScoped ==
  ASSUME SessionInvariant, ScopeInvariant, [Next]_vars
  PROVE  ScopedSessionsHaveMembership'
<1>1. TxsScoped
  BY DEF ScopeInvariant, TxsScoped
<1>2. CASE \E t \in Tx : Issues(t)
  <2>1. PICK n \in RowId :
          /\ \A s \in RowId \ {n} : StaysOld(s)
          /\ row'[n].ws # None => Member(row'[n].ws)
    BY <1>1, <1>2, IssuedRow DEF ScopeInvariant
  <2>2. UNCHANGED members
    BY <1>2 DEF Issues
  <2>3. QED
    BY <2>1, <2>2 DEF ScopeInvariant, ScopedSessionsHaveMembership, StaysOld, SameRow, Member, members
<1>3. CASE RowsStay /\ UNCHANGED members
  BY <1>3 DEF ScopeInvariant, ScopedSessionsHaveMembership, RowsStay, SameRow, members
<1>4. CASE \E t \in Tx : ChangesMembers(t)
  BY <1>4, MembersKeepSessionsScoped DEF ScopeInvariant
<1>5. QED
  BY <1>2, <1>3, <1>4, StepShapes

LEMMA InitScopes == Init => ScopeInvariant
<1> SUFFICES ASSUME Init PROVE ScopeInvariant
  OBVIOUS
<1>1. \A t \in Tx : TxScoped(t) /\ TxHolds(t)
  BY DEF Init, TxScoped, TxHolds, Idle, Issuing, Rotations, Revoking, Memberwise
<1>2. OrgMutex
  BY DEF Init, OrgMutex, Idle
<1>3. ScopedSessionsHaveMembership /\ AssuranceFollowsScope
  BY DEF Init, ScopedSessionsHaveMembership, AssuranceFollowsScope, Live, Exists, BlankRow
<1>4. QED
  BY <1>1, <1>2, <1>3 DEF ScopeInvariant

(* The invariant beside SessionInvariant that scopes and locks rest on.    *)
THEOREM ScopeSafety == Spec => [](SessionInvariant /\ ScopeInvariant)
<1>1. Init => SessionInvariant /\ ScopeInvariant
  BY InitInvariant, InitScopes
<1>2. SessionInvariant /\ ScopeInvariant /\ [Next]_vars => SessionInvariant' /\ ScopeInvariant'
  <2> SUFFICES ASSUME SessionInvariant, ScopeInvariant, [Next]_vars
               PROVE  SessionInvariant' /\ ScopeInvariant'
    OBVIOUS
  <2>1. TxsScoped /\ AssuranceFollowsScope
    BY DEF ScopeInvariant, TxsScoped
  <2>2. SessionInvariant' /\ TxsScoped' /\ AssuranceFollowsScope'
    BY <2>1, NextInvariant, NextTxsScoped, NextAssurance
  <2>3. ScopedSessionsHaveMembership'
    BY NextSessionsScoped
  <2>4. QED
    BY <2>2, <2>3 DEF ScopeInvariant, TxsScoped
<1>3. QED
  BY <1>1, <1>2, PTL DEF Spec

(* Every live session scoped to a workspace has both memberships ACTIVE,   *)
(* or its workspace was deleted: whatever removals, deactivations and      *)
(* issuing transactions ran at once, each saw the other's outcome under    *)
(* the membership row locks.                                               *)
THEOREM SessionsKeepTheirMembership == Spec => []ScopedSessionsHaveMembership
<1>1. ScopeInvariant => ScopedSessionsHaveMembership
  BY DEF ScopeInvariant
<1>2. QED
  BY <1>1, ScopeSafety, PTL

(* No session gets into a scope that demands a second factor without one,  *)
(* by exchange, rotation or any chain of switches.                         *)
THEOREM AssuranceIsInherited == Spec => []AssuranceFollowsScope
<1>1. ScopeInvariant => AssuranceFollowsScope
  BY DEF ScopeInvariant
<1>2. QED
  BY <1>1, ScopeSafety, PTL

(* The lock order of the services admits no two transactions that wait for *)
(* each other: whoever waits for the user lock holds no membership rows,   *)
(* and whoever holds rows and waits for more has the user lock.            *)
THEOREM LocksAreOrdered == Spec => []NoWaitCycle
<1>1. SessionInvariant /\ ScopeInvariant => NoWaitCycle
  <2> SUFFICES ASSUME SessionInvariant, ScopeInvariant, NEW t \in Tx, NEW u \in Tx, t # u,
                      WaitsFor(t, u), WaitsFor(u, t)
               PROVE  FALSE
    BY DEF NoWaitCycle
  <2>1. /\ TxScoped(t) /\ TxScoped(u) /\ WellFormed(t) /\ WellFormed(u) /\ UserMutex
    BY InvariantParts DEF ScopeInvariant, TxSafe
  <2>2. tx[t].pc \in {"user", "source", "target"} /\ tx[u].pc \in {"user", "source", "target"}
    BY DEF WaitsFor
  <2>3. tx[t].pc = "target" /\ tx[u].pc = "target"
    BY <2>1, <2>2 DEF WaitsFor, TxScoped, HoldsUser, UserLocked
  <2>4. tx[t].op \notin Memberwise /\ tx[u].op \notin Memberwise
    BY <2>1, <2>3, ConstantsAssumption DEF WellFormed, TxScoped
  <2>5. HoldsUser(t) /\ HoldsUser(u)
    BY <2>3, <2>4 DEF HoldsUser, TakesUserLock, UserLocked
  <2>6. QED
    BY <2>1, <2>5 DEF UserMutex
<1>2. QED
  BY <1>1, ScopeSafety, PTL

(* Once the change of a domain's status commits, no refresh token is       *)
(* created for it: issuing holds the product-policy lock from before its   *)
(* check of the domain until its commit.                                   *)
THEOREM DisabledDomainsIssueNothing == Spec => NoIssueForDisabledDomain
<1>1. SessionInvariant /\ ScopeInvariant /\ [Next]_vars =>
        [\A r \in RowId : row[r].st = "none" /\ row'[r].st = "row"
                            => row'[r].dom \notin disabled]_vars
  <2> SUFFICES ASSUME SessionInvariant, ScopeInvariant, [Next]_vars,
                      NEW r \in RowId, row[r].st = "none", row'[r].st = "row"
               PROVE  row'[r].dom \notin disabled
    OBVIOUS
  <2>1. TxsScoped /\ AssuranceFollowsScope
    BY DEF ScopeInvariant, TxsScoped
  <2>2. ~RowsStay
    BY DEF RowsStay
  <2>3. PICK t \in Tx : Issues(t)
    BY <2>2, StepShapes, MembersShape
  <2>4. PICK n \in RowId :
          /\ \A s \in RowId \ {n} : StaysOld(s)
          /\ row'[n].dom \notin disabled
    BY <2>1, <2>3, IssuedRow
  <2>5. QED
    BY <2>4 DEF StaysOld
<1>2. QED
  BY <1>1, ScopeSafety, PTL DEF Spec, NoIssueForDisabledDomain

----------------------------------------------------------------------------
(* Induction over the naturals, for sets: from the library's well-founded  *)
(* orderings.                                                              *)

LEMMA LeastNatural ==
  ASSUME NEW T, T \subseteq Nat, T # {}
  PROVE  \E m \in T : \A n \in T : m <= n
<1> DEFINE Below(n) == {k \in Nat : k < n}
           U == {Below(n) : n \in T}
           R == StrictSubsetOrdering(Nat)
<1>1. \A n \in T : IsFiniteSet(Below(n))
  <2> SUFFICES ASSUME NEW n \in T PROVE IsFiniteSet(Below(n))
    OBVIOUS
  <2>1. n \in Nat /\ Below(n) \in SUBSET Nat /\ \A s \in Below(n) : s <= n
    OBVIOUS
  <2> HIDE DEF Below
  <2>2. QED
    BY <2>1, FS_BoundedSetOfNaturals
<1>2. U \subseteq FiniteSubsetsOf(Nat) /\ U # {}
  BY <1>1 DEF FiniteSubsetsOf
<1>3. IsWellFoundedOn(R, FiniteSubsetsOf(Nat))
  BY FS_StrictSubsetOrderingWellFounded
<1>4. PICK X \in U : \A Y \in U : ~(<<Y, X>> \in R)
  <2> HIDE DEF U, R
  <2>1. QED
    BY <1>2, <1>3, WFMin
<1>5. PICK m \in T : X = Below(m)
  OBVIOUS
<1>6. ASSUME NEW n \in T, n < m PROVE FALSE
  <2>1. Below(n) \subseteq Below(m) /\ n \in Below(m) /\ n \notin Below(n)
    BY <1>6
  <2>2. <<Below(n), Below(m)>> \in R
    <3>1. Below(n) \in SUBSET Nat /\ Below(m) \in SUBSET Nat /\ Below(n) # Below(m)
      BY <2>1
    <3> HIDE DEF Below
    <3>2. QED
      BY <2>1, <3>1 DEF StrictSubsetOrdering
  <2>3. QED
    BY <1>4, <1>5, <2>2
<1>7. QED
  BY <1>6

LEMMA NaturalsByInduction ==
  ASSUME NEW P, P \subseteq Nat, 0 \in P, \A n \in P : n + 1 \in P
  PROVE  P = Nat
<1> SUFFICES ASSUME Nat \ P # {} PROVE FALSE
  OBVIOUS
<1>1. PICK m \in Nat \ P : \A n \in Nat \ P : m <= n
  BY LeastNatural
<1>2. m # 0 /\ m - 1 \in Nat /\ m = (m - 1) + 1
  BY <1>1
<1>3. m - 1 \in P
  BY <1>1, <1>2
<1>4. QED
  BY <1>2, <1>3

(* The chain is walked a step at a time. *)
NextOf(s) == IF s = None \/ row[s].st # "row" THEN None ELSE row[s].next

LEMMA PathSteps ==
  ASSUME NEW r
  PROVE  /\ Path(r)[0] = r
         /\ \A k \in 1 .. MaxDepth + 1 : Path(r)[k] = NextOf(Path(r)[k - 1])
<1> DEFINE Walk(n, f) == f = [k \in 0 .. n |-> IF k = 0 THEN r ELSE NextOf(f[k - 1])]
           W == {n \in Nat : \E f : Walk(n, f)}
<1>1. 0 \in W
  <2>1. Walk(0, [k \in 0 .. 0 |-> r])
    OBVIOUS
  <2> HIDE DEF Walk
  <2>2. QED
    BY <2>1
<1>2. ASSUME NEW n \in W PROVE n + 1 \in W
  <2>1. PICK f : Walk(n, f)
    OBVIOUS
  <2> DEFINE g == [k \in 0 .. n + 1 |-> IF k = n + 1 THEN NextOf(f[n]) ELSE f[k]]
  <2>2. n \in Nat
    OBVIOUS
  <2>3. \A k \in 0 .. n : g[k] = f[k]
    BY <2>2
  <2>4. \A k \in 0 .. n + 1 : g[k] = IF k = 0 THEN r ELSE NextOf(g[k - 1])
    <3> SUFFICES ASSUME NEW k \in 0 .. n + 1
                 PROVE  g[k] = IF k = 0 THEN r ELSE NextOf(g[k - 1])
      OBVIOUS
    <3>1. CASE k = n + 1
      BY <2>2, <2>3, <3>1
    <3>2. CASE k # n + 1
      <4>1. k \in 0 .. n /\ g[k] = f[k] /\ (k # 0 => g[k - 1] = f[k - 1])
        BY <2>2, <2>3, <3>2
      <4>2. f[k] = IF k = 0 THEN r ELSE NextOf(f[k - 1])
        BY <2>1, <4>1
      <4>3. QED
        BY <4>1, <4>2
    <3>3. QED
      BY <3>1, <3>2
  <2>5. Walk(n + 1, g)
    <3>1. g = [k \in 0 .. n + 1 |-> g[k]]
      OBVIOUS
    <3> HIDE DEF g
    <3>2. [k \in 0 .. n + 1 |-> g[k]] = [k \in 0 .. n + 1 |-> IF k = 0 THEN r ELSE NextOf(g[k - 1])]
      BY <2>4
    <3>3. QED
      BY <3>1, <3>2
  <2> HIDE DEF Walk, g
  <2>6. QED
    BY <2>2, <2>5
<1>3. MaxDepth + 1 \in W
  <2>1. W = Nat
    <3>1. W \subseteq Nat
      OBVIOUS
    <3> HIDE DEF W
    <3>2. QED
      BY <1>1, <1>2, <3>1, NaturalsByInduction
  <2> HIDE DEF W
  <2>2. QED
    BY <2>1, ConstantsAssumption
<1>4. PICK f : Walk(MaxDepth + 1, f)
  BY <1>3
<1>5. Path(r) = CHOOSE g : Walk(MaxDepth + 1, g)
  BY DEF Path, NextOf
<1>6. Walk(MaxDepth + 1, Path(r))
  <2> HIDE DEF Walk
  <2>1. QED
    BY <1>4, <1>5
<1> DEFINE p == Path(r)
<1>7. p = [k \in 0 .. MaxDepth + 1 |-> IF k = 0 THEN r ELSE NextOf(p[k - 1])]
  BY <1>6
<1> HIDE DEF p
<1>8. \A k \in 0 .. MaxDepth + 1 : p[k] = IF k = 0 THEN r ELSE NextOf(p[k - 1])
  BY <1>7
<1>9. QED
  BY <1>8, ConstantsAssumption DEF p

----------------------------------------------------------------------------
(* The chains. *)

(* A walk over linked rows meets each at most once, and every one is the   *)
(* child of the one before.                                                *)
LEMMA ChainsNeverBreak ==
  ASSUME SessionInvariant, ChainInvariant
  PROVE  ChainsAreSound
<1> SUFFICES ASSUME NEW r \in RowId, Exists(r), Broken(r) PROVE FALSE
  BY DEF ChainsAreSound
<1> DEFINE p == Path(r)
<1>1. /\ p[0] = r
      /\ \A k \in 1 .. MaxDepth + 1 : p[k] = NextOf(p[k - 1])
  BY PathSteps
<1>2. row \in [RowId -> RowRecord] /\ None \notin RowId
  BY InvariantParts, ConstantsAssumption DEF TablesOK, TablesTyped
<1>3. PICK rank \in [RowId -> Nat] :
        \A s \in RowId : row[s].st # "none" /\ row[s].next # None => rank[s] < rank[row[s].next]
  BY DEF ChainInvariant, ChainsRise
<1> DEFINE Descends(k) ==
             /\ p[k] \in RowId /\ Exists(p[k])
             /\ row[p[k]].fam = row[r].fam /\ row[p[k]].dom = row[r].dom
             /\ row[p[k]].mfa = row[r].mfa
             /\ k > 0 => row[p[k]].parent = p[k - 1]
             /\ \A j \in 0 .. k - 1 : p[j] \in RowId /\ rank[p[j]] < rank[p[k]]
           D == {k \in Nat : k <= MaxDepth /\ p[k] # None => Descends(k)}
<1> HIDE DEF p
<1>4. 0 \in D
  BY <1>1
<1>5. ASSUME NEW k \in D PROVE k + 1 \in D
  <2> SUFFICES ASSUME k + 1 <= MaxDepth, p[k + 1] # None PROVE Descends(k + 1)
    OBVIOUS
  <2>1. k \in Nat /\ k <= MaxDepth /\ k + 1 \in 1 .. MaxDepth + 1 /\ (k + 1) - 1 = k
    BY ConstantsAssumption
  <2>2. p[k + 1] = NextOf(p[k])
    BY <1>1, <2>1
  <2>3. p[k] # None /\ row[p[k]].st = "row" /\ p[k + 1] = row[p[k]].next
    BY <2>2 DEF NextOf
  <2>4. Descends(k)
    BY <2>1, <2>3
  <2>5. p[k] \in RowId /\ p[k + 1] \in RowId
    BY <1>2, <2>3, <2>4 DEF RowRecord
  <2>6. Linked(p[k], p[k + 1]) /\ Exists(p[k + 1])
    BY <2>3, <2>5 DEF ChainInvariant, ChainsLinked, Linked, Exists
  <2>7. rank[p[k]] < rank[p[k + 1]]
    BY <1>3, <2>3, <2>5
  <2>8. ASSUME NEW j \in 0 .. (k + 1) - 1
        PROVE  p[j] \in RowId /\ rank[p[j]] < rank[p[k + 1]]
    <3>1. CASE j = k
      BY <2>5, <2>7, <3>1
    <3>2. CASE j # k
      <4>1. j \in 0 .. k - 1
        BY <2>1, <3>2
      <4>2. p[j] \in RowId /\ rank[p[j]] < rank[p[k]]
        BY <2>4, <4>1
      <4>3. rank[p[j]] \in Nat /\ rank[p[k]] \in Nat /\ rank[p[k + 1]] \in Nat
        BY <1>3, <2>5, <4>2
      <4>4. QED
        BY <2>7, <4>2, <4>3
    <3>3. QED
      BY <3>1, <3>2
  <2>9. QED
    BY <2>1, <2>4, <2>5, <2>6, <2>8 DEF Linked
<1>6. D = Nat
  <2>1. D \subseteq Nat
    OBVIOUS
  <2> HIDE DEF D
  <2>2. QED
    BY <1>4, <1>5, <2>1, NaturalsByInduction
<1>7. PICK k \in 1 .. MaxDepth :
        /\ p[k] # None
        /\ \/ ~Exists(p[k])
           \/ \E j \in 0 .. k - 1 : p[j] = p[k]
           \/ row[p[k]].parent # p[k - 1]
           \/ <<row[p[k]].fam, row[p[k]].dom, row[p[k]].mfa>>
                # <<row[r].fam, row[r].dom, row[r].mfa>>
  BY DEF Broken, p
<1>8. k \in Nat /\ k <= MaxDepth /\ k > 0
  BY ConstantsAssumption
<1>9. Descends(k)
  <2>1. k \in D
    BY <1>6, <1>8
  <2>2. QED
    BY <1>7, <1>8, <2>1
<1>10. \A j \in 0 .. k - 1 : p[j] # p[k]
  <2> SUFFICES ASSUME NEW j \in 0 .. k - 1, p[j] = p[k] PROVE FALSE
    OBVIOUS
  <2>1. rank[p[j]] < rank[p[k]] /\ rank[p[k]] \in Nat
    BY <1>3, <1>9
  <2>2. QED
    BY <2>1
<1>11. QED
  BY <1>7, <1>8, <1>9, <1>10

(* The chains stay sound while rows stay, and when one is inserted. *)

Chained == ChainsLinked /\ FamiliesRooted /\ ChainsRise

LEMMA StayingKeepsChains ==
  ASSUME SessionInvariant, Chained, RowsStay, now' \in Time, now' >= now
  PROVE  Chained'
<1>1. row \in [RowId -> RowRecord] /\ FamiliesNamed /\ now \in Nat
  BY InvariantParts, ConstantsAssumption
     DEF TablesOK, TablesTyped, FamiliesSafe, WorldTyped, Time
<1>2. PICK h \in Int : \A r \in RowId :
        /\ SameRow(r) /\ row'[r].next = row[r].next
        /\ row'[r].st = "none" <=> row[r].st = "none"
        /\ Exists(r)' <=> Exists(r) /\ row[r].expires >= h
  BY DEF RowsStay
<1>3. \A r \in RowId : row[r].next \in RowId \cup {None} /\ row[r].expires \in Nat
                       /\ row[r].created \in Nat
  BY <1>1, ConstantsAssumption DEF RowRecord, Time
<1>4. ChainsLinked'
  <2> SUFFICES ASSUME NEW r \in RowId, row[r].st # "none"
               PROVE  /\ row[r].created <= now'
                      /\ row[r].next # None => Linked(r, row[r].next)'
    BY <1>2 DEF ChainsLinked, SameRow
  <2>1. row[r].created <= now'
    <3>1. row[r].created <= now
      BY DEF Chained, ChainsLinked
    <3>2. now' >= now
      OBVIOUS
    <3>3. now' \in Int
      BY ConstantsAssumption DEF Time
    <3>4. QED
      BY <1>1, <1>3, <3>1, <3>2, <3>3
  <2>2. ASSUME row[r].next # None PROVE Linked(r, row[r].next)'
    <3>1. PICK n \in RowId : n = row[r].next
      BY <1>3, <2>2
    <3>2. Linked(r, n)
      BY <2>2, <3>1 DEF Chained, ChainsLinked
    <3>3. Exists(r)' => Exists(n)'
      BY <1>2, <1>3, <3>2 DEF Linked
    <3>4. Linked(r, n)'
      BY <1>2, <3>2, <3>3 DEF Linked, SameRow
    <3>5. row'[r].next = n
      BY <1>2, <3>1
    <3>6. QED
      BY <3>4, <3>5 DEF Linked
  <2>3. QED
    BY <2>1, <2>2
<1>5. FamiliesRooted'
  BY <1>1, <1>2 DEF Chained, FamiliesRooted, FamiliesNamed, SameRow
<1>6. ChainsRise'
  BY <1>2 DEF Chained, ChainsRise
<1>7. QED
  BY <1>4, <1>5, <1>6 DEF Chained

LEMMA IssuingKeepsChains ==
  ASSUME SessionInvariant, Chained, NEW t \in Tx, Issues(t)
  PROVE  Chained'
<1>1. /\ row \in [RowId -> RowRecord] /\ FamiliesNamed /\ now \in Time /\ now \in Nat
      /\ None \notin RowId /\ MinTtl \in Nat /\ now' = now
  BY InvariantParts, ConstantsAssumption
     DEF TablesOK, TablesTyped, FamiliesSafe, WorldTyped, Time, Issues
<1>2. \A r \in RowId : row[r].next \in RowId \cup {None} /\ row[r].expires \in Nat
                       /\ row[r].created \in Nat
  BY <1>1, ConstantsAssumption DEF RowRecord, Time
<1>3. \A r \in RowId : row[r].st # "none" /\ row[r].next # None =>
        row[r].next \in RowId /\ row[row[r].next].st # "none"
  BY <1>2 DEF Chained, ChainsLinked, Linked
<1>4. \A r \in RowId : row[r].st # "none" =>
        row[r].fam \in RowId /\ row[row[r].fam].st # "none"
  BY <1>1 DEF FamiliesNamed
<1>5. CASE Opens(t)
  <2>1. PICK n \in RowId, new \in RowRecord :
          /\ row[n].st = "none" /\ row' = [row EXCEPT ![n] = new]
          /\ new.st = "row" /\ new.fam = n /\ new.next = None /\ new.created = now
    BY <1>5 DEF Opens
  <2>2. row'[n] = new /\ \A r \in RowId \ {n} : row'[r] = row[r]
    BY <1>1, <2>1
  <2>3. ChainsLinked'
    <3> SUFFICES ASSUME NEW r \in RowId, row'[r].st # "none"
                 PROVE  /\ row'[r].created <= now'
                        /\ row'[r].next # None => Linked(r, row[r].next)'
      BY DEF ChainsLinked
    <3>1. CASE r = n
      BY <1>1, <2>1, <2>2, <3>1
    <3>2. CASE r # n
      <4>1. row'[r] = row[r] /\ row[r].created <= now
        BY <2>2, <3>2 DEF Chained, ChainsLinked
      <4>2. ASSUME row[r].next # None PROVE Linked(r, row[r].next)'
        <5>1. PICK m \in RowId : m = row[r].next /\ m # n
          BY <1>3, <2>1, <4>1, <4>2
        <5>2. Linked(r, m)
          BY <4>1, <4>2, <5>1 DEF Chained, ChainsLinked
        <5>3. row'[m] = row[m]
          BY <2>2, <5>1
        <5>4. QED
          BY <4>1, <5>1, <5>2, <5>3 DEF Linked, Exists
      <4>3. QED
        BY <1>1, <4>1, <4>2
    <3>3. QED
      BY <3>1, <3>2
  <2>4. FamiliesRooted'
    <3> SUFFICES ASSUME NEW r \in RowId, row'[r].st # "none"
                 PROVE  row'[row'[r].fam].fam = row'[r].fam
      BY DEF FamiliesRooted
    <3>1. CASE r = n
      BY <2>1, <2>2, <3>1
    <3>2. CASE r # n
      <4>1. row'[r] = row[r] /\ row[r].fam \in RowId /\ row[r].fam # n
        BY <1>4, <2>1, <2>2, <3>2
      <4>2. row[row[r].fam].fam = row[r].fam
        BY <4>1 DEF Chained, FamiliesRooted
      <4>3. QED
        BY <2>2, <4>1, <4>2
    <3>3. QED
      BY <3>1, <3>2
  <2>5. ChainsRise'
    BY <2>1, <2>2 DEF Chained, ChainsRise
  <2>6. QED
    BY <2>3, <2>4, <2>5 DEF Chained
<1>6. CASE Replaces(t)
  <2>1. PICK r \in RowId, n \in RowId, new \in RowRecord :
          /\ Live(r) /\ row[n].st = "none"
          /\ row' = [row EXCEPT ![n] = new, ![r].revoked = now, ![r].next = n]
          /\ new.st = "row" /\ new.fam = row[r].fam /\ new.next = None
          /\ new.parent = r /\ new.dom = row[r].dom /\ new.mfa = row[r].mfa
          /\ new.created = now
          /\ new.expires = now + Longest(row[r].expires - row[r].created, MinTtl)
    BY <1>6 DEF Replaces
  <2>2. r # n /\ row[r].st = "row"
    BY <2>1 DEF Live, Exists
  <2>3. /\ row'[n] = new /\ \A s \in RowId \ {n, r} : row'[s] = row[s]
        /\ SameRow(r) /\ row'[r].next = n /\ row'[r].st = row[r].st
    BY <1>1, <2>1, <2>2 DEF RowRecord, SameRow
  <2>4. \A s \in RowId \ {n} : SameRow(s) /\ row'[s].st = row[s].st
    BY <2>3 DEF SameRow
  <2>5. new.expires >= row[r].expires
    <3>1. row[r].created <= now
      BY <2>1, <2>2 DEF Chained, ChainsLinked
    <3>2. QED
      BY <1>1, <1>2, <2>1, <3>1 DEF Longest
  <2>6. ChainsLinked'
    <3> SUFFICES ASSUME NEW s \in RowId, row'[s].st # "none"
                 PROVE  /\ row'[s].created <= now'
                        /\ row'[s].next # None => Linked(s, row[s].next)'
      BY DEF ChainsLinked
    <3>1. CASE s = n
      BY <1>1, <2>1, <2>3, <3>1
    <3>2. CASE s # n
      <4>1. SameRow(s) /\ row'[s].st = row[s].st /\ row[s].created <= now
        BY <2>4, <3>2 DEF Chained, ChainsLinked
      <4>2. CASE s = r
        <5>1. Linked(r, n)'
          BY <2>1, <2>3, <2>5 DEF Linked, SameRow, Exists
        <5>2. QED
          BY <1>1, <2>3, <4>1, <4>2, <5>1 DEF SameRow
      <4>3. CASE s # r
        <5>1. row'[s] = row[s]
          BY <2>3, <3>2, <4>3
        <5>2. ASSUME row[s].next # None PROVE Linked(s, row[s].next)'
          <6>1. PICK m \in RowId : m = row[s].next /\ m # n
            BY <1>3, <2>1, <4>1, <5>2
          <6>2. Linked(s, m)
            BY <4>1, <5>2, <6>1 DEF Chained, ChainsLinked
          <6>3. SameRow(m) /\ row'[m].st = row[m].st
            BY <2>4, <6>1
          <6>4. Linked(s, m)'
            BY <5>1, <6>2, <6>3 DEF Linked, SameRow, Exists
          <6>5. QED
            BY <5>1, <6>1, <6>4 DEF Linked
        <5>3. QED
          BY <1>1, <4>1, <5>1, <5>2
      <4>4. QED
        BY <4>2, <4>3
    <3>3. QED
      BY <3>1, <3>2
  <2>7. FamiliesRooted'
    <3> SUFFICES ASSUME NEW s \in RowId, row'[s].st # "none"
                 PROVE  row'[row'[s].fam].fam = row'[s].fam
      BY DEF FamiliesRooted
    <3>1. PICK v \in RowId : row[v].st # "none" /\ row'[s].fam = row[v].fam
      <4>1. CASE s = n
        BY <2>1, <2>2, <2>3, <4>1
      <4>2. CASE s # n
        BY <2>4, <4>2 DEF SameRow
      <4>3. QED
        BY <4>1, <4>2
    <3>2. row[v].fam \in RowId /\ row[v].fam # n /\ row[row[v].fam].fam = row[v].fam
      BY <1>4, <2>1, <3>1 DEF Chained, FamiliesRooted
    <3>3. QED
      BY <2>4, <3>1, <3>2 DEF SameRow
  <2>8. ChainsRise'
    <3>1. PICK rank \in [RowId -> Nat] :
            \A s \in RowId : row[s].st # "none" /\ row[s].next # None => rank[s] < rank[row[s].next]
      BY DEF Chained, ChainsRise
    <3> DEFINE higher == [rank EXCEPT ![n] = rank[r] + 1]
    <3>2. higher \in [RowId -> Nat] /\ higher[n] = rank[r] + 1
          /\ \A s \in RowId \ {n} : higher[s] = rank[s]
      BY <2>1, <3>1
    <3> HIDE DEF higher
    <3>3. ASSUME NEW s \in RowId, row'[s].st # "none", row'[s].next # None
          PROVE  higher[s] < higher[row'[s].next]
      <4>1. s # n
        BY <2>1, <2>3, <3>3
      <4>2. CASE s = r
        <5>1. higher[s] = rank[r] /\ rank[r] \in Nat /\ row'[s].next = n
          BY <2>1, <2>3, <3>1, <3>2, <4>1, <4>2
        <5>2. QED
          BY <3>2, <5>1
      <4>3. CASE s # r
        <5>1. row'[s] = row[s]
          BY <2>3, <4>1, <4>3
        <5>2. row[s].next \in RowId /\ row[s].next # n
          BY <1>3, <2>1, <3>3, <5>1
        <5>3. QED
          BY <3>1, <3>2, <3>3, <4>1, <5>1, <5>2
      <4>4. QED
        BY <4>2, <4>3
    <3>4. QED
      BY <3>2, <3>3 DEF ChainsRise
  <2>9. QED
    BY <2>6, <2>7, <2>8 DEF Chained
<1>7. QED
  BY <1>5, <1>6 DEF Issues

----------------------------------------------------------------------------
(* What a step does to the families.  Since no chain is ever broken, reuse *)
(* condemns one family and no other.                                       *)

Held == UNCHANGED <<row, epoch, bumps>>

RevokedSome ==
  \E S \in SUBSET RowId : row' = RevokeIn(row, S) /\ UNCHANGED <<epoch, bumps>>

CondemnedOne ==
  \E r \in RowId :
    /\ Exists(r) /\ ~row[r].sec
    /\ row' = CondemnIn(row, Family(r))
    /\ epoch' = epoch + 1
    /\ bumps' = [bumps EXCEPT ![row[r].fam] = @ + 1]

PrunedSome ==
  \E old \in SUBSET RowId :
    /\ row' = [r \in RowId |-> IF r \in old THEN [row[r] EXCEPT !.st = "pruned"] ELSE row[r]]
    /\ \A r \in old : Exists(r)
    /\ UNCHANGED <<epoch, bumps>>

LEMMA CondemnOne ==
  ASSUME NEW r \in RowId, Condemn(row, r, Family(r))
  PROVE  CondemnedOne \/ Held
<1>1. CASE row[r].st = "row" /\ ~row[r].sec
  <2>1. Family(r) \cup {r} = Family(r)
    BY <1>1 DEF Family
  <2>2. QED
    BY <1>1, <2>1 DEF Condemn, CondemnedOne, Exists
<1>2. CASE ~(row[r].st = "row" /\ ~row[r].sec)
  BY <1>2 DEF Condemn, Held
<1>3. QED
  BY <1>1, <1>2

LEMMA AbortHolds ==
  ASSUME NEW t \in Tx, Abort(t)
  PROVE  Held
BY DEF Abort, Held, store, history

LEMMA RefuseShape ==
  ASSUME SessionInvariant, NEW t \in Tx, Refuse(t)
  PROVE  Held \/ CondemnedOne \/ RevokedSome
<1>1. CASE Abort(t)
  BY <1>1, AbortHolds
<1>2. CASE ~Abort(t)
  <2>1. tx[t].ref \in RowId
    BY <1>2, InvariantParts DEF Refuse, TxSafe, WellFormed
  <2>2. CASE Condemn(row, tx[t].ref, Family(tx[t].ref))
    BY <2>1, <2>2, CondemnOne
  <2>3. CASE row' = RevokeIn(row, Family(tx[t].ref)) /\ UNCHANGED <<epoch, history>>
    <3>1. Family(tx[t].ref) \in SUBSET RowId
      BY DEF Family
    <3>2. QED
      BY <2>3, <3>1 DEF RevokedSome, history
  <2>4. QED
    BY <1>2, <2>2, <2>3 DEF Refuse
<1>3. QED
  BY <1>1, <1>2

LEMMA FamilyShapes ==
  ASSUME SessionInvariant, ChainsAreSound, [Next]_vars
  PROVE  \/ Held \/ RevokedSome \/ CondemnedOne \/ AllRevoked \/ PrunedSome
         \/ \E t \in Tx : Opens(t) \/ Replaces(t)
<1>1. CASE UNCHANGED vars
  BY <1>1 DEF vars, store, history, Held
<1>2. CASE Environment
  <2>1. CASE Prune
    <3> DEFINE old == {r \in RowId : Exists(r) /\ row[r].expires < now - Retention}
    <3>1. /\ row' = [r \in RowId |-> IF r \in old THEN [row[r] EXCEPT !.st = "pruned"] ELSE row[r]]
          /\ UNCHANGED <<epoch, bumps>>
      BY <2>1 DEF Prune, history
    <3>2. old \in SUBSET RowId /\ \A r \in old : Exists(r)
      OBVIOUS
    <3> HIDE DEF old
    <3>3. QED
      BY <3>1, <3>2 DEF PrunedSome
  <2>2. CASE Tick \/ \E d \in Domain : SetDomainStatus(d)
    BY <2>2 DEF Tick, SetDomainStatus, store, history, Held
  <2>3. QED
    BY <1>2, <2>1, <2>2 DEF Environment
<1>3. ASSUME NEW t \in Tx, Start(t) \/ Acquire(t) \/ Finish(t) \/ Crash(t)
      PROVE  \/ Held \/ RevokedSome \/ CondemnedOne \/ AllRevoked
             \/ Opens(t) \/ Replaces(t)
  <2>1. CASE Abort(t)
    BY <2>1, AbortHolds
  <2>2. CASE Start(t)
    BY <2>2 DEF Start, Authenticate, BeginIssueCode, BeginExchange, BeginRefresh, BeginLogout,
           BeginSwitch, BeginReset, BeginRevoking, BeginMemberwise, Begin, Held, store, history
  <2>3. CASE Acquire(t)
    BY <2>3 DEF Acquire, LockUser, LockSource, LockTarget, Held, store, history
  <2>4. CASE Finish(t) /\ ~Abort(t)
    <3>1. CASE RefuseScope(t) \/ RefusePolicy(t) \/ RefuseMembership(t)
      BY <2>4, <3>1, RefuseShape DEF RefuseScope, RefusePolicy, RefuseMembership
    <3>2. CASE DecideCredential(t) \/ DecideRotation(t) \/ DecideReplay(t)
      BY <2>4, <3>2 DEF DecideCredential, DecideRotation, DecideReplay, Held, store, history
    <3>3. CASE RejectReplay(t)
      <4>1. tx[t].ref \in RowId /\ Exists(tx[t].ref)
        BY <3>3, InvariantParts DEF RejectReplay, TxSafe, WellFormed
      <4>2. ~Broken(tx[t].ref)
        BY <4>1 DEF ChainsAreSound
      <4>3. Condemn(row, tx[t].ref, Family(tx[t].ref))
        BY <3>3, <4>2 DEF RejectReplay
      <4>4. QED
        BY <4>1, <4>3, CondemnOne
    <3>4. CASE CommitCode(t)
      BY <3>4 DEF CommitCode, Held, history
    <3>5. CASE CommitExchange(t) \/ Rotate(t)
      BY <2>4, <3>5, ExchangeShape, RotateShape DEF Issues
    <3>6. CASE AnswerReplay(t)
      <4>1. CASE Refuse(t)
        BY <4>1, RefuseShape
      <4>2. CASE ~Refuse(t)
        BY <2>4, <3>6, <4>2 DEF AnswerReplay, Held, store
      <4>3. QED
        BY <4>1, <4>2
    <3>7. CASE Logout(t)
      BY <3>7, CondemnOne, InvariantParts DEF Logout, TxSafe, WellFormed
    <3>8. CASE Reset(t)
      BY <3>8 DEF Reset, AllRevoked
    <3>9. CASE Deactivate(t) \/ RemoveMember(t) \/ RemoveTeamMember(t)
      BY <3>9 DEF Deactivate, RemoveMember, RemoveTeamMember, SessionsOf, RevokedSome, history
    <3>10. CASE Reactivate(t) \/ AddMember(t) \/ AddTeamMember(t) \/ DeleteTeam(t) \/ DeleteOrg(t)
      BY <3>10 DEF Reactivate, AddMember, AddTeamMember, DeleteTeam, DeleteOrg, Held, store, history
    <3>11. QED
      BY <2>4, <3>1, <3>2, <3>3, <3>4, <3>5, <3>6, <3>7, <3>8, <3>9, <3>10 DEF Finish
  <2>5. QED
    BY <1>3, <2>1, <2>2, <2>3, <2>4 DEF Crash
<1>4. QED
  BY <1>1, <1>2, <1>3 DEF Next

(* Only a condemnation marks rows, and it dates the bump of their family.  *)
LEMMA NextSecBumped ==
  ASSUME SessionInvariant, SecBumped,
         \/ Held \/ RevokedSome \/ CondemnedOne \/ AllRevoked \/ PrunedSome
         \/ \E t \in Tx : Opens(t) \/ Replaces(t)
  PROVE  SecBumped'
<1>1. /\ row \in [RowId -> RowRecord] /\ bumps \in [RowId -> Nat]
      /\ UnusedRowsBlank /\ FamiliesNamed
  BY InvariantParts DEF TablesOK, TablesTyped, FamiliesSafe
<1>2. CASE Held
  BY <1>2 DEF Held, SecBumped
<1>3. CASE RevokedSome \/ AllRevoked \/ PrunedSome
  <2>1. bumps' = bumps /\ \A r \in RowId : row'[r].sec = row[r].sec /\ row'[r].fam = row[r].fam
    <3>1. CASE RevokedSome \/ AllRevoked
      BY <1>1, <3>1 DEF RevokedSome, AllRevoked, RevokeIn, RowRecord
    <3>2. CASE PrunedSome
      BY <1>1, <3>2 DEF PrunedSome, RowRecord
    <3>3. QED
      BY <1>3, <3>1, <3>2
  <2>2. QED
    BY <2>1 DEF SecBumped
<1>4. CASE CondemnedOne
  <2>1. PICK r \in RowId :
          /\ Exists(r) /\ row' = CondemnIn(row, Family(r))
          /\ bumps' = [bumps EXCEPT ![row[r].fam] = @ + 1]
    BY <1>4 DEF CondemnedOne
  <2>2. PICK f \in RowId : f = row[r].fam
    BY <1>1, <2>1 DEF FamiliesNamed, Exists
  <2>3. bumps'[f] = bumps[f] + 1 /\ \A g \in RowId : bumps'[g] >= bumps[g]
    BY <1>1, <2>1, <2>2
  <2>4. \A s \in RowId : row'[s].fam = row[s].fam /\ (row'[s].sec => row[s].sec \/ s \in Family(r))
    BY <1>1, <2>1 DEF CondemnIn, RowRecord
  <2>5. ASSUME NEW s \in RowId, row'[s].sec PROVE bumps'[row'[s].fam] > 0
    <3>1. CASE s \in Family(r)
      BY <1>1, <2>2, <2>3, <2>4, <3>1 DEF Family
    <3>2. CASE row[s].sec
      <4>1. row[s].st # "none"
        BY <1>1, <3>2 DEF UnusedRowsBlank, BlankRow
      <4>2. bumps[row[s].fam] > 0 /\ row[s].fam \in RowId
        BY <1>1, <3>2, <4>1 DEF SecBumped, FamiliesNamed
      <4>3. bumps'[row[s].fam] >= bumps[row[s].fam] /\ bumps[row[s].fam] \in Nat
            /\ bumps'[row[s].fam] \in Nat
        BY <1>1, <2>1, <2>2, <2>3, <4>2
      <4>4. QED
        BY <2>4, <4>2, <4>3
    <3>3. QED
      BY <2>4, <2>5, <3>1, <3>2
  <2>6. QED
    BY <2>5 DEF SecBumped
<1>5. ASSUME NEW t \in Tx, Opens(t) \/ Replaces(t) PROVE SecBumped'
  <2>1. CASE Opens(t)
    <3>1. PICK n \in RowId, new \in RowRecord :
            new.sec = FALSE /\ row' = [row EXCEPT ![n] = new] /\ UNCHANGED bumps
      BY <2>1 DEF Opens
    <3>2. row'[n] = new /\ \A s \in RowId \ {n} : row'[s] = row[s]
      BY <1>1, <3>1
    <3>3. QED
      BY <3>1, <3>2 DEF SecBumped
  <2>2. CASE Replaces(t)
    <3>1. PICK r \in RowId, n \in RowId, new \in RowRecord :
            /\ Live(r) /\ row[n].st = "none" /\ new.sec = FALSE
            /\ row' = [row EXCEPT ![n] = new, ![r].revoked = now, ![r].next = n]
            /\ UNCHANGED bumps
      BY ZenonT(60), <2>2 DEF Replaces
    <3>2. r # n
      BY <3>1 DEF Live, Exists
    <3>3. /\ row'[n] = new
          /\ \A s \in RowId \ {n} : row'[s].sec = row[s].sec /\ row'[s].fam = row[s].fam
      <4>1. row'[n] = new
        BY <1>1, <3>1, <3>2
      <4>2. ASSUME NEW s \in RowId \ {n}
            PROVE  row'[s].sec = row[s].sec /\ row'[s].fam = row[s].fam
        <5>1. row'[s] = row[s] \/ row'[s] = [row[s] EXCEPT !.revoked = now, !.next = n]
          BY <1>1, <3>1, <3>2, <4>2
        <5>2. row[s] \in RowRecord
          BY <1>1, <4>2
        <5>3. QED
          BY <5>1, <5>2 DEF RowRecord
      <4>3. QED
        BY <4>1, <4>2
    <3>4. QED
      BY <3>1, <3>3 DEF SecBumped
  <2>3. QED
    BY <1>5, <2>1, <2>2
<1>6. QED
  BY <1>2, <1>3, <1>4, <1>5

LEMMA NextChains ==
  ASSUME SessionInvariant, ChainInvariant, [Next]_vars
  PROVE  ChainInvariant'
<1>1. Chained /\ SecBumped
  BY DEF ChainInvariant, Chained
<1>2. SecBumped'
  BY <1>1, ChainsNeverBreak, FamilyShapes, NextSecBumped
<1>3. Chained'
  <2>1. now \in Time /\ now' \in Time
    BY NextInvariant, InvariantParts, InvariantPartsNext DEF WorldTyped
  <2>2. CASE \E t \in Tx : Issues(t)
    BY <1>1, <2>2, IssuingKeepsChains
  <2>3. CASE RowsStay /\ now' >= now
    BY <1>1, <2>1, <2>3, StayingKeepsChains
  <2>4. CASE \E t \in Tx : ChangesMembers(t)
    <3>1. RowsStay /\ now' = now
      BY <2>4, MembersShape
    <3>2. now' >= now
      BY <2>1, <3>1, ConstantsAssumption DEF Time
    <3>3. QED
      BY <1>1, <2>1, <3>1, <3>2, StayingKeepsChains
  <2>5. QED
    BY <2>2, <2>3, <2>4, StepShapes
<1>4. QED
  BY <1>2, <1>3 DEF ChainInvariant, Chained

LEMMA InitChains == Init => ChainInvariant
<1> SUFFICES ASSUME Init PROVE ChainInvariant
  OBVIOUS
<1>1. ChainsLinked /\ FamiliesRooted /\ SecBumped
  BY DEF Init, ChainsLinked, FamiliesRooted, SecBumped, BlankRow
<1>2. ChainsRise
  <2>1. [r \in RowId |-> 0] \in [RowId -> Nat]
    OBVIOUS
  <2>2. QED
    BY <2>1 DEF Init, ChainsRise, BlankRow
<1>3. QED
  BY <1>1, <1>2 DEF ChainInvariant

LEMMA ChainSafety == Spec => [](SessionInvariant /\ ChainInvariant)
<1>1. Init => SessionInvariant /\ ChainInvariant
  BY InitInvariant, InitChains
<1>2. SessionInvariant /\ ChainInvariant /\ [Next]_vars => SessionInvariant' /\ ChainInvariant'
  BY NextInvariant, NextChains
<1>3. QED
  BY <1>1, <1>2, PTL DEF Spec

(* No honest retry is taken for corruption, and a replay that is answered  *)
(* is answered with the live tip of the family: for chains of any length,  *)
(* any pruning and any number of rotations and switches in flight.         *)
THEOREM RetriesAreAnswered == Spec => []RetriesFindTheTip
<1>1. SessionInvariant /\ ScopeInvariant /\ ChainInvariant => RetriesFindTheTip
  <2> SUFFICES ASSUME SessionInvariant, ScopeInvariant, ChainInvariant PROVE RetriesFindTheTip
    OBVIOUS
  <2>1. ChainsAreSound
    BY ChainsNeverBreak
  <2>2. ReplayReturnsLiveTip
    <3> SUFFICES ASSUME NEW t \in Tx, tx[t].pc = "commit", tx[t].tip # None
                 PROVE  /\ row[tx[t].tip].revoked = Never /\ row[tx[t].tip].next = None
                        /\ row[tx[t].tip].fam = row[tx[t].ref].fam
                        /\ row[tx[t].tip].ws = Target(t)
      BY DEF ReplayReturnsLiveTip
    <3>1. WellFormed(t) /\ DecisionHolds(t) /\ TxScoped(t)
      BY InvariantParts DEF TxSafe, ScopeInvariant
    <3>2. QED
      BY <3>1 DEF WellFormed, DecisionHolds, TxScoped
  <2>3. QED
    BY <2>1, <2>2 DEF RetriesFindTheTip
<1>2. QED
  BY <1>1, ScopeSafety, ChainSafety, PTL

----------------------------------------------------------------------------
(* The promise of SessionFamilies. *)

(* A family is opened by the row that names it. *)
Founded(f) == row[f].st # "none" /\ row[f].fam = f

LEMMA PhaseOf ==
  /\ DOMAIN Phase = RowId
  /\ \A f \in RowId :
       Phase[f] = IF ~Founded(f) THEN "none"
                  ELSE IF \E s \in Family(f) : row[s].sec THEN "condemned"
                  ELSE IF \E s \in Family(f) : Live(s) THEN "open"
                  ELSE "closed"
BY DEF Phase, Founded

LEMMA PhaseOfNext ==
  /\ DOMAIN Phase' = RowId
  /\ \A f \in RowId :
       Phase'[f] = IF ~Founded(f)' THEN "none"
                   ELSE IF \E s \in Family(f)' : row'[s].sec THEN "condemned"
                   ELSE IF \E s \in Family(f)' : Live(s)' THEN "open"
                   ELSE "closed"
BY DEF Phase, Founded, Family

(* Rows that stay in their families and are only revoked close some.       *)
LEMMA RevocationCloses ==
  ASSUME epoch' = epoch,
         \A r \in RowId : /\ row'[r].st = "none" <=> row[r].st = "none"
                          /\ row'[r].fam = row[r].fam /\ row'[r].sec = row[r].sec
                          /\ Live(r)' => Live(r)
  PROVE  Families!Next
<1> DEFINE S == {f \in RowId : Phase[f] = "open" /\ Phase'[f] # "open"}
<1>1. ASSUME NEW f \in RowId
      PROVE  /\ Founded(f)' <=> Founded(f)
             /\ Family(f)' = Family(f)
  BY DEF Founded, Family
<1>2. ASSUME NEW f \in RowId
      PROVE  Phase'[f] = IF f \in S THEN "closed" ELSE Phase[f]
  <2>1. \A s \in Family(f) : s \in RowId
    BY DEF Family
  <2>2. QED
    BY <1>1, <2>1, PhaseOf, PhaseOfNext
<1>3. Phase' = [f \in RowId |-> IF f \in S THEN "closed" ELSE Phase[f]]
  <2>1. Phase' = [f \in RowId |-> Phase'[f]]
    BY DEF Phase
  <2> HIDE DEF S
  <2>2. QED
    BY <1>2, <2>1
<1>4. S \in SUBSET RowId /\ \A f \in S : Phase[f] = "open"
  OBVIOUS
<1> HIDE DEF S
<1>5. Families!Close(S)
  BY <1>3, <1>4 DEF Families!Close
<1>6. QED
  BY <1>4, <1>5 DEF Families!Next

LEMMA ResetClosesAll ==
  ASSUME SessionInvariant, AllRevoked
  PROVE  Families!Next
<1>1. /\ row \in [RowId -> RowRecord] /\ now \in Time /\ now # Never
  BY InvariantParts, ConstantsAssumption DEF TablesOK, TablesTyped, WorldTyped, Time, Never
<1>2. \A r \in RowId : /\ row'[r].st = row[r].st /\ row'[r].fam = row[r].fam
                       /\ row'[r].sec = row[r].sec /\ ~Live(r)'
  BY <1>1 DEF AllRevoked, RevokeIn, RowRecord, Live, Exists
<1>3. ASSUME NEW f \in RowId
      PROVE  /\ Founded(f)' <=> Founded(f)
             /\ Family(f)' = Family(f)
  BY <1>2 DEF Founded, Family
<1>4. ASSUME NEW f \in RowId
      PROVE  Phase'[f] = IF Phase[f] = "open" THEN "closed" ELSE Phase[f]
  <2>1. \A s \in Family(f) : s \in RowId
    BY DEF Family
  <2>2. QED
    BY <1>2, <1>3, <2>1, PhaseOf, PhaseOfNext
<1>5. Phase' = [f \in RowId |-> IF Phase[f] = "open" THEN "closed" ELSE Phase[f]]
  <2>1. Phase' = [f \in RowId |-> Phase'[f]]
    BY DEF Phase
  <2>2. QED
    BY <1>4, <2>1
<1>6. Families!CloseAll
  BY <1>5 DEF Families!CloseAll, AllRevoked
<1>7. QED
  BY <1>6 DEF Families!Next

(* The phase of one family changes and no other's. *)
LEMMA OnePhase ==
  ASSUME NEW f \in RowId, NEW v, Phase'[f] = v,
         \A g \in RowId \ {f} : Phase'[g] = Phase[g]
  PROVE  Phase' = [Phase EXCEPT ![f] = v]
<1>1. Phase = [g \in RowId |-> Phase[g]] /\ Phase' = [g \in RowId |-> Phase'[g]]
  BY DEF Phase
<1>2. QED
  BY <1>1

LEMMA CondemnationCondemnsOne ==
  ASSUME SessionInvariant, ChainInvariant, CondemnedOne
  PROVE  Families!Next
<1>1. /\ row \in [RowId -> RowRecord] /\ bumps \in [RowId -> Nat]
      /\ FamiliesNamed /\ BumpsCondemn /\ FamiliesRooted /\ SecBumped /\ now # Never
  BY InvariantParts, ConstantsAssumption
     DEF TablesOK, TablesTyped, FamiliesSafe, ChainInvariant, WorldTyped, Time, Never
<1>2. PICK r \in RowId :
        /\ Exists(r) /\ ~row[r].sec
        /\ row' = CondemnIn(row, Family(r)) /\ epoch' = epoch + 1
  BY DEF CondemnedOne
<1>3. PICK f \in RowId : f = row[r].fam /\ Founded(f)
  BY <1>1, <1>2 DEF FamiliesNamed, FamiliesRooted, Founded, Exists
<1>4. Family(f) = Family(r)
  BY <1>3 DEF Family, Founded
<1>5. \A s \in RowId : /\ row'[s].st = row[s].st /\ row'[s].fam = row[s].fam
                       /\ s \notin Family(r) => row'[s] = row[s]
  BY <1>1, <1>2 DEF CondemnIn, RowRecord
<1>6. ASSUME NEW g \in RowId
      PROVE  /\ Founded(g)' <=> Founded(g)
             /\ Family(g)' = Family(g)
  BY <1>5 DEF Founded, Family
<1>7. Phase[f] \in {"open", "closed"}
  <2>1. ~\E s \in Family(f) : row[s].sec
    <3> SUFFICES ASSUME NEW s \in Family(f), row[s].sec PROVE FALSE
      OBVIOUS
    <3>1. bumps[f] > 0
      BY <1>1, <1>3 DEF SecBumped, Family, Founded
    <3>2. QED
      BY <1>1, <1>2, <1>3, <3>1 DEF BumpsCondemn
  <2>2. QED
    BY <1>3, <2>1, PhaseOf
<1>8. Phase'[f] = "condemned"
  <2>1. r \in Family(f)' /\ row'[r].sec
    <3>1. r \in Family(r)
      BY <1>2 DEF Family, Exists
    <3>2. row'[r].sec
      BY <1>1, <1>2, <3>1 DEF CondemnIn, RowRecord, Exists
    <3>3. QED
      BY <1>4, <1>6, <3>1, <3>2
  <2>2. QED
    BY <1>3, <1>6, <2>1, PhaseOfNext
<1>9. ASSUME NEW g \in RowId \ {f} PROVE Phase'[g] = Phase[g]
  <2>1. CASE Founded(g)
    <3>1. \A s \in Family(g) : s \in RowId /\ s \notin Family(r)
      BY <1>3, <2>1 DEF Family, Founded
    <3>2. \A s \in Family(g) : row'[s] = row[s]
      BY <1>5, <3>1
    <3>3. QED
      BY <1>6, <3>2, PhaseOf, PhaseOfNext DEF Live, Exists
  <2>2. CASE ~Founded(g)
    BY <1>6, <2>2, PhaseOf, PhaseOfNext
  <2>3. QED
    BY <2>1, <2>2
<1>10. Phase' = [Phase EXCEPT ![f] = "condemned"]
  BY <1>8, <1>9, OnePhase
<1>11. Families!CondemnFamily(f)
  BY <1>2, <1>7, <1>10 DEF Families!CondemnFamily
<1>12. QED
  BY <1>11 DEF Families!Next

LEMMA OpeningOpensOne ==
  ASSUME SessionInvariant, NEW t \in Tx, Opens(t)
  PROVE  Families!Next
<1>1. row \in [RowId -> RowRecord] /\ FamiliesNamed
  BY InvariantParts DEF TablesOK, TablesTyped, FamiliesSafe
<1>2. PICK n \in RowId, new \in RowRecord :
        /\ row[n].st = "none" /\ row' = [row EXCEPT ![n] = new] /\ epoch' = epoch
        /\ new.st = "row" /\ new.fam = n /\ new.sec = FALSE /\ new.revoked = Never
  BY DEF Opens
<1>3. row'[n] = new /\ \A s \in RowId \ {n} : row'[s] = row[s]
  BY <1>1, <1>2
<1>4. \A s \in RowId : row[s].st # "none" => row[s].fam # n
  BY <1>1, <1>2 DEF FamiliesNamed
<1>5. Phase[n] = "none"
  BY <1>2, PhaseOf DEF Founded
<1>6. Phase'[n] = "open"
  <2>1. Family(n)' = {n} /\ Founded(n)'
    BY <1>2, <1>3, <1>4 DEF Family, Founded
  <2>2. ~row'[n].sec /\ Live(n)'
    BY <1>2, <1>3 DEF Live, Exists
  <2>3. QED
    BY <2>1, <2>2, PhaseOfNext
<1>7. ASSUME NEW g \in RowId \ {n} PROVE Phase'[g] = Phase[g]
  <2>1. Founded(g)' <=> Founded(g)
    BY <1>3 DEF Founded
  <2>2. CASE Founded(g)
    <3>1. Family(g)' = Family(g) /\ n \notin Family(g)
      BY <1>2, <1>3, <2>2 DEF Family, Founded
    <3>2. \A s \in Family(g) : row'[s] = row[s]
      BY <1>3, <3>1 DEF Family
    <3>3. QED
      BY <2>1, <3>1, <3>2, PhaseOf, PhaseOfNext DEF Live, Exists
  <2>3. CASE ~Founded(g)
    BY <2>1, <2>3, PhaseOf, PhaseOfNext
  <2>4. QED
    BY <2>2, <2>3
<1>8. Phase' = [Phase EXCEPT ![n] = "open"]
  BY <1>6, <1>7, OnePhase
<1>9. Families!Open(n)
  BY <1>2, <1>5, <1>8 DEF Families!Open
<1>10. QED
  BY <1>9 DEF Families!Next

LEMMA RotationStutters ==
  ASSUME SessionInvariant, NEW t \in Tx, Replaces(t)
  PROVE  Phase' = Phase /\ epoch' = epoch
<1>1. row \in [RowId -> RowRecord] /\ FamiliesNamed /\ CondemnedFamilyIsDead
  BY InvariantParts DEF TablesOK, TablesTyped, FamiliesSafe
<1>2. PICK r \in RowId, n \in RowId, new \in RowRecord :
        /\ Live(r) /\ row[n].st = "none" /\ epoch' = epoch
        /\ row' = [row EXCEPT ![n] = new, ![r].revoked = now, ![r].next = n]
        /\ new.st = "row" /\ new.fam = row[r].fam /\ new.sec = FALSE /\ new.revoked = Never
  BY DEF Replaces
<1>3. r # n /\ row[r].st = "row"
  BY <1>2 DEF Live, Exists
<1>4. /\ row'[n] = new
      /\ \A s \in RowId \ {n, r} : row'[s] = row[s]
      /\ row'[r].st = row[r].st /\ row'[r].fam = row[r].fam /\ row'[r].sec = row[r].sec
  BY <1>1, <1>2, <1>3 DEF RowRecord
<1>5. row[r].fam \in RowId /\ row[r].fam # n
  BY <1>1, <1>2, <1>3 DEF FamiliesNamed
<1>6. ASSUME NEW g \in RowId PROVE Phase'[g] = Phase[g]
  <2>1. Founded(g)' <=> Founded(g)
    BY <1>2, <1>4, <1>5 DEF Founded
  <2>2. CASE ~Founded(g)
    BY <2>1, <2>2, PhaseOf, PhaseOfNext
  <2>3. CASE Founded(g) /\ g # row[r].fam
    <3>1. Family(g)' = Family(g) /\ n \notin Family(g) /\ r \notin Family(g)
      <4>1. row'[g].fam = row[g].fam /\ row[g].fam = g
        BY <1>4, <2>1, <2>3 DEF Founded
      <4>2. ASSUME NEW s \in RowId
            PROVE  s \in Family(g)' <=> s \in Family(g)
        <5>1. CASE s = n
          BY <1>2, <1>4, <2>3, <4>1, <5>1 DEF Family
        <5>2. CASE s # n
          BY <1>4, <4>1, <5>2 DEF Family
        <5>3. QED
          BY <5>1, <5>2
      <4>3. Family(g) \subseteq RowId /\ Family(g)' \subseteq RowId
        BY DEF Family
      <4>4. n \notin Family(g) /\ r \notin Family(g)
        BY <1>2, <2>3, <4>1 DEF Family
      <4>5. QED
        BY <4>2, <4>3, <4>4
    <3>2. \A s \in Family(g) : row'[s].sec = row[s].sec /\ (Live(s)' <=> Live(s))
      BY <1>4, <3>1 DEF Family, Live, Exists
    <3>3. QED
      BY <2>1, <2>3, <3>1, <3>2, PhaseOf, PhaseOfNext
  <2>4. CASE Founded(g) /\ g = row[r].fam
    <3>0. /\ row'[g].fam = row[g].fam /\ row[g].fam = g
          /\ row'[n].fam = g /\ row'[n].st # "none"
          /\ \A s \in RowId \ {n} : row'[s].st = row[s].st /\ row'[s].fam = row[s].fam
      BY <1>2, <1>4, <2>4 DEF Founded
    <3>1. r \in Family(g) /\ Family(g)' = Family(g) \cup {n}
      <4>1. r \in Family(g)
        BY <1>2, <1>3, <2>4, <3>0 DEF Family
      <4>2. \A s \in RowId : s \in Family(g)' <=> s \in Family(g) \cup {n}
        <5> SUFFICES ASSUME NEW s \in RowId
                     PROVE  s \in Family(g)' <=> s \in Family(g) \cup {n}
          OBVIOUS
        <5>1. CASE s = n
          BY <1>2, <3>0, <5>1 DEF Family
        <5>2. CASE s # n
          BY <1>2, <3>0, <5>2 DEF Family
        <5>3. QED
          BY <5>1, <5>2
      <4>3. n \in RowId /\ Family(g) \subseteq RowId /\ Family(g)' \subseteq RowId
        BY <1>2 DEF Family
      <4>4. QED
        BY <4>1, <4>2, <4>3
    <3>2. \A s \in Family(g) : ~row[s].sec
      <4> SUFFICES ASSUME NEW s \in Family(g), row[s].sec PROVE FALSE
        OBVIOUS
      <4>1. s \in RowId /\ r \in Family(s)
        BY <1>3, <2>4 DEF Family, Founded
      <4>2. QED
        BY <1>1, <1>2, <4>1 DEF CondemnedFamilyIsDead
    <3>3. Phase[g] = "open"
      BY <1>2, <2>4, <3>1, <3>2, PhaseOf
    <3>4. \A s \in Family(g)' : ~row'[s].sec
      BY <1>2, <1>4, <3>1, <3>2 DEF Family
    <3>5. n \in Family(g)' /\ Live(n)'
      BY <1>2, <1>4, <3>1 DEF Live, Exists
    <3>6. Phase'[g] = "open"
      BY <2>1, <2>4, <3>4, <3>5, PhaseOfNext
    <3>7. QED
      BY <3>3, <3>6
  <2>5. QED
    BY <2>2, <2>3, <2>4
<1>7. Phase = [g \in RowId |-> Phase[g]] /\ Phase' = [g \in RowId |-> Phase'[g]]
  BY DEF Phase
<1>8. QED
  BY <1>2, <1>6, <1>7

LEMMA StepImplementsFamilies ==
  ASSUME SessionInvariant, ChainInvariant, [Next]_vars
  PROVE  [Families!Next]_(Families!families)
<1>1. \/ Held \/ RevokedSome \/ CondemnedOne \/ AllRevoked \/ PrunedSome
      \/ \E t \in Tx : Opens(t) \/ Replaces(t)
  BY ChainsNeverBreak, FamilyShapes
<1>2. row \in [RowId -> RowRecord]
  BY InvariantParts DEF TablesOK, TablesTyped
<1>3. CASE Held
  BY <1>3 DEF Held, Families!families, Phase, Family, Live, Exists
<1>4. CASE RevokedSome \/ PrunedSome
  <2>1. /\ epoch' = epoch
        /\ \A r \in RowId : /\ row'[r].st = "none" <=> row[r].st = "none"
                            /\ row'[r].fam = row[r].fam /\ row'[r].sec = row[r].sec
                            /\ Live(r)' => Live(r)
    <3>1. CASE RevokedSome
      BY <1>2, <3>1 DEF RevokedSome, RevokeIn, RowRecord, Live, Exists
    <3>2. CASE PrunedSome
      <4>1. PICK old \in SUBSET RowId :
              /\ row' = [r \in RowId |-> IF r \in old THEN [row[r] EXCEPT !.st = "pruned"] ELSE row[r]]
              /\ \A r \in old : Exists(r)
              /\ epoch' = epoch
        BY <3>2 DEF PrunedSome
      <4>2. QED
        BY <1>2, <4>1 DEF RowRecord, Live, Exists
    <3>3. QED
      BY <1>4, <3>1, <3>2
  <2>2. QED
    BY <2>1, RevocationCloses
<1>5. CASE AllRevoked
  BY <1>5, ResetClosesAll
<1>6. CASE CondemnedOne
  BY <1>6, CondemnationCondemnsOne
<1>7. ASSUME NEW t \in Tx, Opens(t) \/ Replaces(t)
      PROVE  [Families!Next]_(Families!families)
  BY <1>7, OpeningOpensOne, RotationStutters DEF Families!families
<1>8. QED
  BY <1>1, <1>3, <1>4, <1>5, <1>6, <1>7

(* The services keep the promise of SessionFamilies, for any number of     *)
(* rows, codes, workspaces and transactions at once: each step is one step *)
(* of the promise, or none.                                                *)
THEOREM SessionsImplementFamilies == Spec => ImplementsFamilies
<1>1. Init => Families!Init
  <2> SUFFICES ASSUME Init PROVE Families!Init
    OBVIOUS
  <2>1. \A r \in RowId : row[r].st = "none"
    BY DEF Init, BlankRow
  <2>2. Phase = [f \in RowId |-> "none"]
    BY <2>1 DEF Phase
  <2>3. QED
    BY <2>2 DEF Init, Families!Init
<1>2. SessionInvariant /\ ChainInvariant /\ [Next]_vars => [Families!Next]_(Families!families)
  BY StepImplementsFamilies
<1>3. QED
  BY <1>1, <1>2, ChainSafety, PTL DEF Spec, ImplementsFamilies, Families!Spec

=============================================================================
