-------------------------- MODULE SessionFamilies --------------------------
(***************************************************************************)
(* What refresh sessions promise, without rows, chains, clocks or locks: a *)
(* family of refresh tokens is opened once by one login, may be closed, is *)
(* condemned at most once, and never comes back.  The user's credential    *)
(* epoch moves exactly when a family is condemned or every family is       *)
(* closed by a credential reset.                                           *)
(***************************************************************************)
EXTENDS Integers

CONSTANT FamilyId

VARIABLES phase, epoch

families == <<phase, epoch>>

Init == phase = [f \in FamilyId |-> "none"] /\ epoch = 0

Open(f) ==
  /\ phase[f] = "none"
  /\ phase' = [phase EXCEPT ![f] = "open"]
  /\ UNCHANGED epoch

(* Membership changes, switches that cannot be completed and pruning close *)
(* some families quietly.                                                  *)
Close(S) ==
  /\ \A f \in S : phase[f] = "open"
  /\ phase' = [f \in FamilyId |-> IF f \in S THEN "closed" ELSE phase[f]]
  /\ UNCHANGED epoch

(* Logout and detected reuse condemn one family. *)
CondemnFamily(f) ==
  /\ phase[f] \in {"open", "closed"}
  /\ phase' = [phase EXCEPT ![f] = "condemned"]
  /\ epoch' = epoch + 1

CloseAll ==
  /\ phase' = [f \in FamilyId |-> IF phase[f] = "open" THEN "closed" ELSE phase[f]]
  /\ epoch' = epoch + 1

Next ==
  \/ \E f \in FamilyId : Open(f) \/ CondemnFamily(f)
  \/ \E S \in SUBSET FamilyId : Close(S)
  \/ CloseAll

Spec == Init /\ [][Next]_families
=============================================================================
