-------------------- MODULE UninstallTransactionProofs --------------------
(***************************************************************************)
(* The safety of uninstalling, for any set of files and any number of      *)
(* runs.                                                                   *)
(*                                                                         *)
(* Whether a lock can cost a file depends on the order of the deletions    *)
(* and of the restores: a file that is still there when restoring reaches  *)
(* it tells that nothing behind it was deleted yet.  IInv says this stage  *)
(* by stage.                                                               *)
(***************************************************************************)
EXTENDS UninstallTransaction, TLAPS

Whole(f)  == live[f] = "whole"
Gone(f)   == live[f] = "gone"
Intact(f) == Whole(f) \/ Gone(f)

TailWhole == Whole("registration") /\ Whole("receipt")

(* Deleted in this order: the registration file, then the receipt. *)
TailInOrder ==
  /\ Intact("registration") /\ Intact("receipt")
  /\ ~Gone("registration") => Whole("receipt")

SnapshotInv == stage = "snapshot" => Complete

TreeInv == stage = "tree" => TailWhole /\ \A f \in Part : Intact(f)

UnlinkInv ==
  /\ stage = "registration" => TreeRemoved /\ TailWhole
  /\ stage = "receipt" => TreeRemoved /\ Gone("registration") /\ Whole("receipt")

RestoreTreeInv ==
  stage = "restore_tree" /\ ~faulted =>
    /\ \A f \in Part : IF f \in todo THEN Intact(f) ELSE Whole(f)
    /\ TailInOrder
    /\ errors \/ (\E f \in todo : ~Gone(f)) => TailWhole

RestoreTailInv ==
  ~faulted =>
    /\ stage = "restore_registration" => (\A f \in Part : Whole(f)) /\ TailInOrder
    /\ stage = "restore_receipt" =>
         (\A f \in Part : Whole(f)) /\ Whole("registration") /\ Intact("receipt")
    /\ stage = "restore_check" => Complete

EndInv ==
  stage \in {"finally", "idle"} =>
    /\ verdict \in Failure /\ ~faulted => Complete
    /\ verdict = "ok" => Removed

ProgressInv ==
  /\ stage \in Removing \cup Restoring => snapshot = Owned
  /\ stage = "snapshot" \/ stage \in Removing => verdict = "none" /\ ~errors
  /\ stage \in Restoring => verdict \in Failure

IInv ==
  /\ TypeOK
  /\ SnapshotInv /\ TreeInv /\ UnlinkInv /\ RestoreTreeInv /\ RestoreTailInv
  /\ EndInv /\ ProgressInv

-----------------------------------------------------------------------------
(* The registration file and the receipt are owned and not in the tree. *)
LEMMA Tail ==
  /\ "registration" \in Owned /\ "receipt" \in Owned
  /\ "registration" \notin Part /\ "receipt" \notin Part
  /\ \A f \in Owned : f \in Part \/ f = "registration" \/ f = "receipt"
  /\ Part \subseteq Owned
BY PartAssumption DEF Owned

LEMMA InvInit == Init => IInv
<1> SUFFICES ASSUME Init PROVE IInv
  OBVIOUS
<1>1. TypeOK
  BY DEF Init, TypeOK, Stage
<1>2. stage = "idle" /\ verdict = "none"
  BY DEF Init
<1> QED
  BY <1>1, <1>2
     DEF IInv, SnapshotInv, TreeInv, UnlinkInv, RestoreTreeInv, RestoreTailInv, EndInv,
         ProgressInv, Removing, Restoring, Failure

(* Beginning and ending a transaction, and SketchUp, delete nothing. *)
LEMMA BeginInv == IInv /\ Begin => IInv'
<1> SUFFICES ASSUME IInv, Begin PROVE IInv'
  OBVIOUS
<1>1. TypeOK'
  <2>1. /\ stage' \in {"idle", "snapshot"} /\ runs' = runs + 1 /\ todo' = {}
        /\ verdict' \in {"none", "ok", "refused", "restart"}
        /\ UNCHANGED <<live, snapshot, locked>>
    BY DEF Begin, Goto
  <2>2. errors' \in BOOLEAN /\ faulted' \in BOOLEAN
    BY DEF Begin
  <2> QED BY <2>1, <2>2 DEF IInv, TypeOK, Stage, Failure
<1>2. stage' \in {"idle", "snapshot"} /\ live' = live
  BY DEF Begin, Goto
<1>3. stage' = "snapshot" => Complete /\ verdict' = "none" /\ ~errors'
  BY DEF Begin, Goto
<1>4. stage' = "idle" => \/ verdict' = "ok" /\ Removed
                         \/ verdict' = "refused"
                         \/ verdict' = "restart" /\ Complete
  BY DEF Begin, Goto
<1>5. Complete' = Complete /\ Removed' = Removed
  BY <1>2 DEF Complete, Removed
<1> QED
  BY <1>1, <1>2, <1>3, <1>4, <1>5
     DEF IInv, SnapshotInv, TreeInv, UnlinkInv, RestoreTreeInv, RestoreTailInv, EndInv,
         ProgressInv, Removing, Restoring, Failure

LEMMA TakeSnapshotInv == IInv /\ TakeSnapshot => IInv'
<1> SUFFICES ASSUME IInv, TakeSnapshot PROVE IInv'
  OBVIOUS
<1>1. Complete /\ verdict = "none" /\ ~errors
  BY DEF IInv, TakeSnapshot, SnapshotInv, ProgressInv
<1>2. TypeOK'
  BY DEF IInv, TypeOK, TakeSnapshot, Goto, Stage, Removing, Failure
<1>3. live' = live /\ errors' = errors
  BY DEF TakeSnapshot
<1>4. \/ stage' = "tree" /\ snapshot' = Owned /\ verdict' = verdict
      \/ stage' = "finally" /\ verdict' \in Failure
  BY DEF TakeSnapshot, SnapshotVerified, Goto
<1>5. Complete' /\ TailWhole' /\ \A f \in Part : Intact(f)'
  BY <1>1, <1>3, Tail DEF Complete, TailWhole, Whole, Intact
<1> QED
  BY <1>1, <1>2, <1>3, <1>4, <1>5
     DEF IInv, SnapshotInv, TreeInv, UnlinkInv, RestoreTreeInv, RestoreTailInv, EndInv,
         ProgressInv, Removing, Restoring, Failure

(* The files of the directory go first, the registration file next.       *)
LEMMA RemoveTreeInv ==
  ASSUME IInv, RemoveTree \/ \E f \in Part : RemoveFile(f)
  PROVE  IInv'
<1>1. stage = "tree" /\ TailWhole /\ \A f \in Part : Intact(f)
  BY DEF IInv, TreeInv, RemoveTree, RemoveFile
<1>2. snapshot = Owned /\ verdict = "none" /\ ~errors
  BY <1>1 DEF IInv, ProgressInv, Removing
<1>3. CASE RemoveTree
  <2>1. TypeOK'
    BY <1>3 DEF IInv, TypeOK, RemoveTree, Goto, Stage, Removing
  <2>2. stage' = "registration" /\ verdict' = verdict /\ TreeRemoved
        /\ UNCHANGED <<live, snapshot, errors>>
    BY <1>3 DEF RemoveTree, Goto
  <2>3. TreeRemoved' /\ TailWhole'
    BY <1>1, <2>2 DEF TreeRemoved, TailWhole, Whole
  <2> QED
    BY <1>2, <2>1, <2>2, <2>3
       DEF IInv, SnapshotInv, TreeInv, UnlinkInv, RestoreTreeInv, RestoreTailInv, EndInv,
           ProgressInv, Removing, Restoring
<1>4. ASSUME NEW f \in Part, RemoveFile(f) PROVE IInv'
  <2>1. live' = [live EXCEPT ![f] = "gone"] /\ f \notin locked
        /\ UNCHANGED <<snapshot, locked, stage, todo, errors, faulted, verdict, runs>>
    BY <1>4 DEF RemoveFile, Delete
  <2>2. TypeOK'
    BY <2>1, Tail DEF IInv, TypeOK
  <2>3. \A g \in Owned : live'[g] = IF g = f THEN "gone" ELSE live[g]
    BY <2>1 DEF IInv, TypeOK
  <2>4. TailWhole' /\ \A g \in Part : Intact(g)'
    BY <1>1, <2>3, Tail DEF TailWhole, Intact, Whole, Gone
  <2> QED
    BY <1>1, <1>2, <2>1, <2>2, <2>4
       DEF IInv, SnapshotInv, TreeInv, UnlinkInv, RestoreTreeInv, RestoreTailInv, EndInv,
           ProgressInv, Removing, Restoring
<1> QED BY <1>3, <1>4

LEMMA UnlinkStepInv ==
  ASSUME IInv, UnlinkRegistration \/ UnlinkReceipt
  PROVE  IInv'
<1>1. CASE UnlinkRegistration
  <2>1. stage = "registration" /\ live' = [live EXCEPT !["registration"] = "gone"]
        /\ "registration" \notin locked /\ stage' = "receipt" /\ verdict' = verdict
        /\ UNCHANGED <<snapshot, locked, todo, errors, faulted, runs>>
    BY <1>1 DEF UnlinkRegistration, Unlink, Delete, Goto
  <2>2. TypeOK'
    BY <2>1, Tail DEF IInv, TypeOK, Stage, Removing
  <2>3. TreeRemoved /\ TailWhole /\ snapshot = Owned /\ verdict = "none" /\ ~errors
    BY <2>1 DEF IInv, UnlinkInv, ProgressInv, Removing
  <2>4. \A g \in Owned : live'[g] = IF g = "registration" THEN "gone" ELSE live[g]
    BY <2>1 DEF IInv, TypeOK
  <2>5. TreeRemoved' /\ Gone("registration")' /\ Whole("receipt")'
    BY <2>3, <2>4, Tail DEF TreeRemoved, TailWhole, Whole, Gone
  <2> QED
    BY <2>1, <2>2, <2>3, <2>5
       DEF IInv, SnapshotInv, TreeInv, UnlinkInv, RestoreTreeInv, RestoreTailInv, EndInv,
           ProgressInv, Removing, Restoring
<1>2. CASE UnlinkReceipt
  <2>1. stage = "receipt" /\ live' = [live EXCEPT !["receipt"] = "gone"]
        /\ "receipt" \notin locked /\ stage' = "finally" /\ verdict' = "ok"
        /\ UNCHANGED <<snapshot, locked, todo, errors, faulted, runs>>
    BY <1>2 DEF UnlinkReceipt, Unlink, Delete, Goto
  <2>2. TypeOK'
    BY <2>1, Tail DEF IInv, TypeOK, Stage
  <2>3. TreeRemoved /\ Gone("registration")
    BY <2>1 DEF IInv, UnlinkInv
  <2>4. \A g \in Owned : live'[g] = IF g = "receipt" THEN "gone" ELSE live[g]
    BY <2>1 DEF IInv, TypeOK
  <2>5. Removed'
    BY <2>3, <2>4, Tail DEF TreeRemoved, Removed, Gone
  <2> QED
    BY <2>1, <2>2, <2>5
       DEF IInv, SnapshotInv, TreeInv, UnlinkInv, RestoreTreeInv, RestoreTailInv, EndInv,
           ProgressInv, Removing, Restoring, Failure
<1> QED BY <1>1, <1>2

(* Wherever a deletion fails, the deletions made are a prefix of the order. *)
LEMMA RemovalFailsInv == IInv /\ RemovalFails => IInv'
<1> SUFFICES ASSUME IInv, RemovalFails PROVE IInv'
  OBVIOUS
<1>1. stage \in Removing /\ stage' = "restore_tree" /\ verdict' \in Failure /\ todo' = Part
      /\ UNCHANGED <<snapshot, locked, errors, faulted, runs>>
  BY DEF RemovalFails, Goto, Removing, ToRestore
<1>2. snapshot = Owned /\ ~errors
  BY <1>1 DEF IInv, ProgressInv
<1>3. \/ live' = live
      \/ /\ stage \in {"registration", "receipt"} /\ stage \notin locked
         /\ live' = [live EXCEPT ![stage] = "gone"]
  BY DEF RemovalFails, Delete
<1>4. TypeOK'
  BY <1>1, <1>3, Tail DEF IInv, TypeOK, Stage, Restoring
<1>5. /\ \A f \in Part : Intact(f)'
      /\ TailInOrder'
      /\ (\E f \in Part : ~Gone(f)') => TailWhole'
  <2>1. CASE stage = "tree"
    <3>1. TailWhole /\ (\A f \in Part : Intact(f)) /\ live' = live
      BY <1>3, <2>1 DEF IInv, TreeInv
    <3> QED BY <3>1 DEF TailWhole, TailInOrder, Intact, Whole, Gone
  <2>2. CASE stage = "registration"
    <3>1. TreeRemoved /\ TailWhole
      BY <2>2 DEF IInv, UnlinkInv
    <3>2. \A g \in Owned : live'[g] = live[g] \/ (g = "registration" /\ live'[g] = "gone")
      BY <1>3, <2>2 DEF IInv, TypeOK
    <3> QED BY <3>1, <3>2, Tail DEF TreeRemoved, TailWhole, TailInOrder, Intact, Whole, Gone
  <2>3. CASE stage = "receipt"
    <3>1. TreeRemoved /\ Gone("registration") /\ Whole("receipt")
      BY <2>3 DEF IInv, UnlinkInv
    <3>2. \A g \in Owned : live'[g] = live[g] \/ (g = "receipt" /\ live'[g] = "gone")
      BY <1>3, <2>3 DEF IInv, TypeOK
    <3> QED BY <3>1, <3>2, Tail DEF TreeRemoved, TailWhole, TailInOrder, Intact, Whole, Gone
  <2> QED BY <1>1, <2>1, <2>2, <2>3 DEF Removing
<1>6. RestoreTreeInv'
  BY <1>1, <1>2, <1>5 DEF RestoreTreeInv
<1> QED
  BY <1>1, <1>2, <1>4, <1>6
     DEF IInv, SnapshotInv, TreeInv, UnlinkInv, RestoreTailInv, EndInv,
         ProgressInv, Removing, Restoring

(* A locked file is still there, so nothing behind it has been deleted.    *)
LEMMA RestoreFileInv ==
  ASSUME IInv, NEW f \in Part, RestoreFile(f)
  PROVE  IInv'
<1>1. stage = "restore_tree" /\ f \in todo /\ todo' = todo \ {f}
      /\ UNCHANGED <<snapshot, locked, stage, verdict, runs>>
  BY DEF RestoreFile
<1>2. \/ /\ f \notin locked /\ live' = [live EXCEPT ![f] = "whole"]
         /\ UNCHANGED <<errors, faulted>>
      \/ errors' = TRUE /\ f \in locked /\ UNCHANGED <<live, faulted>>
      \/ /\ errors' = TRUE /\ f \notin locked /\ faulted' = TRUE
         /\ live' \in {live, [live EXCEPT ![f] = "torn"]}
  BY DEF RestoreFile, CopyBack, CopyLocked, CopyFaults
<1>3. TypeOK'
  BY <1>1, <1>2, Tail DEF IInv, TypeOK
<1>4. RestoreTreeInv'
  <2> SUFFICES ASSUME ~faulted' PROVE RestoreTreeInv'
    BY DEF RestoreTreeInv
  <2>1. /\ \A g \in Part : IF g \in todo THEN Intact(g) ELSE Whole(g)
        /\ TailInOrder
        /\ errors \/ (\E g \in todo : ~Gone(g)) => TailWhole
    BY <1>1, <1>2 DEF IInv, RestoreTreeInv
  <2>2. CASE f \in locked /\ UNCHANGED live /\ errors' = TRUE
    <3>1. ~Gone(f) /\ Whole(f)
      BY <1>1, <2>1, <2>2 DEF IInv, TypeOK, Gone, Whole, Intact
    <3>2. TailWhole
      BY <1>1, <2>1, <3>1
    <3> QED
      BY <1>1, <2>1, <2>2, <3>1, <3>2
         DEF RestoreTreeInv, TailInOrder, TailWhole, Intact, Whole, Gone
  <2>3. CASE live' = [live EXCEPT ![f] = "whole"] /\ errors' = errors
    <3>1. \A g \in Owned : live'[g] = IF g = f THEN "whole" ELSE live[g]
      BY <2>3 DEF IInv, TypeOK
    <3>2. \A g \in Part : IF g \in todo' THEN Intact(g)' ELSE Whole(g)'
      BY <1>1, <2>1, <3>1, Tail DEF Intact, Whole, Gone
    <3>3. /\ live'["registration"] = live["registration"]
          /\ live'["receipt"] = live["receipt"]
      BY <3>1, Tail
    <3>4. TailInOrder' /\ (TailWhole <=> TailWhole')
      BY <2>1, <3>3 DEF TailInOrder, TailWhole, Intact, Whole, Gone
    <3>5. (\E g \in todo' : ~Gone(g)') => TailWhole'
      BY <1>1, <2>1, <3>1, <3>4, Tail DEF IInv, TypeOK, Gone
    <3> QED BY <2>1, <2>3, <3>2, <3>4, <3>5 DEF RestoreTreeInv
  <2> QED BY <1>2, <2>2, <2>3
<1> QED
  BY <1>1, <1>3, <1>4
     DEF IInv, SnapshotInv, TreeInv, UnlinkInv, RestoreTailInv, EndInv, ProgressInv,
         Removing, Restoring

LEMMA RestoreTreeStepInv ==
  ASSUME IInv, RestoreTree \/ RestoreTreeFaults
  PROVE  IInv'
<1>1. CASE RestoreTreeFaults
  <2>1. stage' = "finally" /\ faulted' = TRUE /\ verdict' \in Failure
        /\ UNCHANGED <<live, snapshot, locked, todo, errors, runs>>
    BY <1>1 DEF RestoreTreeFaults, Goto
  <2>2. TypeOK'
    BY <2>1 DEF IInv, TypeOK, Stage
  <2> QED
    BY <2>1, <2>2
       DEF IInv, SnapshotInv, TreeInv, UnlinkInv, RestoreTreeInv, RestoreTailInv, EndInv,
           ProgressInv, Removing, Restoring, Failure
<1>2. CASE RestoreTree
  <2>1. stage = "restore_tree" /\ todo = {}
        /\ UNCHANGED <<live, snapshot, locked, todo, errors, faulted, runs>>
    BY <1>2 DEF RestoreTree
  <2>2. IF errors THEN stage' = "finally" /\ verdict' = "error"
                  ELSE stage' = "restore_registration" /\ verdict' = verdict
    BY <1>2 DEF RestoreTree, Goto
  <2>3. verdict \in Failure /\ snapshot = Owned
    BY <2>1 DEF IInv, ProgressInv, Restoring
  <2>4. TypeOK'
    BY <2>1, <2>2, <2>3 DEF IInv, TypeOK, Stage, Restoring, Failure
  <2>5. ~faulted => (\A g \in Part : Whole(g)) /\ TailInOrder /\ (errors => TailWhole)
    BY <2>1 DEF IInv, RestoreTreeInv
  <2>6. ~faulted' => /\ \A g \in Part : Whole(g)'
                     /\ TailInOrder'
                     /\ errors => Complete'
    BY <2>1, <2>5, Tail DEF TailInOrder, TailWhole, Complete, Intact, Whole, Gone
  <2>7. RestoreTailInv' /\ EndInv'
    BY <2>2, <2>6 DEF RestoreTailInv, EndInv
  <2>8. ProgressInv'
    BY <2>1, <2>2, <2>3 DEF ProgressInv, Removing, Restoring
  <2> QED
    BY <2>2, <2>4, <2>7, <2>8
       DEF IInv, SnapshotInv, TreeInv, UnlinkInv, RestoreTreeInv
<1> QED BY <1>1, <1>2

(* What one call of copy2 does when no fault but a lock can stop it. *)
LEMMA RestoreOutcome ==
  ASSUME IInv, NEW f \in {"registration", "receipt"}, NEW here \in Restoring,
         NEW next \in Restoring, Restore(f, here, next)
  PROVE  /\ TypeOK'
         /\ stage = here /\ verdict' \in Failure
         /\ UNCHANGED <<snapshot, locked, todo, errors, runs>>
         /\ \/ /\ stage' = next /\ faulted' = faulted
               /\ \A g \in Owned : live'[g] = IF g = f THEN "whole" ELSE live[g]
            \/ stage' = "finally" /\ live' = live /\ ~Gone(f) /\ faulted' = faulted
            \/ stage' = "finally" /\ faulted'
<1>1. stage = here /\ UNCHANGED <<snapshot, locked, todo, errors, runs>>
  BY DEF Restore
<1>2. verdict \in Failure
  BY <1>1 DEF IInv, ProgressInv
<1>3. CASE CopyBack(f) /\ Goto(next, verdict) /\ UNCHANGED faulted
  <2>1. live' = [live EXCEPT ![f] = "whole"] /\ f \notin locked /\ stage' = next
        /\ verdict' = verdict /\ faulted' = faulted
    BY <1>3 DEF CopyBack, Goto
  <2>2. \A g \in Owned : live'[g] = IF g = f THEN "whole" ELSE live[g]
    BY <2>1 DEF IInv, TypeOK
  <2>3. TypeOK'
    BY <1>1, <1>2, <2>1, Tail DEF IInv, TypeOK, Stage
  <2> QED BY <1>1, <1>2, <2>1, <2>2, <2>3
<1>4. CASE CopyLocked(f) /\ Goto("finally", "restart")
  <2>1. f \in locked /\ UNCHANGED <<live, faulted>> /\ stage' = "finally"
        /\ verdict' = "restart"
    BY <1>4 DEF CopyLocked, Goto
  <2>2. TypeOK' /\ ~Gone(f) /\ verdict' \in Failure
    BY <1>1, <2>1 DEF IInv, TypeOK, Stage, Gone, Failure
  <2> QED BY <1>1, <2>1, <2>2
<1>5. CASE CopyFaults(f) /\ \E v \in Failure : Goto("finally", v)
  <2>1. f \notin locked /\ live' \in {live, [live EXCEPT ![f] = "torn"]} /\ faulted' = TRUE
        /\ stage' = "finally" /\ verdict' \in Failure
    BY <1>5 DEF CopyFaults, Goto
  <2>2. TypeOK'
    BY <1>1, <2>1, Tail DEF IInv, TypeOK, Stage
  <2> QED BY <1>1, <2>1, <2>2
<1> QED BY <1>3, <1>4, <1>5 DEF Restore

LEMMA RestoreTailStepInv ==
  ASSUME IInv, RestoreRegistration \/ RestoreReceipt
  PROVE  IInv'
<1> USE Tail
<1>1. CASE RestoreRegistration
  <2>1. /\ TypeOK' /\ stage = "restore_registration" /\ verdict' \in Failure
        /\ snapshot' = snapshot
        /\ \/ /\ stage' = "restore_receipt" /\ faulted' = faulted
              /\ \A g \in Owned : live'[g] = IF g = "registration" THEN "whole" ELSE live[g]
           \/ /\ stage' = "finally" /\ live' = live /\ ~Gone("registration")
              /\ faulted' = faulted
           \/ stage' = "finally" /\ faulted'
    BY <1>1, RestoreOutcome DEF RestoreRegistration, Restoring
  <2>2. ~faulted => (\A g \in Part : Whole(g)) /\ TailInOrder
    BY <2>1 DEF IInv, RestoreTailInv
  <2>3. stage' = "restore_receipt" /\ ~faulted' =>
          (\A g \in Part : Whole(g)') /\ Whole("registration")' /\ Intact("receipt")'
    BY <2>1, <2>2 DEF TailInOrder, Intact, Whole, Gone
  <2>4. stage' = "finally" /\ ~faulted' => Complete'
    BY <2>1, <2>2 DEF TailInOrder, Complete, Intact, Whole, Gone
  <2>5. ProgressInv'
    BY <2>1 DEF IInv, ProgressInv, Removing, Restoring
  <2> QED
    BY <2>1, <2>3, <2>4, <2>5
       DEF IInv, SnapshotInv, TreeInv, UnlinkInv, RestoreTreeInv, RestoreTailInv, EndInv, Failure
<1>2. CASE RestoreReceipt
  <2>1. /\ TypeOK' /\ stage = "restore_receipt" /\ verdict' \in Failure
        /\ snapshot' = snapshot
        /\ \/ /\ stage' = "restore_check" /\ faulted' = faulted
              /\ \A g \in Owned : live'[g] = IF g = "receipt" THEN "whole" ELSE live[g]
           \/ stage' = "finally" /\ live' = live /\ ~Gone("receipt") /\ faulted' = faulted
           \/ stage' = "finally" /\ faulted'
    BY <1>2, RestoreOutcome DEF RestoreReceipt, Restoring
  <2>2. ~faulted => (\A g \in Part : Whole(g)) /\ Whole("registration") /\ Intact("receipt")
    BY <2>1 DEF IInv, RestoreTailInv
  <2>3. stage' \in {"restore_check", "finally"} /\ ~faulted' => Complete'
    BY <2>1, <2>2 DEF Complete, Intact, Whole, Gone
  <2>4. ProgressInv'
    BY <2>1 DEF IInv, ProgressInv, Removing, Restoring
  <2> QED
    BY <2>1, <2>3, <2>4
       DEF IInv, SnapshotInv, TreeInv, UnlinkInv, RestoreTreeInv, RestoreTailInv, EndInv, Failure
<1> QED BY <1>1, <1>2

LEMMA FinishInv ==
  ASSUME IInv, RestoreCheck \/ Finally \/ Crash
  PROVE  IInv'
<1>1. /\ live' = live /\ faulted' = faulted /\ stage' \in {"finally", "idle"}
      /\ \/ stage \in {"finally", "idle"} /\ verdict' = verdict
         \/ stage = "restore_check" /\ verdict' \in Failure
         \/ verdict' = "crashed"
  BY DEF RestoreCheck, Finally, Crash, Goto, IInv, ProgressInv, Restoring
<1>2. /\ snapshot' \subseteq snapshot
      /\ UNCHANGED <<live, locked, todo, errors, faulted, runs>>
  BY DEF RestoreCheck, Finally, Crash
<1>3. TypeOK'
  BY <1>1, <1>2 DEF IInv, TypeOK, Stage, Failure
<1>4. Complete' = Complete /\ Removed' = Removed
  BY <1>1 DEF Complete, Removed
<1>5. EndInv'
  BY <1>1, <1>4 DEF IInv, EndInv, RestoreTailInv, Failure
<1> QED
  BY <1>1, <1>3, <1>5
     DEF IInv, SnapshotInv, TreeInv, UnlinkInv, RestoreTreeInv, RestoreTailInv, ProgressInv,
         Removing, Restoring

LEMMA HostInv ==
  ASSUME IInv, Host \/ UNCHANGED vars
  PROVE  IInv'
<1>1. UNCHANGED <<live, snapshot, stage, todo, errors, faulted, verdict, runs>>
  BY DEF Host, Lock, Unlock, vars
<1>2. locked' \subseteq {f \in Owned : live[f] # "gone"}
  BY DEF Host, Lock, Unlock, vars, IInv, TypeOK
<1>3. TypeOK'
  BY <1>1, <1>2 DEF IInv, TypeOK
<1> QED
  BY <1>1, <1>3
     DEF IInv, SnapshotInv, TreeInv, UnlinkInv, RestoreTreeInv, RestoreTailInv, EndInv,
         ProgressInv, Complete, Removed, TreeRemoved, TailWhole, TailInOrder, Intact, Whole, Gone

LEMMA Inductive == IInv /\ [Next]_vars => IInv'
<1> SUFFICES ASSUME IInv, [Next]_vars PROVE IInv'
  OBVIOUS
<1>1. CASE Begin \/ TakeSnapshot
  BY <1>1, BeginInv, TakeSnapshotInv
<1>2. CASE RemoveTree \/ \E f \in Part : RemoveFile(f)
  BY <1>2, RemoveTreeInv
<1>3. CASE UnlinkRegistration \/ UnlinkReceipt \/ RemovalFails
  BY <1>3, UnlinkStepInv, RemovalFailsInv
<1>4. CASE \E f \in Part : RestoreFile(f)
  BY <1>4, RestoreFileInv
<1>5. CASE RestoreTree \/ RestoreTreeFaults \/ RestoreRegistration \/ RestoreReceipt
  BY <1>5, RestoreTreeStepInv, RestoreTailStepInv
<1>6. CASE RestoreCheck \/ Finally \/ Crash
  BY <1>6, FinishInv
<1>7. CASE Host \/ UNCHANGED vars
  BY <1>7, HostInv
<1> QED
  BY <1>1, <1>2, <1>3, <1>4, <1>5, <1>6, <1>7 DEF Next, Uninstaller

(* The stage-by-stage invariant holds in every behaviour. *)
THEOREM Invariance == Spec => []IInv
<1> QED BY InvInit, Inductive, PTL DEF Spec

(* The uninstaller's state stays well formed. *)
THEOREM TypeCorrect == Spec => []TypeOK
<1>1. IInv => TypeOK
  BY DEF IInv
<1> QED BY <1>1, Invariance, PTL

(* However many files there are and whichever SketchUp holds open, a failed *)
(* uninstall that met no other obstacle leaves the installation complete.   *)
THEOREM LocksAreHarmless == Spec => []LocksLoseNothing
<1>1. IInv => LocksLoseNothing
  BY DEF IInv, EndInv, LocksLoseNothing
<1> QED BY <1>1, Invariance, PTL

(* While files are deleted or restored, the snapshot holds every one. *)
THEOREM SnapshotCoversRemoval == Spec => []RecoverableWhileUninstalling
<1>1. IInv => RecoverableWhileUninstalling
  BY DEF IInv, ProgressInv, RecoverableWhileUninstalling
<1> QED BY <1>1, Invariance, PTL

-----------------------------------------------------------------------------
(* The transaction implements ProfileChange.  EndInv is what makes its last *)
(* step the right one.                                                      *)
FinallyInv == stage = "finally" => verdict \in Failure \cup {"ok"}

PromiseInv == IInv /\ FinallyInv

LEMMA Outcomes ==
  ASSUME TypeOK
  PROVE  (Complete => live = All("whole")) /\ (Removed => live = All("gone"))
BY DEF TypeOK, Complete, Removed, All

(* Only Begin sets a run to work, on a complete installation. *)
LEMMA WorkBegins ==
  ASSUME [Next]_vars, ~AtWork, AtWork'
  PROVE  Complete /\ UNCHANGED live
BY DEF Next, Uninstaller, Begin, TakeSnapshot, RemoveFile, RemoveTree, UnlinkRegistration,
       UnlinkReceipt, Unlink, RemovalFails, RestoreFile, RestoreTree, RestoreTreeFaults,
       RestoreRegistration, RestoreReceipt, Restore, RestoreCheck, Finally, Crash, Host,
       Lock, Unlock, vars, Goto, AtWork

(* The step that ends the work says how. *)
LEMMA WorkEnds ==
  ASSUME IInv, [Next]_vars, AtWork, ~AtWork'
  PROVE  verdict' \in Failure \cup {"ok", "crashed"} /\ (stage' = "finally" => verdict' # "crashed")
<1>1. CASE TakeSnapshot \/ UnlinkRegistration \/ UnlinkReceipt \/ RemovalFails
  BY <1>1 DEF TakeSnapshot, UnlinkRegistration, UnlinkReceipt, Unlink, RemovalFails, Goto,
              AtWork, Failure
<1>2. CASE RestoreTree \/ RestoreTreeFaults \/ RestoreCheck
  <2>1. verdict \in Failure
    BY <1>2 DEF IInv, ProgressInv, Restoring, RestoreTree, RestoreTreeFaults, RestoreCheck
  <2> QED
    BY <1>2, <2>1 DEF RestoreTree, RestoreTreeFaults, RestoreCheck, Goto, Failure
<1>3. CASE RestoreRegistration \/ RestoreReceipt
  <2>1. verdict \in Failure
    BY <1>3 DEF IInv, ProgressInv, Restoring, RestoreRegistration, RestoreReceipt, Restore
  <2> QED
    BY <1>3, <2>1 DEF RestoreRegistration, RestoreReceipt, Restore, Goto, Failure
<1>4. CASE Crash
  BY <1>4 DEF Crash, Goto
<1>5. CASE RemoveTree \/ (\E f \in Part : RemoveFile(f) \/ RestoreFile(f)) \/ Host \/ UNCHANGED vars
  BY <1>5 DEF RemoveTree, RemoveFile, RestoreFile, Host, Lock, Unlock, vars, Goto, AtWork
<1>6. CASE Begin \/ Finally
  BY <1>6 DEF Begin, Finally, AtWork
<1> QED BY <1>1, <1>2, <1>3, <1>4, <1>5, <1>6 DEF Next, Uninstaller

(* Out of work, a run refuses, finds nothing to do or disposes of its      *)
(* snapshot; a kill can still come.                                        *)
LEMMA OutOfWork ==
  ASSUME [Next]_vars, ~AtWork, ~AtWork'
  PROVE  /\ UNCHANGED live
         /\ \/ UNCHANGED <<verdict, faulted>>
            \/ stage = "idle" /\ verdict' = "ok" /\ Removed
            \/ stage = "idle" /\ verdict' \in {"refused", "restart"} /\ ~faulted'
            \/ stage = "finally" /\ verdict' = "crashed" /\ UNCHANGED faulted
<1>1. CASE Begin
  BY <1>1 DEF Begin, Goto, AtWork
<1>2. CASE Finally \/ Crash \/ Host \/ UNCHANGED vars
  BY <1>2 DEF Finally, Crash, Host, Lock, Unlock, vars, Goto, AtWork
<1>3. ~(Begin \/ Finally \/ Crash \/ Host \/ UNCHANGED vars) => AtWork
  BY DEF Next, Uninstaller, TakeSnapshot, RemoveFile, RemoveTree, UnlinkRegistration,
         UnlinkReceipt, Unlink, RemovalFails, RestoreFile, RestoreTree, RestoreTreeFaults,
         RestoreRegistration, RestoreReceipt, Restore, RestoreCheck, AtWork
<1> QED BY <1>1, <1>2, <1>3

LEMMA FinallyStep ==
  ASSUME IInv, FinallyInv, [Next]_vars
  PROVE  FinallyInv'
<1> SUFFICES ASSUME stage' = "finally" PROVE verdict' \in Failure \cup {"ok"}
  BY DEF FinallyInv
<1>1. ~AtWork'
  BY DEF AtWork
<1>2. CASE AtWork
  BY <1>1, <1>2, WorkEnds
<1>3. CASE ~AtWork
  <2>1. stage = "finally" /\ UNCHANGED verdict
    BY <1>3 DEF Next, Uninstaller, Begin, TakeSnapshot, RemoveFile, RemoveTree,
                UnlinkRegistration, UnlinkReceipt, Unlink, RemovalFails, RestoreFile,
                RestoreTree, RestoreTreeFaults, RestoreRegistration, RestoreReceipt, Restore,
                RestoreCheck, Finally, Crash, Host, Lock, Unlock, vars, Goto, AtWork
  <2> QED BY <2>1 DEF FinallyInv
<1> QED BY <1>2, <1>3

LEMMA PromiseInvHolds == Spec => []PromiseInv
<1>1. Init => PromiseInv
  BY InvInit DEF PromiseInv, FinallyInv, Init
<1>2. PromiseInv /\ [Next]_vars => PromiseInv'
  BY Inductive, FinallyStep DEF PromiseInv
<1> QED BY <1>1, <1>2, PTL DEF Spec

(* A change in progress is told from none. *)
LEMMA Pairs ==
  ASSUME NEW a, NEW b
  PROVE  <<a, b>> # <<>> /\ <<a, b>>[1] = a /\ <<a, b>>[2] = b
OBVIOUS

LEMMA PromiseInit == Init => Promise!Init
BY DEF Init, Promise!Init, Promise!NoChange, Change, Ending, AtWork

LEMMA PromiseStep ==
  ASSUME PromiseInv, [Next]_vars, PromiseInv'
  PROVE  [Promise!Next]_(Promise!vars)
<1> USE DEF Promise!NoChange
<1> DEFINE Working == <<All("whole"), All("gone")>>
<1>0. /\ IInv /\ TypeOK /\ TypeOK' /\ EndInv'
      /\ Working # <<>> /\ Working[1] = All("whole") /\ Working[2] = All("gone")
  BY Pairs DEF PromiseInv, IInv
<1>a. Change = (IF AtWork THEN Working ELSE <<>>) /\ Change' = (IF AtWork' THEN Working ELSE <<>>)
  BY DEF Change, All
<1> HIDE DEF Working
<1>m. Change # <<>> => Promise!Moves
  <2> SUFFICES ASSUME Change # <<>> PROVE Promise!Moves
    OBVIOUS
  <2>1. Change[1] = All("whole") /\ Change[2] = All("gone")
    BY <1>0, <1>a
  <2>2. \A f \in Owned : live'[f] \in {Change[1][f], Change[2][f]} \cup {"torn"}
    BY <1>0, <2>1 DEF TypeOK, All
  <2> QED BY <1>0, <2>2 DEF Promise!Moves, TypeOK
<1>1. CASE AtWork /\ AtWork'
  <2>1. Change # <<>> /\ UNCHANGED Change /\ UNCHANGED Ending
    BY <1>0, <1>a, <1>1 DEF Ending
  <2> QED BY <1>m, <2>1 DEF Promise!Next, Promise!Work
<1>2. CASE ~AtWork /\ AtWork'
  <2>1. live = All("whole") /\ UNCHANGED live
    BY <1>0, <1>2, WorkBegins, Outcomes
  <2>2. Change = <<>> /\ Ending' = "none" /\ Change' = <<live, All("gone")>>
    BY <1>a, <1>2, <2>1 DEF Ending, Working
  <2> QED BY <2>1, <2>2 DEF Promise!Next, Promise!Begin
<1>3. CASE AtWork /\ ~AtWork'
  <2>1. Change = Working /\ Change # <<>> /\ Change' = <<>>
    BY <1>0, <1>a, <1>3
  <2>2. verdict' \in Failure \cup {"ok", "crashed"}
    BY <1>0, <1>3, WorkEnds
  <2>3. stage' \in {"idle", "finally"}
    BY <1>3 DEF AtWork
  <2>4. CASE verdict' = "ok"
    <3>1. Ending' = "done"
      BY <1>3, <2>4 DEF Ending
    <3>2. live' = All("gone")
      BY <1>0, <2>3, <2>4, Outcomes DEF EndInv, TypeOK, Removed, All
    <3> QED BY <1>0, <2>1, <3>1, <3>2 DEF Promise!Next, Promise!End
  <2>5. CASE verdict' \in Failure /\ ~faulted'
    <3>1. Ending' = "undone"
      BY <1>3, <2>5 DEF Ending, Failure
    <3>2. live' = All("whole")
      BY <1>0, <2>3, <2>5 DEF EndInv, TypeOK, Complete, All
    <3> QED BY <1>0, <2>1, <3>1, <3>2 DEF Promise!Next, Promise!End
  <2>6. CASE verdict' = "crashed" \/ (verdict' \in Failure /\ faulted')
    <3>1. Ending' = "stopped"
      BY <1>3, <2>6 DEF Ending, Failure
    <3> QED BY <1>m, <2>1, <3>1 DEF Promise!Next, Promise!End
  <2> QED BY <2>2, <2>4, <2>5, <2>6
<1>4. CASE ~AtWork /\ ~AtWork'
  <2>1. Change = <<>> /\ Change' = <<>> /\ UNCHANGED live
    BY <1>a, <1>4, OutOfWork
  <2>2. CASE UNCHANGED <<verdict, faulted>>
    <3>1. UNCHANGED Ending
      BY <1>4, <2>2 DEF Ending
    <3> QED BY <2>1, <3>1 DEF Promise!vars
  <2>3. CASE verdict' = "ok" /\ Removed
    <3>1. Ending' = "done"
      BY <1>4, <2>3 DEF Ending
    <3>2. live = All("gone")
      BY <1>0, <2>3, Outcomes
    <3> QED BY <2>1, <3>1, <3>2 DEF Promise!Next, Promise!EndAtOnce
  <2>4. CASE verdict' \in {"refused", "restart"} /\ ~faulted'
    <3>1. Ending' = "undone"
      BY <1>4, <2>4 DEF Ending, Failure
    <3> QED BY <2>1, <3>1 DEF Promise!Next, Promise!EndAtOnce
  <2>5. CASE stage = "finally" /\ verdict' = "crashed"
    <3>1. Ending \in {"done", "undone", "stopped"} /\ Ending' = "stopped"
      BY <1>4, <2>5 DEF Ending, PromiseInv, FinallyInv, Failure
    <3> QED BY <2>1, <3>1 DEF Promise!Next, Promise!StopLate, Promise!vars
  <2> QED BY <1>4, <2>2, <2>3, <2>4, <2>5, OutOfWork
<1> QED BY <1>1, <1>2, <1>3, <1>4

(* For any files and any number of runs, an uninstallation is a change of  *)
(* the profile that is done, undone or, after another obstacle than a lock *)
(* or a kill, known to have stopped.                                       *)
THEOREM RunIsAChange == Spec => ImplementsProfileChange
<1>1. Init => Promise!Init
  BY PromiseInit
<1>2. PromiseInv /\ [Next]_vars /\ PromiseInv' => [Promise!Next]_(Promise!vars)
  BY PromiseStep
<1> QED BY <1>1, <1>2, PromiseInvHolds, PTL DEF Spec, ImplementsProfileChange, Promise!Spec

=============================================================================
