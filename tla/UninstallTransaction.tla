----------------------- MODULE UninstallTransaction -----------------------
(***************************************************************************)
(* uninstall of install.py on one SketchUp profile: a receipted            *)
(* installation is copied to a snapshot, its extension directory, its      *)
(* registration file and its receipt are deleted, and when a deletion      *)
(* fails the snapshot is copied back.  The snapshot is deleted at the end, *)
(* whatever happened.  SketchUp may hold files open at any moment; an open *)
(* file can be neither deleted nor overwritten.  Any operation can raise,  *)
(* and the uninstaller can be killed at any point.                         *)
(***************************************************************************)
EXTENDS Naturals

CONSTANTS
  Part,     \* the files of the extension directory
  MaxRuns   \* bound: calls of uninstall

ASSUME PartAssumption == "registration" \notin Part /\ "receipt" \notin Part
ASSUME RunsAssumption == MaxRuns \in Nat

Owned == Part \cup {"registration", "receipt"}

VARIABLES
  live,      \* each owned file: "whole", "torn" (half written) or "gone"
  snapshot,  \* the owned files the snapshot holds
  locked,    \* files that SketchUp holds open
  stage,     \* where _transactional_uninstall is; "idle" between two runs
  todo,      \* files that copytree has not copied back yet
  errors,    \* copytree has collected an error
  faulted,   \* history: copying back failed for another reason than a lock
  verdict,   \* how this run is going to end, then how it ended
  runs

vars == <<live, snapshot, locked, stage, todo, errors, faulted, verdict, runs>>

Complete == \A f \in Owned : live[f] = "whole"
Removed  == \A f \in Owned : live[f] = "gone"

(* EXIT_REQUIRES_RESTART when a file is locked, EXIT_INSTALL otherwise. *)
Failure == {"restart", "error"}

-----------------------------------------------------------------------------
(* SketchUp opens and closes files of the extension. *)
Lock(f) ==
  /\ live[f] # "gone" /\ f \notin locked
  /\ locked' = locked \cup {f}
  /\ UNCHANGED <<live, snapshot, stage, todo, errors, faulted, verdict, runs>>

Unlock(f) ==
  /\ f \in locked
  /\ locked' = locked \ {f}
  /\ UNCHANGED <<live, snapshot, stage, todo, errors, faulted, verdict, runs>>

-----------------------------------------------------------------------------
Goto(s, v) == stage' = s /\ verdict' = v

(* _execute_uninstall: nothing to do, a refusal that touches nothing (no   *)
(* receipt, bytes the receipt does not vouch for, a lock seen in advance), *)
(* or a transaction.                                                       *)
Begin ==
  /\ stage = "idle" /\ runs < MaxRuns
  /\ runs' = runs + 1
  /\ errors' = FALSE /\ faulted' = FALSE /\ todo' = {}
  /\ \/ Removed  /\ Goto("idle", "ok")
     \/ ~Removed /\ ~Complete /\ Goto("idle", "refused")
     \/ Complete /\ locked \cap Part # {} /\ Goto("idle", "restart")
     \/ Complete /\ Goto("snapshot", "none")
  /\ UNCHANGED <<live, snapshot, locked>>

(* Fault: the snapshot is used as far as it got. *)
BugSnapshotVerified(s) == TRUE

(* Every copy succeeded, and the copies are what the receipt records. *)
SnapshotVerified(s) == s = Owned

TakeSnapshot ==
  /\ stage = "snapshot"
  /\ \E s \in SUBSET Owned :
       /\ snapshot' = s
       /\ \/ SnapshotVerified(s) /\ Goto("tree", verdict)
          \/ \E v \in Failure : Goto("finally", v)
  /\ UNCHANGED <<live, locked, todo, errors, faulted, runs>>

(* An open file cannot be deleted. *)
Delete(f) ==
  /\ f \notin locked
  /\ live' = [live EXCEPT ![f] = "gone"]

(* safe_remove_tree deletes file by file and reports whether all are gone. *)
RemoveFile(f) ==
  /\ stage = "tree" /\ f \in Part /\ live[f] # "gone"
  /\ Delete(f)
  /\ UNCHANGED <<snapshot, locked, stage, todo, errors, faulted, verdict, runs>>

(* Fault: the outcome safe_remove_tree returns is ignored. *)
BugTreeRemoved == TRUE

TreeRemoved == \A f \in Part : live[f] = "gone"

RemoveTree ==
  /\ stage = "tree" /\ TreeRemoved
  /\ Goto("registration", verdict)
  /\ UNCHANGED <<live, snapshot, locked, todo, errors, faulted, runs>>

(* unlink of the registration file, then of the receipt. *)
Unlink(f, next) ==
  /\ stage = f
  /\ Delete(f)
  /\ Goto(next, IF f = "receipt" THEN "ok" ELSE verdict)
  /\ UNCHANGED <<snapshot, locked, todo, errors, faulted, runs>>

UnlinkRegistration == Unlink("registration", "receipt")
UnlinkReceipt      == Unlink("receipt", "finally")

(* Fault: the whole snapshot is copied into the extension directory. *)
BugToRestore == Owned

(* What copytree walks: the snapshot of the extension directory. *)
ToRestore == Part

(* A deletion raises, or an interrupt arrives after its effect. *)
RemovalFails ==
  /\ stage \in {"tree", "registration", "receipt"}
  /\ \/ UNCHANGED live
     \/ stage # "tree" /\ Delete(stage)
  /\ \E v \in Failure : Goto("restore_tree", v)
  /\ todo' = ToRestore
  /\ UNCHANGED <<snapshot, locked, errors, faulted, runs>>

-----------------------------------------------------------------------------
(* _restore_uninstall_snapshot *)

CopyBack(f) ==
  /\ f \in snapshot /\ f \notin locked
  /\ live' = [live EXCEPT ![f] = "whole"]

(* Opening a locked file for writing fails and leaves it as it is. *)
CopyLocked(f) == f \in locked /\ UNCHANGED <<live, faulted>>

(* Any other failure may leave a file half written. *)
CopyFaults(f) ==
  /\ f \notin locked
  /\ live' \in {live, [live EXCEPT ![f] = "torn"]}
  /\ faulted' = TRUE

(* copytree goes on after a file it could not copy, and raises at the end. *)
RestoreFile(f) ==
  /\ stage = "restore_tree" /\ f \in todo
  /\ todo' = todo \ {f}
  /\ \/ CopyBack(f) /\ UNCHANGED <<errors, faulted>>
     \/ errors' = TRUE /\ (CopyLocked(f) \/ CopyFaults(f))
  /\ UNCHANGED <<snapshot, locked, stage, verdict, runs>>

RestoreTree ==
  /\ stage = "restore_tree" /\ todo = {}
  /\ IF errors THEN Goto("finally", "error") ELSE Goto("restore_registration", verdict)
  /\ UNCHANGED <<live, snapshot, locked, todo, errors, faulted, runs>>

(* The directory cannot be made, or an interrupt arrives. *)
RestoreTreeFaults ==
  /\ stage = "restore_tree"
  /\ faulted' = TRUE
  /\ \E v \in Failure : Goto("finally", v)
  /\ UNCHANGED <<live, snapshot, locked, todo, errors, runs>>

(* copy2 of the registration file, then of the receipt. *)
Restore(f, here, next) ==
  /\ stage = here
  /\ \/ CopyBack(f) /\ Goto(next, verdict) /\ UNCHANGED faulted
     \/ CopyLocked(f) /\ Goto("finally", "restart")
     \/ CopyFaults(f) /\ \E v \in Failure : Goto("finally", v)
  /\ UNCHANGED <<snapshot, locked, todo, errors, runs>>

RestoreRegistration == Restore("registration", "restore_registration", "restore_receipt")
RestoreReceipt      == Restore("receipt", "restore_receipt", "restore_check")

(* _validate_owned_install accepts what was restored, and the error that   *)
(* started it all is raised; or it fails.                                  *)
RestoreCheck ==
  /\ stage = "restore_check"
  /\ \/ Complete /\ Goto("finally", verdict)
     \/ \E v \in Failure : Goto("finally", v)
  /\ UNCHANGED <<live, snapshot, locked, todo, errors, faulted, runs>>

(* finally: the snapshot goes, or some of it stays; nobody looks. *)
Finally ==
  /\ stage = "finally"
  /\ snapshot' \in SUBSET snapshot
  /\ Goto("idle", verdict)
  /\ UNCHANGED <<live, locked, todo, errors, faulted, runs>>

Crash ==
  /\ stage # "idle"
  /\ Goto("idle", "crashed")
  /\ UNCHANGED <<live, snapshot, locked, todo, errors, faulted, runs>>

-----------------------------------------------------------------------------

(* A profile as the user has it: any part of an installation. *)
Init ==
  /\ live \in [Owned -> {"whole", "torn", "gone"}]
  /\ snapshot = {} /\ locked = {}
  /\ stage = "idle" /\ verdict = "none"
  /\ todo = {} /\ errors = FALSE /\ faulted = FALSE
  /\ runs = 0

Uninstaller ==
  \/ Begin \/ TakeSnapshot
  \/ \E f \in Part : RemoveFile(f)
  \/ RemoveTree \/ UnlinkRegistration \/ UnlinkReceipt \/ RemovalFails
  \/ \E f \in Part : RestoreFile(f)
  \/ RestoreTree \/ RestoreTreeFaults
  \/ RestoreRegistration \/ RestoreReceipt \/ RestoreCheck
  \/ Finally

Host == \E f \in Owned : Lock(f) \/ Unlock(f)

Next == Uninstaller \/ Crash \/ Host

Spec == Init /\ [][Next]_vars

-----------------------------------------------------------------------------
(* Properties.                                                             *)

Removing  == {"tree", "registration", "receipt"}
Restoring == {"restore_tree", "restore_registration", "restore_receipt", "restore_check"}
Stage == {"idle", "snapshot", "finally"} \cup Removing \cup Restoring

TypeOK ==
  /\ live \in [Owned -> {"whole", "torn", "gone"}]
  /\ snapshot \subseteq Owned
  /\ locked \subseteq {f \in Owned : live[f] # "gone"}
  /\ stage \in Stage
  /\ todo \subseteq Part
  /\ errors \in BOOLEAN /\ faulted \in BOOLEAN
  /\ verdict \in Failure \cup {"none", "ok", "refused", "crashed"}
  /\ runs \in Nat

(* A kill between any two deletions or restored files loses nothing: every  *)
(* owned file is whole at its path or in the snapshot on the disk.          *)
RecoverableWhileUninstalling ==
  stage \in Removing \cup Restoring =>
    \A f \in Owned : live[f] = "whole" \/ f \in snapshot

(* Files that SketchUp holds open cannot cost the user the installation: a  *)
(* failed uninstall leaves every owned file whole, although restoring may   *)
(* stop at a locked file before the registration file and the receipt have  *)
(* had their turn, and although the snapshot is deleted then.               *)
LocksLoseNothing ==
  stage = "idle" /\ verdict \in Failure /\ ~faulted => Complete

(* install.md: "Exit 50, locked install: ... No existing extension was      *)
(* deleted before this result."  Not so: when the directory cannot be made  *)
(* again, the deleted files are in the snapshot only, and it is deleted.    *)
Exit50DeletesNothing ==
  stage = "idle" /\ verdict = "restart" => Complete

(* As far as the installed paths show, a run is a change that is done or    *)
(* undone: see ProfileChange.  One that met another obstacle than a lock    *)
(* while it restored may stop in the middle.                                *)
AtWork == stage \notin {"idle", "finally"}

Ending ==
  IF AtWork \/ verdict = "none" THEN "none"
  ELSE IF verdict = "ok" THEN "done"
  ELSE IF verdict = "refused" \/ (verdict \in Failure /\ ~faulted) THEN "undone"
  ELSE "stopped"

All(content) == [f \in Owned |-> content]

Change == IF AtWork THEN <<All("whole"), All("gone")>> ELSE <<>>

Promise == INSTANCE ProfileChange WITH
  File <- Owned, Contents <- {"whole", "torn", "gone"}, Goals <- {All("gone")},
  Unfinished <- {"torn"},
  profile <- live, change <- Change, last <- Ending

(* What a run says of the profile is so: "ok" of one that has removed every *)
(* owned file, a failure that met no other obstacle than locks of one that  *)
(* left every file as it was; and no step touches a path afterwards.        *)
ImplementsProfileChange == Promise!Spec

=============================================================================
