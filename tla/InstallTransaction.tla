------------------------ MODULE InstallTransaction ------------------------
(***************************************************************************)
(* install/upgrade of install.py on one SketchUp profile: the extension    *)
(* directory, the registration file and the receipt are moved to backups,  *)
(* replaced one by one, verified against a live SketchUp, and either the   *)
(* backups are deleted or everything is rolled back.  Every file operation *)
(* can raise, an interrupt can fall between an os.replace and the flag     *)
(* that records it, and the installer can be killed at any point.          *)
(*                                                                         *)
(* A file's content is the adapter version it belongs to.                  *)
(***************************************************************************)
EXTENDS Naturals

CONSTANTS
  Version,   \* adapter versions that are or will be installed
  MaxRuns    \* bound: installer runs

Absent == 0

ASSUME VersionAssumption == Version \subseteq Nat \ {Absent}
ASSUME RunsAssumption == MaxRuns \in Nat

Item == {"target", "registration", "receipt"}
Content == Version \cup {Absent}
Nothing == [i \in Item |-> Absent]
All(v)  == [i \in Item |-> v]

VARIABLES
  live,      \* what is at the installed path
  backup,    \* what is at .<name>.backup-<transaction>
  failed,    \* what is at .<name>.failed-<transaction>
  left,      \* contents earlier runs left behind under such names
  loaded,    \* the version a running SketchUp loaded, Absent when none does
  stage, k,  \* where the installer is; "idle" between two runs
  new,       \* the version being installed
  tx,        \* this run has a transaction: the state was not "current"
  backedUp,  \* the *_backed_up flags
  placed,    \* the *_installed flags
  prior,     \* history: live at the start; *_preexisted is prior # Absent
  good,      \* history: what the last verified run installed
  verdict,   \* why the transaction ends, then how the run ended
  runs

files == <<live, backup, failed, left>>
flags == <<backedUp, placed>>
vars == <<files, loaded, stage, k, new, tx, flags, prior, good, verdict, runs>>

Forward  == <<"target", "registration", "receipt">>
Backward == <<"receipt", "registration", "target">>

Goto(s) == stage' = s /\ k' = 1
Advance(next) == IF k = 3 THEN Goto(next) ELSE k' = k + 1 /\ UNCHANGED stage

(* Fault: a path is recorded as set aside although nothing was there. *)
BugLeftBehind(i) == {backup[i], failed[i]}

LeftBehind(i) == {backup[i], failed[i]} \ {Absent}

(* The process ends: what the transaction set aside stays where it is. *)
Exit(v) ==
  /\ Goto("idle") /\ verdict' = v
  /\ left' = [i \in Item |-> left[i] \cup LeftBehind(i)]
  /\ backup' = Nothing /\ failed' = Nothing
  /\ UNCHANGED <<live, loaded, new, tx, flags, prior, runs>>

-----------------------------------------------------------------------------
(* SketchUp loads the extension that is registered when it starts. *)
OpenHost ==
  /\ loaded = Absent
  /\ live["target"] # Absent /\ live["registration"] # Absent
  /\ loaded' = live["target"]
  /\ UNCHANGED <<files, stage, k, new, tx, flags, prior, good, verdict, runs>>

CloseHost ==
  /\ loaded # Absent
  /\ loaded' = Absent
  /\ UNCHANGED <<files, stage, k, new, tx, flags, prior, good, verdict, runs>>

-----------------------------------------------------------------------------
(* _execute_install: a profile that is already current is only verified. *)
Begin(v) ==
  /\ stage = "idle" /\ runs < MaxRuns
  /\ runs' = runs + 1
  /\ new' = v /\ verdict' = "none"
  /\ tx' = (live # All(v))
  /\ Goto(IF live = All(v) THEN "verify" ELSE "backup")
  /\ prior' = live
  /\ backedUp' = [i \in Item |-> FALSE] /\ placed' = [i \in Item |-> FALSE]
  /\ UNCHANGED <<files, loaded, good>>

(* Fault: the receipt is overwritten, not moved to a backup. *)
BugExists(i) == i # "receipt" /\ live[i] # Absent

Exists(i) == live[i] # Absent

(* os.replace of one installed path to its backup, if there is one. *)
SkipBackup ==
  /\ stage = "backup" /\ ~Exists(Forward[k])
  /\ Advance("place")
  /\ UNCHANGED <<files, loaded, new, tx, flags, prior, good, verdict, runs>>

MoveToBackup(i) ==
  /\ Exists(i)
  /\ backup' = [backup EXCEPT ![i] = live[i]]
  /\ live'   = [live EXCEPT ![i] = Absent]
  /\ UNCHANGED <<failed, left>>

Backup ==
  /\ stage = "backup" /\ MoveToBackup(Forward[k])
  /\ backedUp' = [backedUp EXCEPT ![Forward[k]] = TRUE]
  /\ Advance("place")
  /\ UNCHANGED <<loaded, new, tx, placed, prior, good, verdict, runs>>

(* os.replace of the staged directory and file; _write_json_atomic of the  *)
(* receipt.                                                                *)
MoveIn(i) == live' = [live EXCEPT ![i] = new] /\ UNCHANGED <<backup, failed, left>>

Place ==
  /\ stage = "place" /\ MoveIn(Forward[k])
  /\ placed' = [placed EXCEPT ![Forward[k]] = TRUE]
  /\ Advance("verify")
  /\ UNCHANGED <<loaded, new, tx, backedUp, prior, good, verdict, runs>>

(* The except branches: an operation raises without effect, or an          *)
(* interrupt arrives after its effect and before its flag.                 *)
Raise ==
  /\ stage \in {"backup", "place", "verify"} /\ tx
  /\ Goto("aside") /\ verdict' = "error"
  /\ UNCHANGED <<files, loaded, new, tx, flags, prior, good, runs>>

Interrupt ==
  /\ \/ stage = "backup" /\ MoveToBackup(Forward[k])
     \/ stage = "place" /\ MoveIn(Forward[k])
  /\ Goto("aside") /\ verdict' = "error"
  /\ UNCHANGED <<loaded, new, tx, flags, prior, good, runs>>

(* verify_install is directly_usable only when the running SketchUp        *)
(* answers and loaded the version that is installed.                       *)
Usable == live = All(new) /\ loaded = new

VerifyPasses ==
  /\ stage = "verify" /\ Usable
  /\ good' = live
  /\ \/ tx  /\ Goto("clean") /\ verdict' = "ok"
            /\ UNCHANGED <<files, loaded, new, tx, flags, prior, runs>>
     \/ ~tx /\ Exit("ok")

VerifyFails ==
  /\ stage = "verify"
  /\ \/ tx  /\ Goto("aside") /\ verdict' = "unverified"
            /\ UNCHANGED <<files, loaded, new, tx, flags, prior, runs>>
     \/ ~tx /\ Exit("unverified")
  /\ UNCHANGED good

(* verify_install raises, and there is no transaction to roll back. *)
VerifyRaises ==
  /\ stage = "verify" /\ ~tx
  /\ Exit("error")
  /\ UNCHANGED good

-----------------------------------------------------------------------------
(* rollback: what was installed moves aside, then the backups move back.   *)

MoveAside(i) ==
  IF placed[i] /\ live[i] # Absent
    THEN /\ failed' = [failed EXCEPT ![i] = live[i]]
         /\ live'   = [live EXCEPT ![i] = Absent]
         /\ UNCHANGED <<backup, left>>
    ELSE UNCHANGED files

SetAside ==
  /\ stage = "aside" /\ MoveAside(Backward[k])
  /\ Advance("restore")
  /\ UNCHANGED <<loaded, new, tx, flags, prior, good, verdict, runs>>

(* Fault: whatever is at the path is taken for the restored file. *)
BugMoveBack(i) ==
  IF backedUp[i] /\ live[i] = Absent
    THEN /\ live'   = [live EXCEPT ![i] = backup[i]]
         /\ backup' = [backup EXCEPT ![i] = Absent]
         /\ UNCHANGED <<failed, left>>
    ELSE UNCHANGED files

(* os.replace overwrites a file, and fails on an existing directory. *)
MoveBack(i) ==
  IF backedUp[i]
    THEN /\ i = "target" => live[i] = Absent
         /\ live'   = [live EXCEPT ![i] = backup[i]]
         /\ backup' = [backup EXCEPT ![i] = Absent]
         /\ UNCHANGED <<failed, left>>
    ELSE UNCHANGED files

Restore ==
  /\ stage = "restore" /\ MoveBack(Backward[k])
  /\ Advance("check")
  /\ UNCHANGED <<loaded, new, tx, flags, prior, good, verdict, runs>>

(* Fault: the flags alone decide that rollback is complete. *)
BugRestored == TRUE

Restored == \A i \in Item : (live[i] # Absent) = (prior[i] # Absent)

CheckRestored ==
  /\ stage = "check" /\ Restored
  /\ Goto("clean")
  /\ UNCHANGED <<files, loaded, new, tx, flags, prior, good, verdict, runs>>

(* An operation of rollback raises, or its last check does.  Nothing is    *)
(* deleted: finalize only runs after rollback returned.                    *)
RollbackFails ==
  /\ stage \in {"aside", "restore", "check"}
  /\ Exit("not_restored")
  /\ UNCHANGED good

(* finalize deletes, item by item, the path set aside, then the backup. *)
CleanFailed ==
  /\ stage = "clean" /\ failed[Forward[k]] # Absent
  /\ failed' = [failed EXCEPT ![Forward[k]] = Absent]
  /\ UNCHANGED <<live, backup, left, loaded, stage, k, new, tx, flags, prior, good,
                 verdict, runs>>

CleanBackup ==
  /\ stage = "clean" /\ failed[Forward[k]] = Absent
  /\ backup' = [backup EXCEPT ![Forward[k]] = Absent]
  /\ Advance("finished")
  /\ UNCHANGED <<live, failed, left, loaded, new, tx, flags, prior, good, verdict, runs>>

CleanFails ==
  /\ stage = "clean"
  /\ Exit("unclean")
  /\ UNCHANGED good

Finish ==
  /\ stage = "finished"
  /\ Exit(verdict)
  /\ UNCHANGED good

(* The installer is killed, or the machine stops. *)
Crash ==
  /\ stage # "idle"
  /\ Exit("crashed")
  /\ UNCHANGED good

-----------------------------------------------------------------------------

(* A profile as the user has it: nothing, an installation, parts of one. *)
Init ==
  /\ live \in [Item -> Content] /\ good = live /\ prior = live
  /\ backup = Nothing /\ failed = Nothing
  /\ left = [i \in Item |-> {}]
  /\ loaded = Absent
  /\ stage = "idle" /\ k = 1 /\ new = Absent /\ tx = FALSE
  /\ backedUp = [i \in Item |-> FALSE] /\ placed = [i \in Item |-> FALSE]
  /\ verdict = "none" /\ runs = 0

Installer ==
  \/ \E v \in Version : Begin(v)
  \/ SkipBackup \/ Backup \/ Place
  \/ Raise \/ Interrupt
  \/ VerifyPasses \/ VerifyFails \/ VerifyRaises
  \/ SetAside \/ Restore \/ CheckRestored \/ RollbackFails
  \/ CleanFailed \/ CleanBackup \/ CleanFails \/ Finish

Next == Installer \/ Crash \/ OpenHost \/ CloseHost

Spec == Init /\ [][Next]_vars

-----------------------------------------------------------------------------
(* Properties.                                                             *)

Stage == {"idle", "backup", "place", "verify", "aside", "restore", "check", "clean", "finished"}
Verdict == {"none", "error", "ok", "unverified", "not_restored", "unclean", "crashed"}

TypeOK ==
  /\ live \in [Item -> Content] /\ backup \in [Item -> Content] /\ failed \in [Item -> Content]
  /\ left \in [Item -> SUBSET Version]
  /\ loaded \in Content
  /\ stage \in Stage /\ k \in 1..3
  /\ new \in Content /\ (stage # "idle" => new \in Version) /\ tx \in BOOLEAN
  /\ backedUp \in [Item -> BOOLEAN] /\ placed \in [Item -> BOOLEAN]
  /\ prior \in [Item -> Content] /\ good \in [Item -> Content]
  /\ verdict \in Verdict /\ runs \in Nat

(* "The previous extension, registration, and receipt remain recoverable    *)
(* until the new receipt is durable": each file of the last installation    *)
(* that verified is at its path, in the running transaction's backup or in  *)
(* one left behind by an earlier run, through any failure, any interrupt    *)
(* and any crash, until another installation has verified.                  *)
LastGoodRecoverable ==
  \A i \in Item : good[i] # Absent => good[i] \in {live[i], backup[i]} \cup left[i]

(* Before verification decides, the prior files are complete in the backup: *)
(* whichever way it goes, there is something to go back to.                 *)
BackupCompleteAtVerify ==
  stage = "verify" /\ tx => backup = prior /\ live = All(new)

(* As far as the installed paths show, a run is a change that is done or    *)
(* undone: see ProfileChange.                                               *)
AtWork == stage \notin {"idle", "clean", "finished"}

Ending ==
  IF AtWork \/ verdict = "none" THEN "none"
  ELSE IF verdict = "ok" THEN "done"
  ELSE IF verdict \in {"error", "unverified"} THEN "undone"
  ELSE "stopped"

Change == IF AtWork THEN <<prior, All(new)>> ELSE <<>>

Promise == INSTANCE ProfileChange WITH
  File <- Item, Contents <- Content, Goals <- {All(v) : v \in Version}, Unfinished <- {Absent},
  profile <- live, change <- Change, last <- Ending

(* What a run says of the profile is so, down to each file, through every   *)
(* failure, interrupt and crash, and stays so: once verification or         *)
(* rollback has decided, no step touches an installed path until the next   *)
(* run.                                                                     *)
ImplementsProfileChange == Promise!Spec

=============================================================================
