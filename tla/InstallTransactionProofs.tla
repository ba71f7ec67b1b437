---------------------- MODULE InstallTransactionProofs ----------------------
(***************************************************************************)
(* The safety of the installation transaction, for any set of versions and *)
(* any number of runs.                                                     *)
(*                                                                         *)
(* None of the properties is inductive: what rollback restores depends on  *)
(* how far the transaction had come and on which flag an interrupt kept it *)
(* from setting.  IInv says, stage by stage, in which of a few shapes each *)
(* item is: untouched, saved, installed, not yet restored, settled.        *)
(***************************************************************************)
EXTENDS InstallTransaction, TLAPS

Position(i) == IF i = "target" THEN 1 ELSE IF i = "registration" THEN 2 ELSE 3

Untouched(i) == live[i] = prior[i] /\ backup[i] = Absent /\ ~backedUp[i] /\ ~placed[i]

HasBackup(i) == backup[i] = prior[i] /\ (backedUp[i] <=> prior[i] # Absent)

Saved(i) == live[i] = Absent /\ HasBackup(i) /\ ~placed[i]

Installed(i) == live[i] = new /\ HasBackup(i) /\ placed[i]

(* The check at the end of rollback turns "settled" into "restored". *)
Settled(i) == live[i] = prior[i] \/ live[i] = Absent \/ prior[i] = Absent

(* An interrupted item: what its flags say is true, but perhaps not all. *)
Unrestored(i) ==
  /\ backedUp[i]  => backup[i] = prior[i]
  /\ ~backedUp[i] => Settled(i)
  /\ placed[i]    => HasBackup(i)

PriorKept(i) == prior[i] # Absent => prior[i] \in {live[i], backup[i]}
GoodKept(i)  == good[i] # Absent => good[i] = prior[i] \/ good[i] \in left[i]

IdleInv == stage = "idle" => backup = Nothing /\ failed = Nothing

BackupInv ==
  stage = "backup" => tx /\
    \A i \in Item : IF Position(i) < k THEN Saved(i) ELSE Untouched(i)

PlaceInv ==
  stage = "place" => tx /\
    \A i \in Item : IF Position(i) < k THEN Installed(i) ELSE Saved(i)

VerifyInv ==
  stage = "verify" =>
    IF tx THEN \A i \in Item : Installed(i)
          ELSE \A i \in Item : live[i] = new /\ Untouched(i)

AsideInv == stage = "aside" => \A i \in Item : Unrestored(i)

RestoreInv ==
  stage = "restore" =>
    \A i \in Item : IF 4 - Position(i) < k THEN Settled(i) ELSE Unrestored(i)

CheckInv == stage = "check" => \A i \in Item : Settled(i)

RollbackInv == stage \in {"aside", "restore", "check"} => verdict \in {"error", "unverified"}

KeptInv ==
  /\ stage \in {"backup", "place", "verify", "aside", "restore", "check"} =>
       \A i \in Item : PriorKept(i)
  /\ stage # "idle" /\ ~(stage \in {"clean", "finished"} /\ verdict = "ok") =>
       \A i \in Item : GoodKept(i)
  /\ stage \in {"clean", "finished"} /\ verdict = "ok" => good = live

StageInv ==
  /\ IdleInv /\ BackupInv /\ PlaceInv /\ VerifyInv
  /\ AsideInv /\ RestoreInv /\ CheckInv /\ RollbackInv

(* A run that says it ended in order did: after "ok" the profile holds the  *)
(* new version and nothing else, and once rollback has returned, whatever   *)
(* happened in between, the profile is what it was, down to each file.      *)
RunEndsInOrder ==
  /\ stage \in {"clean", "finished"} /\ verdict = "ok" => live = All(new)
  /\ stage \in {"clean", "finished"} /\ verdict # "ok" => live = prior
  /\ stage = "idle" /\ verdict = "ok" => live = All(new)
  /\ stage = "idle" /\ verdict \in {"unverified", "error"} => live = prior

IInv == TypeOK /\ LastGoodRecoverable /\ RunEndsInOrder /\ StageInv /\ KeptInv

-----------------------------------------------------------------------------
(* Forward and Backward visit the three items, each once. *)
LEMMA Visits ==
  ASSUME NEW n \in 1..3
  PROVE  /\ Forward[n] \in Item /\ Position(Forward[n]) = n
         /\ Backward[n] \in Item /\ Position(Backward[n]) = 4 - n
<1>1. CASE n = 1 BY <1>1 DEF Forward, Backward, Item, Position
<1>2. CASE n = 2 BY <1>2 DEF Forward, Backward, Item, Position
<1>3. CASE n = 3 BY <1>3 DEF Forward, Backward, Item, Position
<1> QED BY <1>1, <1>2, <1>3

LEMMA PositionOnce ==
  ASSUME NEW i \in Item
  PROVE  Position(i) \in 1..3 /\ \A j \in Item : Position(j) = Position(i) => j = i
BY DEF Item, Position

(* The item a forward step is about. *)
LEMMA ForwardItem ==
  ASSUME k \in 1..3
  PROVE  \E j \in Item : /\ j = Forward[k] /\ Position(j) = k
                         /\ \A i \in Item \ {j} : Position(i) \in 1..3 \ {k}
BY Visits, PositionOnce

(* The item a step of rollback is about. *)
LEMMA BackwardItem ==
  ASSUME k \in 1..3
  PROVE  \E j \in Item : /\ j = Backward[k] /\ 4 - Position(j) = k /\ Position(j) \in 1..3
                         /\ \A i \in Item \ {j} : /\ Position(i) \in 1..3
                                                 /\ 4 - Position(i) # k
<1>1. PICK j \in Item : j = Backward[k] /\ Position(j) = 4 - k
  BY Visits
<1>2. \A i \in Item : Position(i) \in 1..3
  BY PositionOnce
<1>3. \A i \in Item : Position(i) = Position(j) => i = j
  BY PositionOnce
<1> QED BY <1>1, <1>2, <1>3

LEMMA AbsentIsNoVersion == Absent \notin Version
BY VersionAssumption DEF Absent

LEMMA TypeInit == Init => TypeOK
<1> SUFFICES ASSUME Init PROVE TypeOK
  OBVIOUS
<1>1. /\ live \in [Item -> Content] /\ prior \in [Item -> Content]
      /\ good \in [Item -> Content]
  BY DEF Init
<1>2. backup \in [Item -> Content] /\ failed \in [Item -> Content]
  BY DEF Init, Nothing, Content
<1>3. left \in [Item -> SUBSET Version]
  BY DEF Init
<1>4. backedUp \in [Item -> BOOLEAN] /\ placed \in [Item -> BOOLEAN]
  BY DEF Init
<1>5. loaded \in Content /\ new \in Content
  BY DEF Init, Content
<1>6. stage = "idle" /\ k \in 1..3 /\ verdict = "none" /\ runs \in Nat
  BY DEF Init
<1>7. tx \in BOOLEAN
  BY Zenon DEF Init
<1> QED BY <1>1, <1>2, <1>3, <1>4, <1>5, <1>6, <1>7 DEF TypeOK, Stage, Verdict

(* Ending the process keeps the types. *)
LEMMA ExitTypes ==
  ASSUME TypeOK, NEW v \in Verdict, Exit(v), good' \in [Item -> Content]
  PROVE  TypeOK'
<1>1. \A i \in Item : LeftBehind(i) \subseteq Version
  BY DEF TypeOK, LeftBehind, Content
<1>2. left' \in [Item -> SUBSET Version]
  BY <1>1 DEF TypeOK, Exit
<1>3. backup' \in [Item -> Content] /\ failed' \in [Item -> Content]
  BY DEF Exit, Nothing, Content
<1>4. stage' = "idle" /\ k' = 1 /\ verdict' = v
  BY DEF Exit, Goto
<1>5. /\ live' = live /\ loaded' = loaded /\ new' = new /\ tx' = tx /\ prior' = prior
      /\ runs' = runs /\ backedUp' = backedUp /\ placed' = placed
  BY DEF Exit, flags
<1> QED BY <1>2, <1>3, <1>4, <1>5 DEF TypeOK, Stage

(* Going on to the next item or stage keeps the position in range. *)
LEMMA AdvanceTypes ==
  ASSUME TypeOK, NEW s \in Stage, Advance(s)
  PROVE  stage' \in Stage /\ k' \in 1..3
BY DEF TypeOK, Advance, Goto

LEMMA TypeStep == TypeOK /\ [Next]_vars => TypeOK'
<1> SUFFICES ASSUME TypeOK, [Next]_vars PROVE TypeOK'
  OBVIOUS
<1> USE DEF flags, files
<1>1. CASE \E v \in Version : Begin(v)
  <2> PICK v \in Version : Begin(v)
    BY <1>1
  <2>1. stage' \in {"verify", "backup"} /\ k' = 1 /\ verdict' = "none" /\ new' = v
    BY DEF Begin, Goto
  <2>2. tx' \in BOOLEAN /\ runs' \in Nat
    BY DEF Begin, TypeOK
  <2>3. /\ prior' \in [Item -> Content] /\ backedUp' \in [Item -> BOOLEAN]
        /\ placed' \in [Item -> BOOLEAN]
    BY DEF Begin, TypeOK
  <2>4. UNCHANGED <<files, loaded, good>>
    BY DEF Begin
  <2> QED BY <2>1, <2>2, <2>3, <2>4 DEF TypeOK, Stage, Verdict, Content
<1>2. CASE SkipBackup
  <2>1. stage' \in Stage /\ k' \in 1..3
    BY <1>2, AdvanceTypes DEF SkipBackup, Stage
  <2> QED BY <1>2, <2>1 DEF SkipBackup, TypeOK
<1>3. CASE Backup
  <2>1. stage' \in Stage /\ k' \in 1..3
    BY <1>3, AdvanceTypes DEF Backup, Stage
  <2>2. live' \in [Item -> Content] /\ backup' \in [Item -> Content]
    BY <1>3, Visits DEF Backup, MoveToBackup, TypeOK, Content
  <2>3. backedUp' \in [Item -> BOOLEAN]
    BY <1>3 DEF Backup, TypeOK
  <2>4. UNCHANGED <<failed, left, loaded, new, tx, placed, prior, good, verdict, runs>>
    BY <1>3 DEF Backup, MoveToBackup
  <2>5. stage # "idle"
    BY <1>3 DEF Backup
  <2> QED BY <2>1, <2>2, <2>3, <2>4, <2>5 DEF TypeOK
<1>4. CASE Place
  <2>1. stage' \in Stage /\ k' \in 1..3
    BY <1>4, AdvanceTypes DEF Place, Stage
  <2>2. live' \in [Item -> Content]
    BY <1>4, Visits DEF Place, MoveIn, TypeOK
  <2>3. placed' \in [Item -> BOOLEAN]
    BY <1>4 DEF Place, TypeOK
  <2>4. UNCHANGED <<backup, failed, left, loaded, new, tx, backedUp, prior, good, verdict, runs>>
    BY <1>4 DEF Place, MoveIn
  <2>5. stage # "idle"
    BY <1>4 DEF Place
  <2> QED BY <2>1, <2>2, <2>3, <2>4, <2>5 DEF TypeOK
<1>5. CASE Raise
  BY <1>5 DEF Raise, Goto, TypeOK, Stage, Verdict
<1>6. CASE Interrupt
  <2>1. live' \in [Item -> Content] /\ backup' \in [Item -> Content]
    BY <1>6, Visits DEF Interrupt, MoveToBackup, MoveIn, TypeOK, Content
  <2>2. UNCHANGED <<failed, left, loaded, new, tx, flags, prior, good, runs>>
    BY <1>6 DEF Interrupt, MoveToBackup, MoveIn
  <2>3. stage # "idle" /\ stage' = "aside" /\ k' = 1 /\ verdict' = "error"
    BY <1>6 DEF Interrupt, Goto
  <2> QED BY <2>1, <2>2, <2>3 DEF TypeOK, Stage, Verdict
<1>7. CASE VerifyPasses
  <2>1. good' \in [Item -> Content]
    BY <1>7 DEF VerifyPasses, TypeOK
  <2>2. CASE tx
    BY <1>7, <2>1, <2>2 DEF VerifyPasses, Goto, TypeOK, Stage, Verdict
  <2>3. CASE ~tx
    BY <1>7, <2>1, <2>3, ExitTypes DEF VerifyPasses, Verdict
  <2> QED BY <2>2, <2>3
<1>8. CASE VerifyFails
  <2>1. CASE tx
    BY <1>8, <2>1 DEF VerifyFails, Goto, TypeOK, Stage, Verdict
  <2>2. CASE ~tx
    BY <1>8, <2>2, ExitTypes DEF VerifyFails, Verdict, TypeOK
  <2> QED BY <2>1, <2>2
<1>9. CASE VerifyRaises
  BY <1>9, ExitTypes DEF VerifyRaises, Verdict, TypeOK
<1>10. CASE SetAside
  <2>1. stage' \in Stage /\ k' \in 1..3
    BY <1>10, AdvanceTypes DEF SetAside, Stage
  <2>2. /\ live' \in [Item -> Content] /\ failed' \in [Item -> Content]
        /\ UNCHANGED <<backup, left>>
    BY <1>10, Visits DEF SetAside, MoveAside, TypeOK, Content
  <2> QED BY <1>10, <2>1, <2>2 DEF SetAside, TypeOK
<1>11. CASE Restore
  <2>1. stage' \in Stage /\ k' \in 1..3
    BY <1>11, AdvanceTypes DEF Restore, Stage
  <2>2. /\ live' \in [Item -> Content] /\ backup' \in [Item -> Content]
        /\ UNCHANGED <<failed, left>>
    BY <1>11, Visits DEF Restore, MoveBack, TypeOK, Content
  <2> QED BY <1>11, <2>1, <2>2 DEF Restore, TypeOK
<1>12. CASE CheckRestored
  BY <1>12 DEF CheckRestored, Goto, TypeOK, Stage
<1>13. CASE RollbackFails
  BY <1>13, ExitTypes DEF RollbackFails, Verdict, TypeOK
<1>14. CASE CleanFailed
  BY <1>14, Visits DEF CleanFailed, TypeOK, Content
<1>15. CASE CleanBackup
  <2>1. stage' \in Stage /\ k' \in 1..3
    BY <1>15, AdvanceTypes DEF CleanBackup, Stage
  <2>2. backup' \in [Item -> Content]
    BY <1>15, Visits DEF CleanBackup, TypeOK, Content
  <2> QED BY <1>15, <2>1, <2>2 DEF CleanBackup, TypeOK
<1>16. CASE CleanFails
  BY <1>16, ExitTypes DEF CleanFails, Verdict, TypeOK
<1>17. CASE Finish
  BY <1>17, ExitTypes DEF Finish, TypeOK
<1>18. CASE Crash
  BY <1>18, ExitTypes DEF Crash, Verdict, TypeOK
<1>19. CASE OpenHost
  BY <1>19 DEF OpenHost, TypeOK, Item
<1>20. CASE CloseHost
  BY <1>20 DEF CloseHost, TypeOK, Content
<1>21. CASE UNCHANGED vars
  BY <1>21 DEF vars, TypeOK
<1> QED
  BY <1>1, <1>2, <1>3, <1>4, <1>5, <1>6, <1>7, <1>8, <1>9, <1>10, <1>11, <1>12, <1>13,
     <1>14, <1>15, <1>16, <1>17, <1>18, <1>19, <1>20, <1>21 DEF Next, Installer

(* The state is well formed in every reachable state. *)
THEOREM TypeCorrect == Spec => []TypeOK
<1>1. Init => TypeOK
  BY TypeInit
<1>2. TypeOK /\ [Next]_vars => TypeOK'
  BY TypeStep
<1> QED BY <1>1, <1>2, PTL DEF Spec

-----------------------------------------------------------------------------
(* Ending the process loses nothing and leaves the next run a clean start. *)
LEMMA ExitInv ==
  ASSUME TypeOK, LastGoodRecoverable, NEW v \in Verdict, Exit(v), TypeOK',
         \/ good' = good
         \/ good' = live,
         v = "ok" => live = All(new),
         v \in {"unverified", "error"} => live = prior
  PROVE  LastGoodRecoverable' /\ RunEndsInOrder' /\ StageInv' /\ KeptInv'
<1>1. /\ stage' = "idle" /\ verdict' = v
      /\ UNCHANGED <<live, new, prior>>
      /\ backup' = Nothing /\ failed' = Nothing
  BY DEF Exit, Goto
<1>2. LastGoodRecoverable'
  <2>1. \A i \in Item : left'[i] = left[i] \cup LeftBehind(i)
    BY DEF Exit
  <2> SUFFICES ASSUME NEW i \in Item, good'[i] # Absent
               PROVE  good'[i] \in {live'[i], backup'[i]} \cup left'[i]
    BY DEF LastGoodRecoverable
  <2>2. CASE good' = live
    BY <1>1, <2>2
  <2>3. CASE good' = good
    <3>1. good[i] \in {live[i], backup[i]} \cup left[i]
      BY <2>3 DEF LastGoodRecoverable
    <3>2. backup[i] # Absent => backup[i] \in left'[i]
      BY <2>1 DEF LeftBehind
    <3> QED BY <1>1, <2>1, <2>3, <3>1, <3>2
  <2> QED BY <2>2, <2>3
<1>3. RunEndsInOrder'
  BY <1>1 DEF RunEndsInOrder, All
<1>4. StageInv'
  BY <1>1 DEF StageInv, IdleInv, BackupInv, PlaceInv, VerifyInv, AsideInv, RestoreInv,
              CheckInv, RollbackInv
<1>5. KeptInv'
  BY <1>1 DEF KeptInv
<1> QED BY <1>2, <1>3, <1>4, <1>5

LEMMA InvInit == Init => IInv
<1> SUFFICES ASSUME Init PROVE IInv
  OBVIOUS
<1>1. TypeOK
  BY TypeInit
<1>2. stage = "idle" /\ verdict = "none" /\ good = live /\ backup = Nothing /\ failed = Nothing
  BY DEF Init
<1>3. LastGoodRecoverable /\ RunEndsInOrder /\ KeptInv
  BY <1>2 DEF LastGoodRecoverable, RunEndsInOrder, KeptInv
<1>4. StageInv
  BY <1>2 DEF StageInv, IdleInv, BackupInv, PlaceInv, VerifyInv, AsideInv, RestoreInv,
              CheckInv, RollbackInv
<1> QED BY <1>1, <1>3, <1>4 DEF IInv

(* After a step within a run, only the invariant of the stage reached, and *)
(* that nothing was lost, is left to show.                                 *)
LEMMA StepWithinRun ==
  ASSUME TypeOK',
         \/ (stage = "backup" /\ BackupInv)'
         \/ (stage = "place" /\ PlaceInv)'
         \/ (stage = "verify" /\ VerifyInv)'
         \/ (stage = "aside" /\ AsideInv /\ RollbackInv)'
         \/ (stage = "restore" /\ RestoreInv /\ RollbackInv)'
         \/ (stage = "check" /\ CheckInv /\ RollbackInv)',
         \A i \in Item : PriorKept(i)' /\ GoodKept(i)'
  PROVE  IInv'
<1>1. StageInv'
  BY DEF StageInv, IdleInv, BackupInv, PlaceInv, VerifyInv, AsideInv, RestoreInv, CheckInv,
         RollbackInv
<1>2. LastGoodRecoverable'
  BY DEF LastGoodRecoverable, PriorKept, GoodKept
<1>3. RunEndsInOrder'
  BY DEF RunEndsInOrder
<1>4. KeptInv'
  BY DEF KeptInv
<1> QED BY <1>1, <1>2, <1>3, <1>4 DEF IInv

(* An item that no variable of is touched keeps its shape. *)
Same(i) ==
  /\ live'[i] = live[i] /\ backup'[i] = backup[i] /\ left'[i] = left[i]
  /\ backedUp'[i] = backedUp[i] /\ placed'[i] = placed[i]
  /\ prior'[i] = prior[i] /\ good'[i] = good[i] /\ new' = new

LEMMA SameShape ==
  ASSUME NEW i \in Item, Same(i)
  PROVE  /\ Untouched(i)  => Untouched(i)'
         /\ Saved(i)      => Saved(i)'
         /\ Installed(i)  => Installed(i)'
         /\ Unrestored(i) => Unrestored(i)'
         /\ Settled(i)    => Settled(i)'
         /\ PriorKept(i)  => PriorKept(i)'
         /\ GoodKept(i)   => GoodKept(i)'
BY DEF Same, Untouched, Saved, Installed, Unrestored, HasBackup, Settled, PriorKept, GoodKept

(* The two ways an item advances: to the next one or to the next stage. *)
LEMMA AdvanceCases ==
  ASSUME TypeOK, NEW s, Advance(s)
  PROVE  \/ k < 3 /\ k' = k + 1 /\ stage' = stage
         \/ k = 3 /\ k' = 1 /\ stage' = s
BY DEF TypeOK, Advance, Goto

LEMMA BeginInv ==
  ASSUME IInv, TypeOK', NEW v \in Version, Begin(v)
  PROVE  IInv'
<1>1. /\ stage = "idle" /\ backup = Nothing /\ LastGoodRecoverable /\ TypeOK
      /\ new' = v /\ prior' = live /\ live' = live /\ backup' = backup
      /\ left' = left /\ good' = good /\ k' = 1
      /\ tx' = (live # All(v)) /\ stage' = IF live = All(v) THEN "verify" ELSE "backup"
  BY DEF Begin, Goto, files, IInv, StageInv, IdleInv
<1>2. \A i \in Item : Untouched(i)'
  BY <1>1 DEF Begin, Untouched, Nothing
<1>3. \A i \in Item : PriorKept(i)' /\ GoodKept(i)'
  BY <1>1 DEF PriorKept, GoodKept, LastGoodRecoverable, Nothing
<1>4. CASE live = All(v)
  <2>1. \A i \in Item : live'[i] = new'
    BY <1>1, <1>4 DEF All
  <2>2. VerifyInv'
    BY <1>1, <1>2, <1>4, <2>1 DEF VerifyInv
  <2> QED BY <1>1, <1>3, <1>4, <2>2, StepWithinRun
<1>5. CASE live # All(v)
  <2>1. \A i \in Item : ~(Position(i) < 1)
    BY DEF Position
  <2>2. BackupInv'
    BY <1>1, <1>2, <2>1 DEF BackupInv, Position
  <2> QED BY <1>1, <1>3, <1>5, <2>2, StepWithinRun
<1> QED BY <1>4, <1>5

(* What the transaction has not disturbed before rollback. *)
LEMMA KeptSoFar ==
  ASSUME IInv, stage \in {"backup", "place", "verify", "aside", "restore", "check"}
  PROVE  \A i \in Item : PriorKept(i) /\ GoodKept(i)
BY DEF IInv, KeptInv

LEMMA SkipBackupInv ==
  ASSUME IInv, TypeOK', SkipBackup
  PROVE  IInv'
<1>1. /\ TypeOK /\ k \in 1..3 /\ stage = "backup" /\ live[Forward[k]] = Absent
      /\ Advance("place") /\ tx /\ tx'
      /\ \A i \in Item : Same(i)
  BY DEF IInv, TypeOK, StageInv, BackupInv, SkipBackup, Exists, Same, files, flags
<1>2. PICK j \in Item : /\ j = Forward[k] /\ Position(j) = k
                       /\ \A i \in Item \ {j} : Position(i) \in 1..3 \ {k}
  BY <1>1, ForwardItem
<1>3. \A i \in Item : IF Position(i) < k THEN Saved(i) ELSE Untouched(i)
  BY <1>1 DEF IInv, StageInv, BackupInv
<1>4. Saved(j)'
  <2>1. Untouched(j)
    BY <1>1, <1>2, <1>3
  <2>2. Saved(j)
    BY <1>1, <1>2, <2>1 DEF Untouched, Saved, HasBackup
  <2> QED BY <1>1, <2>2, SameShape
<1>5. \A i \in Item \ {j} : IF Position(i) < k THEN Saved(i)' ELSE Untouched(i)'
  BY <1>1, <1>3, SameShape
<1>6. \A i \in Item : PriorKept(i)' /\ GoodKept(i)'
  BY <1>1, KeptSoFar, SameShape
<1>7. CASE k < 3 /\ k' = k + 1 /\ stage' = stage
  <2>1. BackupInv'
    BY <1>1, <1>2, <1>4, <1>5, <1>7 DEF BackupInv
  <2> QED BY <1>1, <1>6, <1>7, <2>1, StepWithinRun
<1>8. CASE k = 3 /\ k' = 1 /\ stage' = "place"
  <2>1. PlaceInv'
    BY <1>1, <1>2, <1>4, <1>5, <1>8 DEF PlaceInv
  <2> QED BY <1>6, <1>8, <2>1, StepWithinRun
<1> QED BY <1>1, <1>7, <1>8, AdvanceCases

LEMMA BackupStepInv ==
  ASSUME IInv, TypeOK', Backup
  PROVE  IInv'
<1>1. /\ TypeOK /\ k \in 1..3 /\ stage = "backup" /\ Advance("place")
      /\ backedUp' = [backedUp EXCEPT ![Forward[k]] = TRUE]
      /\ backup' = [backup EXCEPT ![Forward[k]] = live[Forward[k]]]
      /\ live' = [live EXCEPT ![Forward[k]] = Absent]
      /\ live[Forward[k]] # Absent
      /\ tx /\ tx' /\ UNCHANGED <<left, placed, prior, good, new>>
  BY DEF IInv, TypeOK, StageInv, BackupInv, Backup, MoveToBackup, Exists
<1>2. PICK j \in Item : /\ j = Forward[k] /\ Position(j) = k
                       /\ \A i \in Item \ {j} : Position(i) \in 1..3 \ {k}
  BY <1>1, ForwardItem
<1>3. \A i \in Item : IF Position(i) < k THEN Saved(i) ELSE Untouched(i)
  BY <1>1 DEF IInv, StageInv, BackupInv
<1>same. \A i \in Item \ {j} : Same(i)
  BY <1>1, <1>2 DEF Same, TypeOK
<1>now. backedUp'[j] /\ backup'[j] = live[j] /\ live'[j] = Absent /\ live[j] # Absent
  BY <1>1, <1>2 DEF TypeOK
<1>4. Saved(j)'
  <2>1. Untouched(j)
    BY <1>1, <1>2, <1>3
  <2> QED BY <1>1, <1>now, <2>1 DEF Untouched, Saved, HasBackup
<1>5. \A i \in Item \ {j} : IF Position(i) < k THEN Saved(i)' ELSE Untouched(i)'
  BY <1>3, <1>same, SameShape
<1>6. \A i \in Item : PriorKept(i)' /\ GoodKept(i)'
  <2>1. \A i \in Item : PriorKept(i) /\ GoodKept(i)
    BY <1>1, KeptSoFar
  <2>2. \A i \in Item \ {j} : PriorKept(i)' /\ GoodKept(i)'
    BY <1>same, <2>1, SameShape
  <2>3. PriorKept(j)'
    BY <1>4 DEF Saved, HasBackup, PriorKept
  <2>4. GoodKept(j)'
    BY <1>1, <2>1 DEF GoodKept
  <2> QED BY <2>2, <2>3, <2>4
<1>7. CASE k < 3 /\ k' = k + 1 /\ stage' = stage
  <2>1. BackupInv'
    BY <1>1, <1>2, <1>4, <1>5, <1>7 DEF BackupInv
  <2> QED BY <1>1, <1>6, <1>7, <2>1, StepWithinRun
<1>8. CASE k = 3 /\ k' = 1 /\ stage' = "place"
  <2>1. PlaceInv'
    BY <1>1, <1>2, <1>4, <1>5, <1>8 DEF PlaceInv
  <2> QED BY <1>6, <1>8, <2>1, StepWithinRun
<1> QED BY <1>1, <1>7, <1>8, AdvanceCases

LEMMA PlaceStepInv ==
  ASSUME IInv, TypeOK', Place
  PROVE  IInv'
<1>1. /\ TypeOK /\ k \in 1..3 /\ stage = "place" /\ Advance("verify")
      /\ placed' = [placed EXCEPT ![Forward[k]] = TRUE]
      /\ live' = [live EXCEPT ![Forward[k]] = new]
      /\ tx /\ tx' /\ UNCHANGED <<backup, left, backedUp, prior, good, new>>
  BY DEF IInv, TypeOK, StageInv, PlaceInv, Place, MoveIn
<1>2. PICK j \in Item : /\ j = Forward[k] /\ Position(j) = k
                       /\ \A i \in Item \ {j} : Position(i) \in 1..3 \ {k}
  BY <1>1, ForwardItem
<1>3. \A i \in Item : IF Position(i) < k THEN Installed(i) ELSE Saved(i)
  BY <1>1 DEF IInv, StageInv, PlaceInv
<1>same. \A i \in Item \ {j} : Same(i)
  BY <1>1, <1>2 DEF Same, TypeOK
<1>4. Installed(j)' /\ Saved(j)
  <2>1. Saved(j)
    BY <1>1, <1>2, <1>3
  <2>2. placed'[j] /\ live'[j] = new
    BY <1>1, <1>2 DEF TypeOK
  <2> QED BY <1>1, <2>1, <2>2 DEF Installed, Saved, HasBackup
<1>5. \A i \in Item \ {j} : IF Position(i) < k THEN Installed(i)' ELSE Saved(i)'
  BY <1>3, <1>same, SameShape
<1>6. \A i \in Item : PriorKept(i)' /\ GoodKept(i)'
  <2>1. \A i \in Item : PriorKept(i) /\ GoodKept(i)
    BY <1>1, KeptSoFar
  <2>2. \A i \in Item \ {j} : PriorKept(i)' /\ GoodKept(i)'
    BY <1>same, <2>1, SameShape
  <2>3. PriorKept(j)'
    BY <1>4 DEF Installed, HasBackup, PriorKept
  <2>4. GoodKept(j)'
    BY <1>1, <2>1 DEF GoodKept
  <2> QED BY <2>2, <2>3, <2>4
<1>7. CASE k < 3 /\ k' = k + 1 /\ stage' = stage
  <2>1. PlaceInv'
    BY <1>1, <1>2, <1>4, <1>5, <1>7 DEF PlaceInv
  <2> QED BY <1>1, <1>6, <1>7, <2>1, StepWithinRun
<1>8. CASE k = 3 /\ k' = 1 /\ stage' = "verify"
  <2>1. VerifyInv'
    BY <1>1, <1>2, <1>4, <1>5, <1>8 DEF VerifyInv
  <2> QED BY <1>6, <1>8, <2>1, StepWithinRun
<1> QED BY <1>1, <1>7, <1>8, AdvanceCases

(* Whatever the transaction was doing, its flags are true of every item.   *)
LEMMA ShapesAreUnrestored ==
  ASSUME NEW i \in Item, Untouched(i) \/ Saved(i) \/ Installed(i)
  PROVE  Unrestored(i)
BY DEF Untouched, Saved, Installed, Unrestored, HasBackup, Settled

LEMMA RaiseInv ==
  ASSUME IInv, TypeOK', Raise \/ (VerifyFails /\ tx)
  PROVE  IInv'
<1>1. /\ stage \in {"backup", "place", "verify"} /\ tx
      /\ stage' = "aside" /\ verdict' \in {"error", "unverified"}
      /\ \A i \in Item : Same(i)
  BY DEF Raise, VerifyFails, Goto, Same, files, flags
<1>2. \A i \in Item : Untouched(i) \/ Saved(i) \/ Installed(i)
  BY <1>1 DEF IInv, StageInv, BackupInv, PlaceInv, VerifyInv
<1>3. \A i \in Item : Unrestored(i)'
  BY <1>1, <1>2, ShapesAreUnrestored, SameShape
<1>4. \A i \in Item : PriorKept(i)' /\ GoodKept(i)'
  BY <1>1, KeptSoFar, SameShape
<1>5. AsideInv' /\ RollbackInv'
  BY <1>1, <1>3 DEF AsideInv, RollbackInv
<1> QED BY <1>1, <1>4, <1>5, StepWithinRun

LEMMA InterruptInv ==
  ASSUME IInv, TypeOK', Interrupt
  PROVE  IInv'
<1>1. /\ TypeOK /\ k \in 1..3 /\ stage' = "aside" /\ verdict' = "error"
      /\ UNCHANGED <<left, backedUp, placed, prior, good, new>>
  BY DEF IInv, TypeOK, Interrupt, MoveToBackup, MoveIn, Goto, flags
<1>2. PICK j \in Item : /\ j = Forward[k] /\ Position(j) = k
                       /\ \A i \in Item \ {j} : Position(i) \in 1..3 \ {k}
  BY <1>1, ForwardItem
<1>3. \/ /\ stage = "backup" /\ live[j] # Absent
         /\ backup' = [backup EXCEPT ![j] = live[j]]
         /\ live' = [live EXCEPT ![j] = Absent]
      \/ /\ stage = "place" /\ backup' = backup
         /\ live' = [live EXCEPT ![j] = new]
  BY <1>2 DEF Interrupt, MoveToBackup, MoveIn, Exists
<1>4. \A i \in Item \ {j} : Same(i)
  BY <1>1, <1>3 DEF Same, TypeOK
<1>5. \A i \in Item : PriorKept(i) /\ GoodKept(i)
  BY <1>3, KeptSoFar
<1>6. \A i \in Item \ {j} : Unrestored(i)'
  <2>1. \A i \in Item : Untouched(i) \/ Saved(i) \/ Installed(i)
    BY <1>3 DEF IInv, StageInv, BackupInv, PlaceInv
  <2> QED BY <1>4, <2>1, ShapesAreUnrestored, SameShape
<1>7. Unrestored(j)' /\ PriorKept(j)'
  <2>1. CASE stage = "backup"
    <3>1. Untouched(j)
      BY <1>1, <1>2, <2>1 DEF IInv, StageInv, BackupInv
    <3>2. live'[j] = Absent /\ backup'[j] = live[j]
      BY <1>1, <1>3, <2>1 DEF TypeOK
    <3> QED BY <1>1, <3>1, <3>2 DEF Untouched, Unrestored, Settled, PriorKept
  <2>2. CASE stage = "place"
    <3>1. Saved(j)
      BY <1>1, <1>2, <2>2 DEF IInv, StageInv, PlaceInv
    <3>2. backup'[j] = backup[j]
      BY <1>3, <2>2
    <3> QED BY <1>1, <3>1, <3>2 DEF Saved, HasBackup, Unrestored, Settled, PriorKept
  <2> QED BY <1>3, <2>1, <2>2
<1>8. \A i \in Item : PriorKept(i)' /\ GoodKept(i)'
  <2>1. \A i \in Item \ {j} : PriorKept(i)' /\ GoodKept(i)'
    BY <1>4, <1>5, SameShape
  <2>2. GoodKept(j)'
    BY <1>1, <1>5 DEF GoodKept
  <2> QED BY <1>7, <2>1, <2>2
<1>9. AsideInv' /\ RollbackInv'
  BY <1>1, <1>6, <1>7 DEF AsideInv, RollbackInv
<1> QED BY <1>1, <1>8, <1>9, StepWithinRun

LEMMA SetAsideInv ==
  ASSUME IInv, TypeOK', SetAside
  PROVE  IInv'
<1>1. /\ TypeOK /\ k \in 1..3 /\ stage = "aside" /\ Advance("restore")
      /\ UNCHANGED <<backup, left, backedUp, placed, prior, good, new, verdict>>
      /\ verdict \in {"error", "unverified"}
      /\ \A i \in Item : Unrestored(i)
  BY DEF IInv, TypeOK, StageInv, AsideInv, RollbackInv, SetAside, MoveAside, files, flags
<1>2. PICK j \in Item : /\ j = Backward[k] /\ 4 - Position(j) = k /\ Position(j) \in 1..3
                       /\ \A i \in Item \ {j} : /\ Position(i) \in 1..3
                                               /\ 4 - Position(i) # k
  BY <1>1, BackwardItem
<1>3. live' = live \/ (placed[j] /\ live' = [live EXCEPT ![j] = Absent])
  BY <1>2 DEF SetAside, MoveAside, files
<1>4. \A i \in Item : PriorKept(i) /\ GoodKept(i)
  BY <1>1, KeptSoFar
<1>5. \A i \in Item : Unrestored(i)' /\ PriorKept(i)' /\ GoodKept(i)'
  <2>1. CASE live' = live
    <3>1. \A i \in Item : Same(i)
      BY <1>1, <2>1 DEF Same
    <3> QED BY <1>1, <1>4, <3>1, SameShape
  <2>2. CASE placed[j] /\ live' = [live EXCEPT ![j] = Absent]
    <3>1. \A i \in Item \ {j} : Same(i)
      BY <1>1, <2>2 DEF Same, TypeOK
    <3>2. live'[j] = Absent
      BY <1>1, <2>2 DEF TypeOK
    <3>3. HasBackup(j)
      BY <1>1, <2>2 DEF Unrestored
    <3>4. Unrestored(j)' /\ PriorKept(j)' /\ GoodKept(j)'
      BY <1>1, <1>4, <3>2, <3>3 DEF HasBackup, Unrestored, Settled, PriorKept, GoodKept
    <3> QED BY <1>1, <1>4, <3>1, <3>4, SameShape
  <2> QED BY <1>3, <2>1, <2>2
<1>6. CASE k < 3 /\ k' = k + 1 /\ stage' = stage
  <2>1. AsideInv' /\ RollbackInv'
    BY <1>1, <1>5 DEF AsideInv, RollbackInv
  <2> QED BY <1>1, <1>5, <1>6, <2>1, StepWithinRun
<1>7. CASE k = 3 /\ k' = 1 /\ stage' = "restore"
  <2>1. \A i \in Item : ~(4 - Position(i) < 1)
    BY <1>2
  <2>2. RestoreInv' /\ RollbackInv'
    BY <1>1, <1>5, <1>7, <2>1 DEF RestoreInv, RollbackInv
  <2> QED BY <1>5, <1>7, <2>2, StepWithinRun
<1> QED BY <1>1, <1>6, <1>7, AdvanceCases

LEMMA RestoreStepInv ==
  ASSUME IInv, TypeOK', Restore
  PROVE  IInv'
<1>1. /\ TypeOK /\ k \in 1..3 /\ stage = "restore" /\ Advance("check")
      /\ UNCHANGED <<left, backedUp, placed, prior, good, new, verdict>>
      /\ verdict \in {"error", "unverified"}
      /\ \A i \in Item : IF 4 - Position(i) < k THEN Settled(i) ELSE Unrestored(i)
  BY DEF IInv, TypeOK, StageInv, RestoreInv, RollbackInv, Restore, MoveBack, files, flags
<1>2. PICK j \in Item : /\ j = Backward[k] /\ 4 - Position(j) = k /\ Position(j) \in 1..3
                       /\ \A i \in Item \ {j} : /\ Position(i) \in 1..3
                                               /\ 4 - Position(i) # k
  BY <1>1, BackwardItem
<1>3. \/ ~backedUp[j] /\ live' = live /\ backup' = backup
      \/ /\ backedUp[j]
         /\ live' = [live EXCEPT ![j] = backup[j]]
         /\ backup' = [backup EXCEPT ![j] = Absent]
  BY <1>2 DEF Restore, MoveBack, files
<1>4. \A i \in Item : PriorKept(i) /\ GoodKept(i)
  BY <1>1, KeptSoFar
<1>5. \A i \in Item \ {j} : Same(i)
  BY <1>1, <1>3 DEF Same, TypeOK
<1>6. Settled(j)' /\ PriorKept(j)' /\ GoodKept(j)'
  <2>1. Unrestored(j)
    BY <1>1, <1>2
  <2>2. CASE ~backedUp[j]
    BY <1>1, <1>3, <1>4, <2>1, <2>2 DEF Unrestored, Settled, PriorKept, GoodKept
  <2>3. CASE backedUp[j]
    <3>1. live'[j] = prior[j]
      BY <1>1, <1>3, <2>1, <2>3 DEF Unrestored, TypeOK
    <3> QED BY <1>1, <1>4, <3>1 DEF Settled, PriorKept, GoodKept
  <2> QED BY <2>2, <2>3
<1>7. \A i \in Item \ {j} : IF 4 - Position(i) < k THEN Settled(i)' ELSE Unrestored(i)'
  BY <1>1, <1>5, SameShape
<1>8. \A i \in Item : PriorKept(i)' /\ GoodKept(i)'
  BY <1>4, <1>5, <1>6, SameShape
<1>9. CASE k < 3 /\ k' = k + 1 /\ stage' = stage
  <2>1. RestoreInv'
    BY <1>1, <1>2, <1>6, <1>7, <1>9 DEF RestoreInv
  <2>2. RollbackInv'
    BY <1>1 DEF RollbackInv
  <2> QED BY <1>1, <1>8, <1>9, <2>1, <2>2, StepWithinRun
<1>10. CASE k = 3 /\ k' = 1 /\ stage' = "check"
  <2>1. \A i \in Item : Settled(i)'
    BY <1>1, <1>2, <1>6, <1>7, <1>10
  <2>2. CheckInv' /\ RollbackInv'
    BY <1>1, <2>1 DEF CheckInv, RollbackInv
  <2> QED BY <1>8, <1>10, <2>2, StepWithinRun
<1> QED BY <1>1, <1>9, <1>10, AdvanceCases

(* The existence check is enough: a settled item that exists exactly when  *)
(* it did before the run is the item from before the run.                  *)
LEMMA SettledIsRestored ==
  ASSUME TypeOK, Restored, \A i \in Item : Settled(i)
  PROVE  live = prior
<1>1. \A i \in Item : live[i] = prior[i]
  BY DEF Restored, Settled
<1> QED BY <1>1 DEF TypeOK

LEMMA CheckRestoredInv ==
  ASSUME IInv, TypeOK', CheckRestored
  PROVE  IInv'
<1>1. /\ TypeOK /\ stage = "check" /\ Restored /\ stage' = "clean"
      /\ UNCHANGED <<live, backup, left, prior, good, verdict>>
      /\ verdict # "ok" /\ \A i \in Item : Settled(i)
  BY DEF IInv, StageInv, CheckInv, RollbackInv, CheckRestored, Goto, files
<1>2. live' = prior'
  BY <1>1, SettledIsRestored
<1>3. \A i \in Item : GoodKept(i)'
  BY <1>1, KeptSoFar DEF GoodKept
<1>4. LastGoodRecoverable'
  BY <1>2, <1>3 DEF LastGoodRecoverable, GoodKept
<1>5. RunEndsInOrder' /\ KeptInv'
  BY <1>1, <1>2, <1>3 DEF RunEndsInOrder, KeptInv
<1>6. StageInv'
  BY <1>1 DEF StageInv, IdleInv, BackupInv, PlaceInv, VerifyInv, AsideInv, RestoreInv,
              CheckInv, RollbackInv
<1> QED BY <1>4, <1>5, <1>6 DEF IInv

(* finalize only deletes what nobody needs any more. *)
LEMMA CleanInv ==
  ASSUME IInv, TypeOK', CleanFailed \/ CleanBackup
  PROVE  IInv'
<1>1. /\ TypeOK /\ stage = "clean" /\ stage' \in {"clean", "finished"}
      /\ UNCHANGED <<live, left, new, prior, good, verdict>>
  BY DEF IInv, CleanFailed, CleanBackup, Advance, Goto
<1>2. /\ verdict = "ok"  => good' = live' /\ live' = All(new)'
      /\ verdict # "ok" => live' = prior' /\ \A i \in Item : GoodKept(i)'
  BY <1>1 DEF IInv, RunEndsInOrder, KeptInv, GoodKept, All
<1>3. LastGoodRecoverable'
  BY <1>1, <1>2 DEF LastGoodRecoverable, GoodKept
<1>4. RunEndsInOrder' /\ KeptInv'
  BY <1>1, <1>2 DEF RunEndsInOrder, KeptInv
<1>5. StageInv'
  BY <1>1 DEF StageInv, IdleInv, BackupInv, PlaceInv, VerifyInv, AsideInv, RestoreInv,
              CheckInv, RollbackInv
<1> QED BY <1>3, <1>4, <1>5 DEF IInv

LEMMA VerifyPassesInv ==
  ASSUME IInv, TypeOK', VerifyPasses
  PROVE  IInv'
<1>1. TypeOK /\ LastGoodRecoverable /\ stage = "verify" /\ good' = live /\ live = All(new)
  BY DEF IInv, VerifyPasses, Usable
<1>2. CASE tx
  <2>1. stage' = "clean" /\ verdict' = "ok" /\ UNCHANGED <<live, new>>
    BY <1>2 DEF VerifyPasses, Goto, files
  <2>2. LastGoodRecoverable'
    BY <1>1, <2>1 DEF LastGoodRecoverable
  <2>3. RunEndsInOrder' /\ KeptInv'
    BY <1>1, <2>1 DEF RunEndsInOrder, KeptInv, All
  <2>4. StageInv'
    BY <2>1 DEF StageInv, IdleInv, BackupInv, PlaceInv, VerifyInv, AsideInv, RestoreInv,
                CheckInv, RollbackInv
  <2> QED BY <2>2, <2>3, <2>4 DEF IInv
<1>3. CASE ~tx
  <2>1. Exit("ok")
    BY <1>3 DEF VerifyPasses
  <2> QED BY <1>1, <2>1, ExitInv DEF IInv, Verdict
<1> QED BY <1>2, <1>3

(* The ways the process ends, but for success: an installation that was    *)
(* current is what the run found, a run that finished is in order, and the *)
(* rest promises nothing.                                                  *)
LEMMA EndInv ==
  ASSUME IInv, TypeOK',
         \/ VerifyFails /\ ~tx
         \/ VerifyRaises \/ RollbackFails \/ CleanFails \/ Finish \/ Crash
  PROVE  IInv'
<1>1. TypeOK /\ LastGoodRecoverable
  BY DEF IInv
<1>2. CASE (VerifyFails /\ ~tx) \/ VerifyRaises
  <2>1. /\ Exit("unverified") \/ Exit("error")
        /\ good' = good /\ stage = "verify" /\ ~tx
    BY <1>2 DEF VerifyFails, VerifyRaises
  <2>2. \A i \in Item : live[i] = prior[i]
    BY <2>1 DEF IInv, StageInv, VerifyInv, Untouched
  <2>3. live = prior
    BY <1>1, <2>2 DEF TypeOK
  <2> QED BY <1>1, <2>1, <2>3, ExitInv DEF IInv, Verdict
<1>3. CASE RollbackFails
  BY <1>1, <1>3, ExitInv DEF IInv, Verdict, RollbackFails
<1>4. CASE CleanFails
  BY <1>1, <1>4, ExitInv DEF IInv, Verdict, CleanFails
<1>5. CASE Crash
  BY <1>1, <1>5, ExitInv DEF IInv, Verdict, Crash
<1>6. CASE Finish
  <2>1. stage = "finished" /\ Exit(verdict) /\ good' = good /\ verdict \in Verdict
    BY <1>1, <1>6 DEF Finish, TypeOK
  <2>2. /\ verdict = "ok" => live = All(new)
        /\ verdict # "ok" => live = prior
    BY <2>1 DEF IInv, RunEndsInOrder
  <2> QED BY <1>1, <2>1, <2>2, ExitInv DEF IInv
<1> QED BY <1>2, <1>3, <1>4, <1>5, <1>6

(* SketchUp only reads what is installed. *)
LEMMA ElsewhereInv ==
  ASSUME IInv, TypeOK', OpenHost \/ CloseHost \/ UNCHANGED vars
  PROVE  IInv'
<1>1. UNCHANGED <<files, stage, k, new, tx, flags, prior, good, verdict>>
  BY DEF OpenHost, CloseHost, vars
<1>2. \A i \in Item : Same(i)
  BY <1>1 DEF Same, files, flags
<1>3. LastGoodRecoverable' /\ RunEndsInOrder'
  BY <1>1 DEF IInv, LastGoodRecoverable, RunEndsInOrder, files, All
<1>4. KeptInv'
  BY <1>1, <1>2, SameShape DEF IInv, KeptInv, files
<1>5. StageInv'
  BY <1>1, <1>2, SameShape
     DEF IInv, StageInv, IdleInv, BackupInv, PlaceInv, VerifyInv, AsideInv, RestoreInv,
         CheckInv, RollbackInv, files
<1> QED BY <1>3, <1>4, <1>5 DEF IInv

LEMMA Inductive == IInv /\ [Next]_vars => IInv'
<1> SUFFICES ASSUME IInv, [Next]_vars PROVE IInv'
  OBVIOUS
<1>1. TypeOK'
  BY TypeStep DEF IInv
<1>2. CASE \E v \in Version : Begin(v)
  BY <1>1, <1>2, BeginInv
<1>3. CASE SkipBackup \/ Backup \/ Place
  BY <1>1, <1>3, SkipBackupInv, BackupStepInv, PlaceStepInv
<1>4. CASE Raise \/ Interrupt
  BY <1>1, <1>4, RaiseInv, InterruptInv
<1>5. CASE VerifyPasses
  BY <1>1, <1>5, VerifyPassesInv
<1>6. CASE VerifyFails
  BY <1>1, <1>6, RaiseInv, EndInv
<1>7. CASE SetAside \/ Restore \/ CheckRestored
  BY <1>1, <1>7, SetAsideInv, RestoreStepInv, CheckRestoredInv
<1>8. CASE CleanFailed \/ CleanBackup
  BY <1>1, <1>8, CleanInv
<1>9. CASE VerifyRaises \/ RollbackFails \/ CleanFails \/ Finish \/ Crash
  BY <1>1, <1>9, EndInv
<1>10. CASE OpenHost \/ CloseHost \/ UNCHANGED vars
  BY <1>1, <1>10, ElsewhereInv
<1> QED
  BY <1>2, <1>3, <1>4, <1>5, <1>6, <1>7, <1>8, <1>9, <1>10 DEF Next, Installer

THEOREM Invariance == Spec => []IInv
<1> QED BY InvInit, Inductive, PTL DEF Spec

(* No sequence of failures, interrupts and crashes, over any number of     *)
(* installer runs, loses a file of the last installation that verified.    *)
THEOREM InstallationIsRecoverable == Spec => []LastGoodRecoverable
<1>1. IInv => LastGoodRecoverable
  BY DEF IInv
<1> QED BY <1>1, Invariance, PTL

(* A run that reports success left the new version complete; a run that    *)
(* reports an error after rollback left exactly what it found.             *)
THEOREM ReportedOutcomeIsTrue == Spec => []RunEndsInOrder
<1>1. IInv => RunEndsInOrder
  BY DEF IInv
<1> QED BY <1>1, Invariance, PTL

(* When verification decides, the whole prior state is in the backup.      *)
THEOREM BackupIsComplete == Spec => []BackupCompleteAtVerify
<1>1. IInv => BackupCompleteAtVerify
  <2> SUFFICES ASSUME IInv, stage = "verify", tx
               PROVE  backup = prior /\ live = All(new)
    BY DEF BackupCompleteAtVerify
  <2>1. \A i \in Item : backup[i] = prior[i] /\ live[i] = new
    BY DEF IInv, StageInv, VerifyInv, Installed, HasBackup
  <2> QED BY <2>1 DEF IInv, TypeOK, All
<1> QED BY <1>1, Invariance, PTL

-----------------------------------------------------------------------------
(* The transaction implements ProfileChange.  RunEndsInOrder is what makes *)
(* its last step the right one; two more facts are needed: while a run is  *)
(* at work no path holds a third content, and what is cleaned up has been  *)
(* decided.                                                                *)
WorkInv == AtWork => \A i \in Item : live[i] \in {prior[i], new, Absent}

DecidedInv == stage \in {"clean", "finished"} => verdict \in {"ok", "error", "unverified"}

PromiseInv == IInv /\ WorkInv /\ DecidedInv

(* What a run found and what it installs is settled at its beginning. *)
LEMMA GoalStays ==
  ASSUME [Next]_vars, ~ \E v \in Version : Begin(v)
  PROVE  UNCHANGED <<prior, new>>
BY DEF Next, Installer, SkipBackup, Backup, Place, Raise, Interrupt, VerifyPasses,
       VerifyFails, VerifyRaises, SetAside, Restore, CheckRestored, RollbackFails,
       CleanFailed, CleanBackup, CleanFails, Finish, Crash, OpenHost, CloseHost, Exit, vars

(* Only Begin sets a run to work. *)
LEMMA WorkBegins ==
  ASSUME [Next]_vars, ~AtWork, AtWork'
  PROVE  \E v \in Version : Begin(v)
BY DEF Next, Installer, SkipBackup, Backup, Place, Raise, Interrupt, VerifyPasses,
       VerifyFails, VerifyRaises, SetAside, Restore, CheckRestored, RollbackFails,
       CleanFailed, CleanBackup, CleanFails, Finish, Crash, OpenHost, CloseHost, Exit,
       vars, Goto, Advance, AtWork

(* The step that ends the work says how, and moves nothing. *)
LEMMA WorkEnds ==
  ASSUME IInv, [Next]_vars, AtWork, ~AtWork'
  PROVE  /\ UNCHANGED live
         /\ \/ stage' = "idle"  /\ verdict' \in Verdict \ {"none", "unclean"}
            \/ stage' = "clean" /\ verdict' \in {"ok", "error", "unverified"}
<1>1. CASE SkipBackup \/ Backup \/ Place \/ Raise \/ Interrupt \/ SetAside \/ Restore
  BY <1>1 DEF SkipBackup, Backup, Place, Raise, Interrupt, SetAside, Restore, Advance, Goto,
              AtWork
<1>2. CASE VerifyPasses \/ VerifyFails \/ VerifyRaises \/ RollbackFails \/ Crash
  BY <1>2 DEF VerifyPasses, VerifyFails, VerifyRaises, RollbackFails, Crash, Exit, Goto,
              files, Verdict, AtWork
<1>3. CASE CheckRestored
  BY <1>3 DEF CheckRestored, Goto, files, IInv, StageInv, RollbackInv
<1>4. CASE CleanFailed \/ CleanBackup \/ CleanFails \/ Finish
  BY <1>4 DEF CleanFailed, CleanBackup, CleanFails, Finish, AtWork
<1>5. CASE OpenHost \/ CloseHost \/ UNCHANGED vars
  BY <1>5 DEF OpenHost, CloseHost, vars, AtWork
<1>6. CASE \E v \in Version : Begin(v)
  BY <1>6 DEF Begin, AtWork
<1> QED BY <1>1, <1>2, <1>3, <1>4, <1>5, <1>6 DEF Next, Installer

(* Between two runs, and while one cleans up, the paths are left alone and *)
(* only a failure or a kill takes back what was decided.                   *)
LEMMA CleaningMovesNothing ==
  ASSUME [Next]_vars, ~AtWork, ~AtWork'
  PROVE  /\ UNCHANGED live
         /\ \/ UNCHANGED verdict
            \/ stage \in {"clean", "finished"} /\ verdict' \in {"unclean", "crashed"}
<1>1. ~ \E v \in Version : Begin(v)
  BY DEF Begin, Goto, AtWork
<1> QED
  BY <1>1 DEF Next, Installer, SkipBackup, Backup, Place, Raise, Interrupt, VerifyPasses,
              VerifyFails, VerifyRaises, SetAside, Restore, CheckRestored, RollbackFails,
              CleanFailed, CleanBackup, CleanFails, Finish, Crash, OpenHost, CloseHost,
              Exit, vars, Goto, AtWork, files

(* What a step on the way to or through rollback leaves at a path. *)
LEMMA RollbackMoves ==
  ASSUME IInv, [Next]_vars, stage' \in {"aside", "restore", "check"}
  PROVE  AtWork /\ \A i \in Item : live'[i] \in {live[i], prior[i], new, Absent}
<1>1. TypeOK
  BY DEF IInv
<1>2. CASE Raise \/ VerifyFails \/ OpenHost \/ CloseHost \/ UNCHANGED vars
  BY <1>2 DEF Raise, VerifyFails, OpenHost, CloseHost, vars, files, AtWork, Exit, Goto
<1>3. CASE Interrupt
  <2>1. k \in 1..3 /\ live \in [Item -> Content]
    BY <1>1 DEF TypeOK
  <2>2. PICK j \in Item : j = Forward[k]
    BY <2>1, Visits
  <2>3. live' = [live EXCEPT ![j] = Absent] \/ live' = [live EXCEPT ![j] = new]
    BY <1>3, <2>2 DEF Interrupt, MoveToBackup, MoveIn
  <2> QED BY <1>3, <2>1, <2>3 DEF Interrupt, AtWork
<1>4. CASE SetAside
  <2>1. k \in 1..3 /\ live \in [Item -> Content]
    BY <1>1 DEF TypeOK
  <2>2. PICK j \in Item : j = Backward[k]
    BY <2>1, Visits
  <2>3. live' = [live EXCEPT ![j] = Absent] \/ live' = live
    BY <1>4, <2>2 DEF SetAside, MoveAside, files
  <2> QED BY <1>4, <2>1, <2>3 DEF SetAside, AtWork
<1>5. CASE Restore
  <2>1. k \in 1..3 /\ live \in [Item -> Content] /\ stage = "restore"
    BY <1>1, <1>5 DEF TypeOK, Restore
  <2>2. PICK j \in Item : j = Backward[k] /\ 4 - Position(j) = k
    BY <2>1, BackwardItem
  <2>3. Unrestored(j)
    BY <2>1, <2>2 DEF IInv, StageInv, RestoreInv
  <2>4. live' = [live EXCEPT ![j] = prior[j]] \/ live' = live
    BY <1>5, <2>2, <2>3 DEF Restore, MoveBack, files, Unrestored
  <2> QED BY <2>1, <2>4 DEF AtWork
<1>6. CASE SkipBackup \/ Backup \/ Place
  BY <1>6 DEF SkipBackup, Backup, Place, Advance, Goto
<1>7. CASE CheckRestored \/ VerifyPasses \/ VerifyRaises \/ RollbackFails \/ Crash
  BY <1>7 DEF CheckRestored, VerifyPasses, VerifyRaises, RollbackFails, Crash, Exit, Goto
<1>8. CASE CleanFailed \/ CleanBackup \/ CleanFails \/ Finish
  BY <1>8 DEF CleanFailed, CleanBackup, CleanFails, Finish, Exit, Goto, Advance
<1>9. CASE \E v \in Version : Begin(v)
  BY <1>9 DEF Begin, Goto
<1> QED BY <1>2, <1>3, <1>4, <1>5, <1>6, <1>7, <1>8, <1>9 DEF Next, Installer

LEMMA WorkStep ==
  ASSUME IInv, WorkInv, [Next]_vars, IInv'
  PROVE  WorkInv'
<1>1. CASE stage' \in {"aside", "restore", "check"}
  <2>1. AtWork /\ \A i \in Item : live'[i] \in {live[i], prior[i], new, Absent}
    BY <1>1, RollbackMoves
  <2>2. UNCHANGED <<prior, new>>
    BY <2>1, GoalStays DEF Begin, AtWork
  <2> QED BY <2>1, <2>2 DEF WorkInv
<1>2. CASE stage' \in {"backup", "place", "verify"}
  <2>1. \A i \in Item : (live[i] \in {prior[i], new, Absent})'
    BY <1>2 DEF IInv, StageInv, BackupInv, PlaceInv, VerifyInv, Untouched, Saved, Installed
  <2> QED BY <2>1 DEF WorkInv
<1>3. CASE stage' \in {"idle", "clean", "finished"}
  BY <1>3 DEF WorkInv, AtWork
<1>4. stage' \in Stage
  BY DEF IInv, TypeOK
<1> QED BY <1>1, <1>2, <1>3, <1>4 DEF Stage

LEMMA DecidedStep ==
  ASSUME IInv, DecidedInv, [Next]_vars, IInv'
  PROVE  DecidedInv'
<1>1. stage' \in Stage
  BY DEF IInv, TypeOK
<1>2. ASSUME stage' \in {"clean", "finished"}
      PROVE  verdict' \in {"ok", "error", "unverified"}
  <2>0. ~AtWork'
    BY <1>2 DEF AtWork
  <2>1. CASE AtWork
    BY <1>2, <2>0, <2>1, WorkEnds
  <2>2. CASE ~AtWork
    <3>1. ~ \E v \in Version : Begin(v)
      BY <1>2 DEF Begin, Goto
    <3>2. stage \in {"clean", "finished"} /\ UNCHANGED verdict
      BY <1>2, <2>2, <3>1
         DEF Next, Installer, SkipBackup, Backup, Place, Raise, Interrupt, VerifyPasses,
             VerifyFails, VerifyRaises, SetAside, Restore, CheckRestored, RollbackFails,
             CleanFailed, CleanBackup, CleanFails, Finish, Crash, OpenHost, CloseHost,
             Exit, vars, Goto, Advance, AtWork
    <3> QED BY <3>2 DEF DecidedInv
  <2> QED BY <2>1, <2>2
<1> QED BY <1>1, <1>2 DEF DecidedInv, AtWork, Stage

LEMMA PromiseInvHolds == Spec => []PromiseInv
<1>1. Init => PromiseInv
  BY InvInit DEF PromiseInv, WorkInv, DecidedInv, AtWork, Init
<1>2. PromiseInv /\ [Next]_vars => PromiseInv'
  BY Inductive, WorkStep, DecidedStep DEF PromiseInv
<1> QED BY <1>1, <1>2, PTL DEF Spec

(* A change in progress is told from none. *)
LEMMA Pairs ==
  ASSUME NEW a, NEW b
  PROVE  <<a, b>> # <<>> /\ <<a, b>>[1] = a /\ <<a, b>>[2] = b
OBVIOUS

LEMMA PromiseInit == Init => Promise!Init
BY DEF Init, Promise!Init, Promise!NoChange, Change, Ending, AtWork

LEMMA PromiseStep ==
  ASSUME PromiseInv, [Next]_vars, PromiseInv'
  PROVE  [Promise!Next]_(Promise!vars)
<1> USE DEF Promise!NoChange
<1>0. IInv /\ TypeOK' /\ RunEndsInOrder'
  BY DEF PromiseInv, IInv
<1>1. CASE AtWork /\ AtWork'
  <2>1. UNCHANGED <<prior, new>>
    BY <1>1, GoalStays DEF Begin, AtWork
  <2>2. Change = <<prior, All(new)>> /\ Change' = Change /\ Ending' = Ending /\ Change # <<>>
    BY <1>1, <2>1, Pairs DEF Change, Ending, All
  <2>3. \A i \in Item : live'[i] \in {Change[1][i], Change[2][i]} \cup {Absent}
    BY <1>1, <2>1, <2>2, Pairs DEF PromiseInv, WorkInv, All
  <2>4. Promise!Moves
    BY <1>0, <2>3 DEF Promise!Moves, TypeOK
  <2> QED BY <2>2, <2>4 DEF Promise!Next, Promise!Work
<1>2. CASE ~AtWork /\ AtWork'
  <2>1. PICK v \in Version : Begin(v)
    BY <1>2, WorkBegins
  <2>2. live' = live /\ prior' = live /\ new' = v
    BY <2>1 DEF Begin, files
  <2>3. Change = <<>> /\ Ending' = "none" /\ Change' = <<live, All(v)>>
    BY <1>2, <2>2 DEF Change, Ending, All
  <2> QED BY <2>2, <2>3 DEF Promise!Next, Promise!Begin
<1>3. CASE AtWork /\ ~AtWork'
  <2>1. UNCHANGED <<prior, new, live>>
    BY <1>0, <1>3, GoalStays, WorkEnds DEF Begin, AtWork
  <2>2. Change = <<prior, All(new)>> /\ Change' = <<>> /\ Change # <<>>
    BY <1>3, Pairs DEF Change
  <2>3. Change[1] = prior /\ Change[2] = All(new)
    BY <2>2, Pairs
  <2>4. \/ stage' = "idle"  /\ verdict' \in Verdict \ {"none", "unclean"}
        \/ stage' = "clean" /\ verdict' \in {"ok", "error", "unverified"}
    BY <1>0, <1>3, WorkEnds
  <2>5. CASE verdict' = "ok"
    <3>1. Ending' = "done" /\ live' = All(new)
      BY <1>0, <1>3, <2>1, <2>4, <2>5 DEF Ending, RunEndsInOrder, All
    <3> QED BY <2>2, <2>3, <3>1 DEF Promise!Next, Promise!End
  <2>6. CASE verdict' \in {"error", "unverified"}
    <3>1. Ending' = "undone" /\ live' = prior
      BY <1>0, <1>3, <2>1, <2>4, <2>6 DEF Ending, RunEndsInOrder
    <3> QED BY <2>2, <2>3, <3>1 DEF Promise!Next, Promise!End
  <2>7. CASE verdict' \in {"not_restored", "crashed"}
    <3>1. Ending' = "stopped"
      BY <1>3, <2>7 DEF Ending
    <3>2. \A i \in Item : live'[i] \in {Change[1][i], Change[2][i]} \cup {Absent}
      BY <1>3, <2>1, <2>3 DEF PromiseInv, WorkInv, All
    <3>3. Promise!Moves
      BY <1>0, <3>2 DEF Promise!Moves, TypeOK
    <3> QED BY <2>2, <3>1, <3>3 DEF Promise!Next, Promise!End
  <2> QED BY <2>4, <2>5, <2>6, <2>7 DEF Verdict
<1>4. CASE ~AtWork /\ ~AtWork'
  <2>1. Change = <<>> /\ Change' = <<>> /\ UNCHANGED live
    BY <1>4, CleaningMovesNothing DEF Change
  <2>2. CASE UNCHANGED verdict
    BY <1>4, <2>1, <2>2 DEF Ending, Promise!vars
  <2>3. CASE stage \in {"clean", "finished"} /\ verdict' \in {"unclean", "crashed"}
    <3>1. Ending \in {"done", "undone"} /\ Ending' = "stopped"
      BY <1>4, <2>3 DEF Ending, PromiseInv, DecidedInv
    <3> QED BY <2>1, <3>1 DEF Promise!Next, Promise!StopLate
  <2> QED BY <1>4, <2>2, <2>3, CleaningMovesNothing
<1> QED BY <1>1, <1>2, <1>3, <1>4

(* For any versions and any number of runs, an installation is a change of *)
(* the profile that is done, undone or known to have stopped.              *)
THEOREM RunIsAChange == Spec => ImplementsProfileChange
<1>1. Init => Promise!Init
  BY PromiseInit
<1>2. PromiseInv /\ [Next]_vars /\ PromiseInv' => [Promise!Next]_(Promise!vars)
  BY PromiseStep
<1> QED BY <1>1, <1>2, PromiseInvHolds, PTL DEF Spec, ImplementsProfileChange, Promise!Spec

=============================================================================
