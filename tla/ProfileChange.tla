--------------------------- MODULE ProfileChange ---------------------------
(***************************************************************************)
(* What install, upgrade and uninstall promise of the installed paths of a *)
(* SketchUp profile.  A run either does nothing or changes the profile     *)
(* from what it found to one of its goals; it says "done" only when it got *)
(* there and "undone" only when it is back, file by file, at what it       *)
(* found, and from then on touches no path.  While it is at work, and when *)
(* it is stopped in the middle, a path holds the old content, the new one, *)
(* or one of the contents an unfinished operation leaves.                  *)
(***************************************************************************)
CONSTANTS
  File,       \* the installed paths
  Contents,   \* what can be at one
  Goals,      \* the profiles a run may be asked for
  Unfinished  \* what is at a path in the middle of an operation

VARIABLES
  profile,    \* what is at each path
  change,     \* the change under way: what it started from and its goal
  last        \* how the last run ended

vars == <<profile, change, last>>

NoChange == <<>>

Init ==
  /\ profile \in [File -> Contents]
  /\ change = NoChange /\ last = "none"

Begin ==
  /\ change = NoChange
  /\ \E goal \in Goals : change' = <<profile, goal>>
  /\ last' = "none" /\ UNCHANGED profile

(* A run that has nothing to do, or may not do it. *)
EndAtOnce ==
  /\ change = NoChange /\ UNCHANGED <<profile, change>>
  /\ \/ last' = "done" /\ profile \in Goals
     \/ last' = "undone"

(* No path holds anything else while a run is at work. *)
Moves ==
  /\ profile' \in [File -> Contents]
  /\ \A f \in File : profile'[f] \in {change[1][f], change[2][f]} \cup Unfinished

Work == change # NoChange /\ Moves /\ UNCHANGED <<change, last>>

(* The last operation may be the one that decides. *)
End ==
  /\ change # NoChange /\ change' = NoChange
  /\ \/ last' = "done"    /\ profile' = change[2]
     \/ last' = "undone"  /\ profile' = change[1]
     \/ last' = "stopped" /\ Moves

(* Killed, or failed, while it cleans up after itself. *)
StopLate ==
  /\ change = NoChange /\ last \in {"done", "undone"}
  /\ last' = "stopped" /\ UNCHANGED <<profile, change>>

Next == Begin \/ EndAtOnce \/ Work \/ End \/ StopLate

Spec == Init /\ [][Next]_vars
=============================================================================
