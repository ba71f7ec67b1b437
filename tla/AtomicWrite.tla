---------------------------- MODULE AtomicWrite ----------------------------
(***************************************************************************)
(* What a mutating command promises of the SketchUp model, as an observer  *)
(* of the undo stack sees it.  A command inside an undo operation changes  *)
(* the model in one step or not at all; one that is reported as failed     *)
(* before that step never changes it, unless the operation cannot be       *)
(* aborted and is stuck.  A command outside an operation promises nothing  *)
(* while it runs.                                                          *)
(***************************************************************************)
CONSTANT Model   \* the contents a command's target can have

VARIABLES
  model,    \* what the undo stack holds as the current content
  status    \* how far the command is, or how it ended

Init == model \in Model /\ status \in {"busy", "in_place"}

Change == status = "busy" /\ status' = "changed" /\ model' \in Model

Fail == status = "busy" /\ status' = "failed" /\ UNCHANGED model

(* The edits made so far stay in an operation that nobody closes. *)
GetStuck == status = "busy" /\ status' = "stuck" /\ model' \in Model

(* A committed change can still be reported as a failure. *)
Report == status = "changed" /\ status' \in {"ok", "unreported"} /\ UNCHANGED model

EditInPlace == status = "in_place" /\ model' \in Model /\ UNCHANGED status

EndInPlace == status = "in_place" /\ status' \in {"ok", "failed"} /\ UNCHANGED model

Next == Change \/ Fail \/ GetStuck \/ Report \/ EditInPlace \/ EndInPlace

Spec == Init /\ [][Next]_<<model, status>>
=============================================================================
