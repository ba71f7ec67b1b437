---------------------------- MODULE CommandCalls ----------------------------
(***************************************************************************)
(* What a call of SketchupBridge.call promises to its caller, told from    *)
(* the host's command and what the caller can learn of it: that it was     *)
(* run, that it was refused, that it is over one way or the other, or      *)
(* nothing.                                                                *)
(***************************************************************************)
EXTENDS Naturals

CONSTANT Call

VARIABLES
  runs,   \* how often the host started the call's command
  told    \* what the caller learned

vars == <<runs, told>>

Init == runs = [c \in Call |-> 0] /\ told = [c \in Call |-> "none"]

(* A caller that learned nothing has to expect that it still runs. *)
Run(c) ==
  /\ runs[c] = 0 /\ told[c] \in {"none", "unknown"}
  /\ runs' = [runs EXCEPT ![c] = 1]
  /\ UNCHANGED told

Tell(c, outcome) ==
  /\ told[c] = "none"
  /\ outcome = "run" => runs[c] = 1
  /\ outcome = "refused" => runs[c] = 0
  /\ told' = [told EXCEPT ![c] = outcome]
  /\ UNCHANGED runs

Outcome == {"run", "refused", "over", "unknown"}
Next == \E c \in Call : Run(c) \/ \E outcome \in Outcome : Tell(c, outcome)

Spec == Init /\ [][Next]_vars

=============================================================================
