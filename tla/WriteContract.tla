--------------------------- MODULE WriteContract ---------------------------
(***************************************************************************)
(* A mutating command of commands.rb: validate, open an undo operation,    *)
(* edit the SketchUp model, read the edited parts back, commit, describe   *)
(* the result; on any error abort.  The sidecar then accepts the result    *)
(* only with evidence (write_contract.py).                                 *)
(*                                                                         *)
(* SketchUp is not trusted: an edit may leave any content behind, and any  *)
(* call may raise.  A command is a record that says which parts of its     *)
(* target it edits and which it reads back, both in the code's order.      *)
(***************************************************************************)
EXTENDS Naturals, Sequences

CONSTANTS
  Command,   \* the commands considered, see WriteCommands
  Value,     \* contents of a part
  Absent     \* a part that does not exist

Content == Value \cup {Absent}

(* clear_texture edits the texture too, so it has a step but no part of its own. *)
Target(p) == IF p = "cleared" THEN "texture" ELSE p

EditedBy(c) == {c.edits[j] : j \in DOMAIN c.edits}
ReadBy(c)   == {c.reads[j] : j \in DOMAIN c.reads}
PartsOf(c)  == {Target(p) : p \in EditedBy(c)}

(* kind, wrapped in an undo operation, steps that edit, parameters that may *)
(* be left out, parts watched although nobody asked to change them, parts   *)
(* read back, and whether the result is described after the commit.         *)
ASSUME CommandAssumption ==
  \A c \in Command :
    /\ c.kind \in {"create", "remove", "change"}
    /\ c.wrapped \in BOOLEAN /\ c.summary \in BOOLEAN
    /\ c.edits \in Seq(STRING) /\ c.reads \in Seq(STRING)
    /\ ReadBy(c) \subseteq EditedBy(c)
    /\ c.optional \subseteq EditedBy(c) /\ c.keeps \subseteq EditedBy(c)
ASSUME ValueAssumption == Absent \notin Value /\ Value # {}

Targets == UNION {[PartsOf(c) -> Content] : c \in Command}

VARIABLES
  phase,      \* where the command is
  n,          \* the next edit or read
  cmd,        \* the command
  want,       \* what its parameters ask for: step |-> content
  doc,        \* what SketchUp holds of the target now
  before,     \* what it held when the command arrived
  open,       \* an undo operation is open
  committed,  \* this command's operation has been committed
  stuck,      \* history: its abort_operation failed
  evidence,   \* the checks passed so far
  outcome     \* what the caller was told

vars == <<phase, n, cmd, want, doc, before, open, committed, stuck, evidence, outcome>>

Failures == {"mismatch", "host_error"}
Outcomes == Failures \cup {"none", "success", "unproven"}

Goto(p) == phase' = p /\ n' = 1

----------------------------------------------------------------------------
(* What a request may ask of a step. *)
Askable(c, p) ==
  IF p = "cleared" \/ (p = "item" /\ c.kind = "remove") THEN {Absent} ELSE Value

Wishes(c) ==
  UNION {{w \in [asked -> Content] : \A p \in asked : w[p] \in Askable(c, p)} :
           asked \in {s \in SUBSET (EditedBy(c) \ (c.keeps \ c.optional)) :
                        /\ EditedBy(c) \ (c.optional \cup c.keeps) \subseteq s
                        /\ s \cup c.keeps # {}}}   \* `side` names a side

(* Only these can be missing from a target that exists. *)
Nullable == {"item", "texture", "front", "back", "file"}

Found(c) == {d \in [PartsOf(c) -> Content] : \A p \in PartsOf(c) \ Nullable : d[p] # Absent}

(* find_*, root_entities: a new name must be free, any other must exist. *)
Acceptable == "item" \in DOMAIN doc => (doc["item"] = Absent <=> cmd.kind = "create")

(* A part the command sets, or watches while it edits another one. *)
Touched(p) == p \in DOMAIN want \/ p \in cmd.keeps

(* The texture check is an if/elsif: clearing takes precedence. *)
Checked(p) == Touched(p) /\ ~ (p = "texture" /\ "cleared" \in DOMAIN want)

Expected(p) == IF p \in DOMAIN want THEN want[p] ELSE before[Target(p)]

(* Textures and files are looked for, the members of a group and what an   *)
(* import kept are counted; which ones they are is not compared.  For all  *)
(* of these Absent is the disagreement there can be: none, or a wrong      *)
(* number.                                                                 *)
Unidentified == {"texture", "file", "members", "kept"}

Agrees(p) ==
  IF Target(p) \in Unidentified
  THEN (doc[Target(p)] = Absent) = (Expected(p) = Absent)
  ELSE doc[Target(p)] = Expected(p)

----------------------------------------------------------------------------
(* The bridge executes one command, on whatever target it finds. *)
Init ==
  /\ phase = "validate" /\ n = 1
  /\ cmd \in Command /\ want \in Wishes(cmd)
  /\ doc \in Found(cmd) /\ before = doc
  /\ open = FALSE /\ committed = FALSE /\ stuck = FALSE
  /\ evidence = {} /\ outcome = "none"

Reply(o) == outcome' = o /\ Goto("done") /\ UNCHANGED <<cmd, want, before, evidence>>

Abort(o) ==
  /\ Reply(o)
  /\ IF open THEN doc' = before ELSE UNCHANGED doc
  /\ open' = FALSE
  /\ UNCHANGED <<committed, stuck>>

(* It returns false, which nobody looks at, or raises in place of the error. *)
AbortFails(o) ==
  /\ open
  /\ Reply(o) \/ Reply("host_error")
  /\ stuck' = TRUE
  /\ UNCHANGED <<doc, open, committed>>

(* Fault: the rescue re-raises without aborting the operation. *)
BugFail(o) == Reply(o) /\ UNCHANGED <<doc, open, committed, stuck>>

(* The rescue of with_operation: abort_operation if started. *)
Fail(o) == Abort(o) \/ AbortFails(o)

(* Parameters are checked and the target is looked up before any edit. *)
Refuse == phase = "validate" /\ Fail("host_error")

(* Fault: the command edits without starting its undo operation. *)
BugAccept ==
  /\ phase = "validate" /\ Acceptable
  /\ Goto("edit")
  /\ UNCHANGED <<cmd, want, doc, before, open, committed, stuck, evidence, outcome>>

Accept ==
  /\ phase = "validate" /\ Acceptable
  /\ Goto(IF cmd.wrapped THEN "start" ELSE "edit")
  /\ UNCHANGED <<cmd, want, doc, before, open, committed, stuck, evidence, outcome>>

StartOperation ==
  /\ phase = "start"
  /\ open' = TRUE
  /\ Goto("edit")
  /\ UNCHANGED <<cmd, want, doc, before, committed, stuck, evidence, outcome>>

StartFails == phase = "start" /\ Fail("host_error")

(* One host call.  What it leaves behind is SketchUp's choice. *)
Edit ==
  /\ phase = "edit" /\ n <= Len(cmd.edits)
  /\ LET p == cmd.edits[n] IN
       IF Touched(p)
       THEN \E v \in Content : doc' = [doc EXCEPT ![Target(p)] = v]
       ELSE UNCHANGED doc
  /\ n' = n + 1
  /\ UNCHANGED <<phase, cmd, want, before, open, committed, stuck, evidence, outcome>>

Edited ==
  /\ phase = "edit" /\ n > Len(cmd.edits)
  /\ Goto("read")
  /\ UNCHANGED <<cmd, want, doc, before, open, committed, stuck, evidence, outcome>>

(* Fault: the last read-back is skipped. *)
BugReadsLeft == n < Len(cmd.reads)

ReadsLeft == n <= Len(cmd.reads)

(* check!: recorded, compared, and the next one. *)
ReadBack ==
  /\ phase = "read" /\ ReadsLeft
  /\ LET p == cmd.reads[n] IN
       IF Checked(p)
       THEN Agrees(p) /\ evidence' = evidence \cup {p}
       ELSE UNCHANGED evidence
  /\ n' = n + 1
  /\ UNCHANGED <<phase, cmd, want, doc, before, open, committed, stuck, outcome>>

Mismatch ==
  /\ phase = "read" /\ ReadsLeft
  /\ Checked(cmd.reads[n]) /\ ~ Agrees(cmd.reads[n])
  /\ Fail("mismatch")

(* The host raises, or a parameter that is checked late is wrong. *)
Raise == phase \in {"edit", "read"} /\ Fail("host_error")

AllRead ==
  /\ phase = "read" /\ ~ ReadsLeft
  /\ Goto(IF cmd.wrapped THEN "commit" ELSE "summary")
  /\ UNCHANGED <<cmd, want, doc, before, open, committed, stuck, evidence, outcome>>

Commit ==
  /\ phase = "commit"
  /\ open' = FALSE /\ committed' = TRUE
  /\ Goto("summary")
  /\ UNCHANGED <<cmd, want, doc, before, stuck, evidence, outcome>>

CommitFails == phase = "commit" /\ Fail("host_error")

(* require_verification: a verified block with at least one check. *)
Proven == evidence # {}

Summarise ==
  /\ phase = "summary"
  /\ Reply(IF Proven THEN "success" ELSE "unproven")
  /\ UNCHANGED <<doc, open, committed, stuck>>

(* entity_summary and its like call the host after the commit. *)
SummaryRaises ==
  /\ phase = "summary" /\ cmd.summary
  /\ Reply("host_error")
  /\ UNCHANGED <<doc, open, committed, stuck>>

Next ==
  \/ Refuse \/ Accept \/ StartOperation \/ StartFails
  \/ Edit \/ Edited \/ Raise \/ ReadBack \/ Mismatch \/ AllRead
  \/ Commit \/ CommitFails \/ Summarise \/ SummaryRaises

Spec == Init /\ [][Next]_vars

----------------------------------------------------------------------------
(* Types; the target's parts are those of the command. *)
TypeOK ==
  /\ phase \in {"done", "validate", "start", "edit", "read", "commit", "summary"}
  /\ n \in Nat \ {0}
  /\ cmd \in Command
  /\ want \in [DOMAIN want -> Content] /\ DOMAIN want \subseteq EditedBy(cmd)
  /\ doc \in [PartsOf(cmd) -> Content] /\ before \in [PartsOf(cmd) -> Content]
  /\ open \in BOOLEAN /\ committed \in BOOLEAN /\ stuck \in BOOLEAN
  /\ evidence \subseteq ReadBy(cmd)
  /\ outcome \in Outcomes

(* A reported success was proven: at the moment of the report, after the     *)
(* commit, every part the command reads back agrees with what was asked for, *)
(* and the caller is given that very check as evidence.                      *)
SuccessIsProven ==
  outcome = "success" =>
    \A p \in ReadBy(cmd) : Checked(p) => p \in evidence /\ Agrees(p)

(* A failed command left the target as it found it, unless it works outside  *)
(* an undo operation, the failure came after the commit or the abort failed  *)
(* too: whichever of its edits, read-backs and operation calls failed first. *)
FailureIsClean ==
  outcome \in Failures /\ cmd.wrapped /\ ~ committed /\ ~ stuck => doc = before

(* No path but a failing abort leaves an undo operation open for the next    *)
(* command or the user, and one is open whenever a wrapped command edits or  *)
(* reads back.                                                               *)
OperationsAreBalanced ==
  open <=> stuck \/ (cmd.wrapped /\ phase \in {"edit", "read", "commit"})

(* Every command of the map earns its evidence: require_verification never   *)
(* rejects a result of this extension, whatever parameters were left out.    *)
EvidenceIsNeverEmpty == outcome # "unproven"

(* As far as the undo stack shows, a command is atomic: see AtomicWrite. *)
Status ==
  CASE outcome = "none" -> IF ~ cmd.wrapped THEN "in_place"
                           ELSE IF committed THEN "changed" ELSE "busy"
    [] outcome = "success" -> "ok"
    [] stuck -> "stuck"
    [] OTHER -> IF committed THEN "unreported" ELSE "failed"

UndoStack == IF open /\ ~ stuck THEN before ELSE doc

Atomic == INSTANCE AtomicWrite WITH Model <- Targets, model <- UndoStack, status <- Status

(* Every command behaves as AtomicWrite: one inside with_operation changes   *)
(* the model in a single step, between its last read-back and its report, or *)
(* leaves it alone; only when the abort itself fails may its edits stay.     *)
ImplementsAtomicWrite == Atomic!Spec
=============================================================================
