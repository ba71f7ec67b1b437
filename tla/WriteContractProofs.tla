------------------------ MODULE WriteContractProofs ------------------------
(***************************************************************************)
(* The write contract for any set of commands, any order of edits and      *)
(* read-backs and any behaviour of SketchUp.                               *)
(*                                                                         *)
(* What was read back is still true when it is reported because nothing    *)
(* edits after the first read; a failure is clean because an operation is  *)
(* open for as long as the target may differ from what it was, and aborting *)
(* is the last thing a command does.                                       *)
(***************************************************************************)
EXTENDS WriteCommands, TLAPS

(* The target differs from what it was only under an operation. *)
CleanInv == phase \in {"validate", "start"} => doc = before

(* When the operation has been committed. *)
CommitInv ==
  /\ committed => cmd.wrapped /\ phase \in {"summary", "done"}
  /\ cmd.wrapped /\ phase = "summary" => committed
  /\ cmd.wrapped /\ outcome \in {"success", "unproven"} => committed
  /\ phase \in {"start", "commit"} => cmd.wrapped

ReplyInv == outcome = "none" <=> phase # "done"

(* An abort that failed ended its command. *)
StuckInv == stuck => phase = "done" /\ outcome \in Failures /\ cmd.wrapped /\ ~ committed

(* A check that was due has been passed and still holds. *)
Passed(p) == Checked(p) => p \in evidence /\ Agrees(p)

ReadInv ==
  /\ phase = "read" => \A j \in DOMAIN cmd.reads : j < n => Passed(cmd.reads[j])
  /\ phase \in {"commit", "summary"} => \A p \in ReadBy(cmd) : Passed(p)

IInv ==
  /\ TypeOK /\ OperationsAreBalanced /\ FailureIsClean /\ SuccessIsProven
  /\ CleanInv /\ CommitInv /\ ReplyInv /\ StuckInv /\ ReadInv

----------------------------------------------------------------------------
LEMMA CommandFacts ==
  ASSUME NEW c \in Command
  PROVE  /\ c.wrapped \in BOOLEAN /\ c.summary \in BOOLEAN
         /\ c.edits \in Seq(STRING) /\ c.reads \in Seq(STRING)
         /\ ReadBy(c) \subseteq EditedBy(c)
BY CommandAssumption

(* What a request asks for is content for steps of its command. *)
LEMMA WishFacts ==
  ASSUME NEW c \in Command, NEW w \in Wishes(c)
  PROVE  w \in [DOMAIN w -> Content] /\ DOMAIN w \subseteq EditedBy(c)
<1>1. PICK asked \in SUBSET EditedBy(c) : w \in [asked -> Content]
  BY DEF Wishes
<1> QED BY <1>1

(* The request and what it found never change. *)
LEMMA StepFacts ==
  ASSUME Next
  PROVE  UNCHANGED <<cmd, want, before>>
<1>1. ASSUME NEW o, Fail(o)
      PROVE  UNCHANGED <<cmd, want, before>>
  BY <1>1 DEF Fail, Abort, AbortFails, Reply
<1>2. CASE Refuse \/ StartFails \/ Mismatch \/ Raise \/ CommitFails
  BY <1>1, <1>2 DEF Refuse, StartFails, Mismatch, Raise, CommitFails
<1>3. CASE Accept \/ StartOperation \/ Edit \/ Edited
  BY <1>3 DEF Accept, StartOperation, Edit, Edited
<1>4. CASE ReadBack \/ AllRead \/ Commit \/ Summarise \/ SummaryRaises
  BY <1>4 DEF ReadBack, AllRead, Commit, Summarise, SummaryRaises, Reply
<1> QED BY <1>2, <1>3, <1>4 DEF Next

LEMMA InvInit == Init => IInv
<1> SUFFICES ASSUME Init PROVE IInv
  OBVIOUS
<1>1. TypeOK
  <2>1. doc \in [PartsOf(cmd) -> Content] /\ before = doc
    BY DEF Init, Found
  <2>2. want \in [DOMAIN want -> Content] /\ DOMAIN want \subseteq EditedBy(cmd)
    BY WishFacts DEF Init
  <2>3. phase = "validate" /\ n = 1 /\ cmd \in Command /\ outcome = "none"
    BY DEF Init
  <2>4. open \in BOOLEAN /\ committed \in BOOLEAN /\ stuck \in BOOLEAN /\ evidence \subseteq ReadBy(cmd)
    BY DEF Init
  <2> QED BY <2>1, <2>2, <2>3, <2>4 DEF TypeOK, Outcomes
<1>2. OperationsAreBalanced /\ FailureIsClean /\ SuccessIsProven
  BY DEF Init, OperationsAreBalanced, FailureIsClean, SuccessIsProven, Failures
<1>3. CleanInv /\ CommitInv /\ ReplyInv /\ StuckInv /\ ReadInv
  BY DEF Init, CleanInv, CommitInv, ReplyInv, StuckInv, ReadInv
<1> QED BY <1>1, <1>2, <1>3 DEF IInv

(* The rescue, wherever it is entered. *)
LEMMA FailInv ==
  ASSUME IInv, phase # "done", phase # "summary", NEW o \in Failures, Fail(o)
  PROVE  IInv'
<1>1. /\ phase' = "done" /\ n' = 1 /\ outcome' \in Failures
      /\ UNCHANGED <<cmd, want, before, evidence, committed>>
  BY DEF Fail, Abort, AbortFails, Reply, Goto, Failures
<1>2. \/ doc' = (IF open THEN before ELSE doc) /\ open' = FALSE /\ stuck' = FALSE
      \/ open /\ open' /\ stuck' = TRUE /\ doc' = doc
  BY DEF Fail, Abort, AbortFails, IInv, StuckInv, TypeOK
<1>3. TypeOK'
  <2>1. outcome' \in Outcomes
    BY <1>1 DEF Outcomes
  <2>2. doc' \in [PartsOf(cmd) -> Content] /\ open' \in BOOLEAN /\ stuck' \in BOOLEAN
    BY <1>2 DEF IInv, TypeOK
  <2> QED BY <1>1, <2>1, <2>2 DEF IInv, TypeOK
<1>4. /\ cmd.wrapped /\ ~ stuck' => doc' = before
      /\ open => cmd.wrapped /\ ~ committed
  <2>1. phase \in {"validate", "start", "edit", "read", "commit"} /\ ~ stuck
    BY DEF IInv, TypeOK, StuckInv
  <2> QED BY <1>2, <2>1 DEF IInv, OperationsAreBalanced, CleanInv, CommitInv
<1>5. OperationsAreBalanced' /\ FailureIsClean' /\ SuccessIsProven'
  BY <1>1, <1>2, <1>4 DEF OperationsAreBalanced, FailureIsClean, SuccessIsProven, Failures
<1>6. CleanInv' /\ CommitInv' /\ ReplyInv' /\ StuckInv' /\ ReadInv'
  BY <1>1, <1>2, <1>4 DEF IInv, CleanInv, CommitInv, ReplyInv, StuckInv, ReadInv, Failures
<1> QED BY <1>3, <1>5, <1>6 DEF IInv

LEMMA AcceptInv == IInv /\ Accept => IInv'
<1> SUFFICES ASSUME IInv, Accept PROVE IInv'
  OBVIOUS
<1>1. /\ phase = "validate" /\ n' = 1
      /\ phase' = IF cmd.wrapped THEN "start" ELSE "edit"
      /\ UNCHANGED <<cmd, want, doc, before, open, committed, stuck, evidence, outcome>>
  BY DEF Accept, Goto
<1>2. TypeOK'
  BY <1>1 DEF IInv, TypeOK
<1>3. OperationsAreBalanced' /\ FailureIsClean' /\ SuccessIsProven'
  BY <1>1 DEF IInv, StuckInv, OperationsAreBalanced, FailureIsClean, SuccessIsProven, ReplyInv,
              Checked, Touched, Agrees, Expected, Failures
<1>4. CleanInv' /\ CommitInv' /\ ReplyInv' /\ StuckInv' /\ ReadInv'
  BY <1>1 DEF IInv, CleanInv, CommitInv, ReplyInv, StuckInv, ReadInv
<1> QED BY <1>2, <1>3, <1>4 DEF IInv

LEMMA StartOperationInv == IInv /\ StartOperation => IInv'
<1> SUFFICES ASSUME IInv, StartOperation PROVE IInv'
  OBVIOUS
<1>1. /\ phase = "start" /\ phase' = "edit" /\ n' = 1 /\ open' = TRUE
      /\ UNCHANGED <<cmd, want, doc, before, committed, stuck, evidence, outcome>>
  BY DEF StartOperation, Goto
<1>2. TypeOK'
  BY <1>1 DEF IInv, TypeOK
<1>3. OperationsAreBalanced' /\ FailureIsClean' /\ SuccessIsProven'
  BY <1>1 DEF IInv, StuckInv, OperationsAreBalanced, FailureIsClean, SuccessIsProven, ReplyInv,
              CommitInv, Failures
<1>4. CleanInv' /\ CommitInv' /\ ReplyInv' /\ StuckInv' /\ ReadInv'
  BY <1>1 DEF IInv, CleanInv, CommitInv, ReplyInv, StuckInv, ReadInv
<1> QED BY <1>2, <1>3, <1>4 DEF IInv

LEMMA EditInv == IInv /\ Edit => IInv'
<1> SUFFICES ASSUME IInv, Edit PROVE IInv'
  OBVIOUS
<1>1. /\ phase = "edit" /\ n' = n + 1
      /\ UNCHANGED <<phase, cmd, want, before, open, committed, stuck, evidence, outcome>>
  BY DEF Edit
<1>2. doc' \in [PartsOf(cmd) -> Content]
  BY DEF Edit, IInv, TypeOK
<1>3. TypeOK'
  BY <1>1, <1>2 DEF IInv, TypeOK
<1>4. outcome = "none"
  BY <1>1 DEF IInv, ReplyInv
<1>5. OperationsAreBalanced' /\ FailureIsClean' /\ SuccessIsProven'
  BY <1>1, <1>4 DEF IInv, StuckInv, OperationsAreBalanced, FailureIsClean, SuccessIsProven, Failures
<1>6. CleanInv' /\ CommitInv' /\ ReplyInv' /\ StuckInv' /\ ReadInv'
  BY <1>1, <1>4 DEF IInv, CleanInv, CommitInv, ReplyInv, StuckInv, ReadInv
<1> QED BY <1>3, <1>5, <1>6 DEF IInv

LEMMA EditedInv == IInv /\ Edited => IInv'
<1> SUFFICES ASSUME IInv, Edited PROVE IInv'
  OBVIOUS
<1>1. /\ phase = "edit" /\ phase' = "read" /\ n' = 1
      /\ UNCHANGED <<cmd, want, doc, before, open, committed, stuck, evidence, outcome>>
  BY DEF Edited, Goto
<1>2. TypeOK'
  BY <1>1 DEF IInv, TypeOK
<1>3. outcome = "none"
  BY <1>1 DEF IInv, ReplyInv
<1>4. OperationsAreBalanced' /\ FailureIsClean' /\ SuccessIsProven'
  BY <1>1, <1>3 DEF IInv, StuckInv, OperationsAreBalanced, FailureIsClean, SuccessIsProven, Failures
<1>5. CleanInv' /\ CommitInv' /\ ReplyInv' /\ StuckInv'
  BY <1>1, <1>3 DEF IInv, CleanInv, CommitInv, ReplyInv, StuckInv
<1>6. ReadInv'
  <2>1. \A j \in DOMAIN cmd.reads : ~ (j < 1)
    BY CommandFacts DEF IInv, TypeOK
  <2> QED BY <1>1, <2>1 DEF ReadInv
<1> QED BY <1>2, <1>4, <1>5, <1>6 DEF IInv

LEMMA ReadBackInv == IInv /\ ReadBack => IInv'
<1> SUFFICES ASSUME IInv, ReadBack PROVE IInv'
  OBVIOUS
<1> DEFINE q == cmd.reads[n]
<1>1. /\ phase = "read" /\ n' = n + 1 /\ n <= Len(cmd.reads)
      /\ UNCHANGED <<phase, cmd, want, doc, before, open, committed, stuck, outcome>>
  BY DEF ReadBack, ReadsLeft
<1>2. /\ Checked(q) => Agrees(q) /\ q \in evidence'
      /\ evidence \subseteq evidence' /\ evidence' \subseteq evidence \cup {q}
  BY DEF ReadBack
<1>3. n \in DOMAIN cmd.reads /\ q \in ReadBy(cmd)
  BY <1>1, CommandFacts DEF IInv, TypeOK, ReadBy
<1>4. TypeOK'
  BY <1>1, <1>2, <1>3 DEF IInv, TypeOK
<1>5. outcome = "none"
  BY <1>1 DEF IInv, ReplyInv
<1>6. OperationsAreBalanced' /\ FailureIsClean' /\ SuccessIsProven'
  BY <1>1, <1>5 DEF IInv, StuckInv, OperationsAreBalanced, FailureIsClean, SuccessIsProven, Failures
<1>7. CleanInv' /\ CommitInv' /\ ReplyInv' /\ StuckInv'
  BY <1>1, <1>5 DEF IInv, CleanInv, CommitInv, ReplyInv, StuckInv
<1>8. ReadInv'
  <2> SUFFICES ASSUME NEW j \in DOMAIN cmd.reads, j < n + 1
               PROVE  Passed(cmd.reads[j])'
    BY <1>1 DEF ReadInv
  <2>1. j \in Nat /\ n \in Nat
    BY CommandFacts DEF IInv, TypeOK
  <2>2. CASE j = n
    BY <1>1, <1>2, <2>2 DEF Passed, Checked, Touched, Agrees, Expected
  <2>3. CASE j < n
    <3>1. Passed(cmd.reads[j])
      BY <1>1, <2>3 DEF IInv, ReadInv
    <3> QED
      BY <1>1, <1>2, <3>1 DEF Passed, Checked, Touched, Agrees, Expected
  <2> QED BY <2>1, <2>2, <2>3
<1> QED BY <1>4, <1>6, <1>7, <1>8 DEF IInv

LEMMA AllReadInv == IInv /\ AllRead => IInv'
<1> SUFFICES ASSUME IInv, AllRead PROVE IInv'
  OBVIOUS
<1>1. /\ phase = "read" /\ ~ (n <= Len(cmd.reads)) /\ n' = 1
      /\ phase' = IF cmd.wrapped THEN "commit" ELSE "summary"
      /\ UNCHANGED <<cmd, want, doc, before, open, committed, stuck, evidence, outcome>>
  BY DEF AllRead, Goto, ReadsLeft
<1>2. TypeOK'
  BY <1>1 DEF IInv, TypeOK
<1>3. outcome = "none"
  BY <1>1 DEF IInv, ReplyInv
<1>4. OperationsAreBalanced' /\ FailureIsClean' /\ SuccessIsProven'
  BY <1>1, <1>3 DEF IInv, StuckInv, OperationsAreBalanced, FailureIsClean, SuccessIsProven, Failures
<1>5. CleanInv' /\ CommitInv' /\ ReplyInv' /\ StuckInv'
  BY <1>1, <1>3 DEF IInv, CleanInv, CommitInv, ReplyInv, StuckInv
<1>6. \A p \in ReadBy(cmd) : Passed(p)
  <2> SUFFICES ASSUME NEW j \in DOMAIN cmd.reads PROVE Passed(cmd.reads[j])
    BY DEF ReadBy
  <2>1. j < n
    BY <1>1, CommandFacts DEF IInv, TypeOK
  <2> QED BY <1>1, <2>1 DEF IInv, ReadInv
<1>7. ReadInv'
  BY <1>1, <1>6 DEF ReadInv, Passed, Checked, Touched, Agrees, Expected
<1> QED BY <1>2, <1>4, <1>5, <1>7 DEF IInv

LEMMA CommitStepInv == IInv /\ Commit => IInv'
<1> SUFFICES ASSUME IInv, Commit PROVE IInv'
  OBVIOUS
<1>1. /\ phase = "commit" /\ phase' = "summary" /\ n' = 1
      /\ open' = FALSE /\ committed' = TRUE
      /\ UNCHANGED <<cmd, want, doc, before, stuck, evidence, outcome>>
  BY DEF Commit, Goto
<1>2. TypeOK'
  <2>1. open' \in BOOLEAN /\ committed' \in BOOLEAN
    BY <1>1
  <2> QED BY <1>1, <2>1 DEF IInv, TypeOK
<1>3. outcome = "none"
  BY <1>1 DEF IInv, ReplyInv
<1>4. OperationsAreBalanced' /\ FailureIsClean' /\ SuccessIsProven'
  BY <1>1, <1>3 DEF IInv, StuckInv, OperationsAreBalanced, FailureIsClean, SuccessIsProven, Failures
<1>5. CleanInv' /\ CommitInv' /\ ReplyInv' /\ StuckInv'
  BY <1>1, <1>3 DEF IInv, CleanInv, CommitInv, ReplyInv, StuckInv
<1>6. ReadInv'
  BY <1>1 DEF IInv, ReadInv, Passed, Checked, Touched, Agrees, Expected
<1> QED BY <1>2, <1>4, <1>5, <1>6 DEF IInv

(* The report, with or without an error after the commit. *)
LEMMA ReportInv == IInv /\ (Summarise \/ SummaryRaises) => IInv'
<1> SUFFICES ASSUME IInv, Summarise \/ SummaryRaises PROVE IInv'
  OBVIOUS
<1>1. /\ phase = "summary" /\ phase' = "done" /\ n' = 1
      /\ outcome' \in {"success", "unproven", "host_error"}
      /\ UNCHANGED <<cmd, want, doc, before, open, committed, stuck, evidence>>
  BY DEF Summarise, SummaryRaises, Reply, Goto
<1>2. TypeOK'
  <2>1. outcome' \in Outcomes
    BY <1>1 DEF Outcomes, Failures
  <2> QED BY <1>1, <2>1 DEF IInv, TypeOK
<1>3. cmd.wrapped => committed
  BY <1>1 DEF IInv, CommitInv
<1>4. OperationsAreBalanced' /\ FailureIsClean'
  BY <1>1, <1>3 DEF IInv, StuckInv, OperationsAreBalanced, FailureIsClean
<1>5. SuccessIsProven'
  BY <1>1 DEF IInv, ReadInv, Passed, SuccessIsProven, Checked, Touched, Agrees, Expected
<1>6. CleanInv' /\ CommitInv' /\ ReplyInv' /\ StuckInv' /\ ReadInv'
  BY <1>1, <1>3 DEF IInv, CleanInv, CommitInv, ReplyInv, StuckInv, ReadInv
<1> QED BY <1>2, <1>4, <1>5, <1>6 DEF IInv

LEMMA InvNext == IInv /\ [Next]_vars => IInv'
<1> SUFFICES ASSUME IInv, [Next]_vars PROVE IInv'
  OBVIOUS
<1>1. CASE Refuse \/ StartFails \/ Mismatch \/ Raise \/ CommitFails
  <2>1. /\ phase # "done" /\ phase # "summary"
        /\ Fail("mismatch") \/ Fail("host_error")
    BY <1>1 DEF Refuse, StartFails, Mismatch, Raise, CommitFails
  <2> QED BY <2>1, FailInv DEF Failures
<1>2. CASE Accept
  BY <1>2, AcceptInv
<1>3. CASE StartOperation
  BY <1>3, StartOperationInv
<1>4. CASE Edit
  BY <1>4, EditInv
<1>5. CASE Edited
  BY <1>5, EditedInv
<1>6. CASE ReadBack
  BY <1>6, ReadBackInv
<1>7. CASE AllRead
  BY <1>7, AllReadInv
<1>8. CASE Commit
  BY <1>8, CommitStepInv
<1>9. CASE Summarise \/ SummaryRaises
  BY <1>9, ReportInv
<1>10. CASE UNCHANGED vars
  BY <1>10 DEF vars, IInv, TypeOK, OperationsAreBalanced, FailureIsClean, SuccessIsProven,
               CleanInv, CommitInv, ReplyInv, StuckInv, ReadInv, Passed, Checked, Touched, Agrees,
               Expected
<1> QED
  BY <1>1, <1>2, <1>3, <1>4, <1>5, <1>6, <1>7, <1>8, <1>9, <1>10 DEF Next

THEOREM Invariance == Spec => []IInv
BY InvInit, InvNext, PTL DEF Spec

(* Types, for every command and every target. *)
THEOREM TypeCorrect == Spec => []TypeOK
<1>1. IInv => TypeOK
  BY DEF IInv
<1> QED BY <1>1, Invariance, PTL

(* A reported success holds at the report and carries its evidence. *)
THEOREM ReportedSuccessIsProven == Spec => []SuccessIsProven
<1>1. IInv => SuccessIsProven
  BY DEF IInv
<1> QED BY <1>1, Invariance, PTL

(* A command that fails inside its operation changes nothing, as long as   *)
(* SketchUp can abort it.                                                  *)
THEOREM FailedCommandsChangeNothing == Spec => []FailureIsClean
<1>1. IInv => FailureIsClean
  BY DEF IInv
<1> QED BY <1>1, Invariance, PTL

(* No operation is left open but by an abort that failed. *)
THEOREM NoOperationStaysOpen == Spec => []OperationsAreBalanced
<1>1. IInv => OperationsAreBalanced
  BY DEF IInv
<1> QED BY <1>1, Invariance, PTL

----------------------------------------------------------------------------
(* Refinement.  UndoStack is `before` while an operation is open and can   *)
(* still be aborted.                                                       *)
LEMMA DocIsATarget == IInv => doc \in Targets
BY DEF IInv, TypeOK, Targets

LEMMA AtomicInit == Init => Atomic!Init
<1> SUFFICES ASSUME Init PROVE Atomic!Init
  OBVIOUS
<1>1. UndoStack = doc /\ doc \in Targets
  BY InvInit, DocIsATarget DEF Init, UndoStack
<1>2. Status \in {"busy", "in_place"}
  BY DEF Init, Status
<1> QED BY <1>1, <1>2 DEF Atomic!Init

LEMMA AtomicNext == IInv /\ IInv' /\ [Next]_vars => [Atomic!Next]_<<UndoStack, Status>>
<1> SUFFICES ASSUME IInv, IInv', Next PROVE [Atomic!Next]_<<UndoStack, Status>>
  BY DEF vars, UndoStack, Status
<1> USE DEF IInv
<1>1. cmd' = cmd /\ before' = before /\ doc' \in Targets
  <2>1. cmd' \in Command /\ doc' \in [PartsOf(cmd') -> Content]
    BY DEF TypeOK
  <2> QED BY <2>1, StepFacts DEF Targets
<1>2. ASSUME NEW o \in Failures, Fail(o), phase # "done", phase # "summary"
      PROVE  Atomic!Fail \/ Atomic!GetStuck \/ Atomic!EndInPlace
  <2>1. /\ outcome = "none" /\ outcome' \in Failures /\ ~ committed /\ ~ committed'
        /\ ~ stuck /\ (open => cmd.wrapped)
    BY <1>2 DEF Fail, Abort, AbortFails, Reply, ReplyInv, CommitInv, StuckInv,
                OperationsAreBalanced, Failures
  <2>2. Status = IF cmd.wrapped THEN "busy" ELSE "in_place"
    BY <2>1 DEF Status
  <2>3. CASE Abort(o)
    <3>1. ~ open' /\ ~ stuck'
      BY <2>1, <2>3 DEF Abort
    <3>2. Status' = "failed"
      BY <1>1, <2>1, <3>1 DEF Status, Failures
    <3>3. UndoStack' = UndoStack
      BY <2>1, <2>3, <3>1 DEF Abort, UndoStack
    <3> QED BY <2>2, <3>2, <3>3 DEF Atomic!Fail, Atomic!EndInPlace
  <2>4. CASE AbortFails(o)
    <3>1. open /\ stuck' /\ doc' = doc
      BY <2>4 DEF AbortFails
    <3>2. Status' = "stuck"
      BY <1>1, <2>1, <3>1 DEF Status, Failures
    <3>3. UndoStack' \in Targets
      BY <1>1, <3>1 DEF UndoStack
    <3> QED BY <2>1, <2>2, <3>1, <3>2, <3>3 DEF Atomic!GetStuck
  <2> QED BY <1>2, <2>3, <2>4 DEF Fail
<1>3. CASE Refuse \/ StartFails \/ Mismatch \/ Raise \/ CommitFails
  <2>1. /\ phase # "done" /\ phase # "summary"
        /\ Fail("mismatch") \/ Fail("host_error")
    BY <1>3 DEF Refuse, StartFails, Mismatch, Raise, CommitFails
  <2> QED BY <1>2, <2>1 DEF Failures, Atomic!Next
<1>4. CASE Accept \/ Edited \/ ReadBack \/ AllRead
  <2>1. UNCHANGED <<cmd, before, doc, open, committed, stuck, outcome>>
    BY <1>4 DEF Accept, Edited, ReadBack, AllRead
  <2> QED BY <2>1 DEF UndoStack, Status
<1>5. CASE StartOperation
  <2>1. UNCHANGED <<cmd, before, doc, committed, stuck, outcome>> /\ doc = before /\ open'
    BY <1>5 DEF StartOperation, CleanInv
  <2> QED BY <2>1 DEF UndoStack, Status
<1>6. CASE Edit
  <2>1. /\ UNCHANGED <<cmd, before, open, committed, stuck, outcome>>
        /\ phase = "edit" /\ outcome = "none" /\ (open <=> cmd.wrapped) /\ ~ stuck
    BY <1>6 DEF Edit, ReplyInv, StuckInv, OperationsAreBalanced
  <2>2. Status' = Status
    BY <2>1 DEF Status
  <2>3. CASE cmd.wrapped
    BY <2>1, <2>2, <2>3 DEF UndoStack
  <2>4. CASE ~ cmd.wrapped
    <3>1. Status = "in_place" /\ UndoStack' \in Targets
      BY <1>1, <2>1, <2>4 DEF Status, UndoStack
    <3> QED BY <2>2, <3>1 DEF Atomic!Next, Atomic!EditInPlace
  <2> QED BY <2>3, <2>4
<1>7. CASE Commit
  <2>1. /\ UNCHANGED <<cmd, before, doc, stuck, outcome>> /\ ~ open' /\ committed'
        /\ outcome = "none" /\ cmd.wrapped /\ ~ committed /\ ~ stuck
    BY <1>7 DEF Commit, ReplyInv, CommitInv, StuckInv
  <2>2. Status = "busy" /\ Status' = "changed" /\ UndoStack' \in Targets
    BY <1>1, <2>1 DEF Status, UndoStack
  <2> QED BY <2>2 DEF Atomic!Next, Atomic!Change
<1>8. CASE Summarise \/ SummaryRaises
  <2>1. /\ UNCHANGED <<cmd, before, doc, open, committed, stuck>>
        /\ outcome = "none" /\ (cmd.wrapped <=> committed) /\ ~ stuck
        /\ outcome' \in {"success", "unproven", "host_error"}
    BY <1>8 DEF Summarise, SummaryRaises, Reply, ReplyInv, CommitInv, StuckInv
  <2>2. UndoStack' = UndoStack
    BY <2>1 DEF UndoStack
  <2>3. Status = IF cmd.wrapped THEN "changed" ELSE "in_place"
    BY <2>1 DEF Status
  <2>4. Status' = IF outcome' = "success" THEN "ok"
                  ELSE IF cmd.wrapped THEN "unreported" ELSE "failed"
    BY <2>1 DEF Status
  <2> QED BY <2>2, <2>3, <2>4 DEF Atomic!Next, Atomic!Report, Atomic!EndInPlace
<1> QED BY <1>3, <1>4, <1>5, <1>6, <1>7, <1>8 DEF Next

(* Every command of any command map behaves as AtomicWrite promises. *)
THEOREM RefinesAtomicWrite == Spec => ImplementsAtomicWrite
<1>1. IInv /\ IInv' /\ [Next]_vars => [Atomic!Next]_<<UndoStack, Status>>
  BY AtomicNext
<1> QED
  BY <1>1, AtomicInit, Invariance, PTL DEF Spec, ImplementsAtomicWrite, Atomic!Spec
----------------------------------------------------------------------------
(* The command table.  What the next two theorems need of a command:       *)

(* Every step that is not exempted is read back. *)
ReadsBack(c) == EditedBy(c) \ Unproven \subseteq ReadBy(c)

(* Something is read back by value whatever parameters are left out: a step *)
(* that is always due, or all that can be asked for.                        *)
AlwaysChecks(c) ==
  \/ \E p \in ReadBy(c) \ {"texture"} : p \in c.keeps \/ p \notin c.optional
  \/ c.keeps = {} /\ EditedBy(c) \subseteq ReadBy(c) \ {"texture"}

(* The elements of the tuples of the table. *)
LEMMA TupleElements ==
  /\ \A a : {<<a>>[j] : j \in DOMAIN <<a>>} = {a}
  /\ \A a, b : {<<a, b>>[j] : j \in DOMAIN <<a, b>>} = {a, b}
  /\ \A a, b, c : {<<a, b, c>>[j] : j \in DOMAIN <<a, b, c>>} = {a, b, c}
  /\ \A a, b, c, d : {<<a, b, c, d>>[j] : j \in DOMAIN <<a, b, c, d>>} = {a, b, c, d}
  /\ \A a, b, c, d, e :
       {<<a, b, c, d, e>>[j] : j \in DOMAIN <<a, b, c, d, e>>} = {a, b, c, d, e}
<1>1. \A a : {<<a>>[j] : j \in DOMAIN <<a>>} = {a}
  <2>1. \A a : DOMAIN <<a>> = 1 .. 1 OBVIOUS
  <2> QED BY <2>1
<1>2. \A a, b : {<<a, b>>[j] : j \in DOMAIN <<a, b>>} = {a, b}
  <2>1. \A a, b : DOMAIN <<a, b>> = {1, 2} OBVIOUS
  <2> QED BY <2>1
<1>3. \A a, b, c : {<<a, b, c>>[j] : j \in DOMAIN <<a, b, c>>} = {a, b, c}
  <2>1. \A a, b, c : DOMAIN <<a, b, c>> = {1, 2, 3} OBVIOUS
  <2> QED BY <2>1
<1>4. \A a, b, c, d : {<<a, b, c, d>>[j] : j \in DOMAIN <<a, b, c, d>>} = {a, b, c, d}
  <2>1. \A a, b, c, d : DOMAIN <<a, b, c, d>> = {1, 2, 3, 4} OBVIOUS
  <2> QED BY <2>1
<1>5. \A a, b, c, d, e :
        {<<a, b, c, d, e>>[j] : j \in DOMAIN <<a, b, c, d, e>>} = {a, b, c, d, e}
  <2>1. \A a, b, c, d, e : DOMAIN <<a, b, c, d, e>> = {1, 2, 3, 4, 5} OBVIOUS
  <2> QED BY <2>1
<1> QED BY <1>1, <1>2, <1>3, <1>4, <1>5
LEMMA TableFacts ==
  ASSUME NEW c \in Commands
  PROVE  ReadsBack(c) /\ AlwaysChecks(c)
<1> USE TupleElements DEF Changes, Creates, Removes, InPlace, EditedBy, ReadBy,
                          ReadsBack, AlwaysChecks, Unproven, Unidentified
<1>1. CASE c = AddBox
  BY <1>1 DEF AddBox
<1>2. CASE c = AddCylinder
  BY <1>2 DEF AddCylinder
<1>3. CASE c = Group
  BY <1>3 DEF Group
<1>4. CASE c = Transform
  BY <1>4 DEF Transform
<1>5. CASE c = Rename
  BY <1>5 DEF Rename
<1>6. CASE c = Removes
  BY <1>6
<1>7. CASE c = Select
  BY <1>7 DEF Select
<1>8. CASE c = CreateMaterial
  BY <1>8 DEF CreateMaterial
<1>9. CASE c = UpdateMaterial
  BY <1>9 DEF UpdateMaterial
<1>10. CASE c = AssignMaterial
  BY <1>10 DEF AssignMaterial
<1>11. CASE c = CreateScene
  BY <1>11 DEF CreateScene
<1>12. CASE c = UpdateScene
  BY <1>12 DEF UpdateScene
<1>13. CASE c = CreateTag
  BY <1>13 DEF CreateTag
<1>14. CASE c = AssignTag
  BY <1>14 DEF AssignTag
<1>15. CASE c = Save
  BY <1>15 DEF Save
<1>16. CASE c = Export
  BY <1>16 DEF Export
<1>17. CASE c = Import
  BY <1>17 DEF Import
<1> QED
  BY <1>1, <1>2, <1>3, <1>4, <1>5, <1>6, <1>7, <1>8, <1>9,
     <1>10, <1>11, <1>12, <1>13, <1>14, <1>15, <1>16, <1>17
  DEF Commands, Erase, RemoveMaterial, RemoveScene, RemoveTag, SaveCopy, Export

(* The command and the request are of the table, and stay. *)
RequestInv == cmd \in Command /\ want \in Wishes(cmd)

LEMMA RequestFacts ==
  ASSUME RequestInv
  PROVE  /\ DOMAIN want \subseteq EditedBy(cmd)
         /\ EditedBy(cmd) \ (cmd.optional \cup cmd.keeps) \subseteq DOMAIN want
         /\ DOMAIN want \cup cmd.keeps # {}
         /\ "cleared" \in DOMAIN want => want["cleared"] = Absent
<1>1. PICK asked \in SUBSET (EditedBy(cmd) \ (cmd.keeps \ cmd.optional)) :
        /\ EditedBy(cmd) \ (cmd.optional \cup cmd.keeps) \subseteq asked
        /\ asked \cup cmd.keeps # {}
        /\ want \in [asked -> Content] /\ \A p \in asked : want[p] \in Askable(cmd, p)
  BY DEF RequestInv, Wishes
<1>2. DOMAIN want = asked
  BY <1>1
<1>3. "cleared" \in asked => want["cleared"] \in {Absent}
  BY <1>1 DEF Askable
<1> QED BY <1>1, <1>2, <1>3

THEOREM RequestsStay == Spec => []RequestInv
<1>1. Init => RequestInv
  BY DEF Init, RequestInv
<1>2. RequestInv /\ [Next]_vars => RequestInv'
  BY StepFacts DEF RequestInv, vars
<1> QED BY <1>1, <1>2, PTL DEF Spec

(* Whatever the request left out, some check was due. *)
LEMMA SomethingIsChecked ==
  ASSUME RequestInv
  PROVE  \E p \in ReadBy(cmd) : Checked(p)
<1>1. AlwaysChecks(cmd)
  BY TableFacts, CommandMapAssumption DEF RequestInv
<1>2. CASE \E p \in ReadBy(cmd) \ {"texture"} : p \in cmd.keeps \/ p \notin cmd.optional
  <2>1. PICK p \in ReadBy(cmd) \ {"texture"} : p \in cmd.keeps \/ p \notin cmd.optional
    BY <1>2
  <2>2. p \in EditedBy(cmd)
    BY <2>1, CommandFacts DEF RequestInv
  <2>3. Touched(p)
    BY <2>1, <2>2, RequestFacts DEF Touched
  <2> QED BY <2>1, <2>3 DEF Checked
<1>3. CASE cmd.keeps = {} /\ EditedBy(cmd) \subseteq ReadBy(cmd) \ {"texture"}
  <2>1. PICK p \in DOMAIN want : TRUE
    BY <1>3, RequestFacts
  <2> QED BY <1>3, <2>1, RequestFacts DEF Touched, Checked
<1> QED BY <1>1, <1>2, <1>3 DEF AlwaysChecks

(* require_verification never meets an empty block of checks. *)
THEOREM EvidenceIsAlwaysThere == Spec => []EvidenceIsNeverEmpty
<1>1. Init => EvidenceIsNeverEmpty
  BY DEF Init, EvidenceIsNeverEmpty
<1>2. IInv /\ RequestInv /\ EvidenceIsNeverEmpty /\ [Next]_vars => EvidenceIsNeverEmpty'
  <2> SUFFICES ASSUME IInv, RequestInv, EvidenceIsNeverEmpty, [Next]_vars
               PROVE  EvidenceIsNeverEmpty'
    OBVIOUS
  <2>1. CASE Summarise
    <3>1. PICK p \in ReadBy(cmd) : Checked(p)
      BY SomethingIsChecked
    <3>2. Proven
      BY <2>1, <3>1 DEF Summarise, IInv, ReadInv, Passed, Proven
    <3> QED BY <2>1, <3>2 DEF Summarise, Reply, EvidenceIsNeverEmpty
  <2>2. CASE ~ Summarise
    <3>1. outcome' \in {outcome} \cup Failures
      BY <2>2 DEF Next, Refuse, Accept, StartOperation, StartFails, Edit, Edited, Raise, ReadBack,
                  Mismatch, AllRead, Commit, CommitFails, SummaryRaises, Fail, Abort, AbortFails,
                  Reply, Failures, vars
    <3> QED BY <3>1 DEF EvidenceIsNeverEmpty, Failures
  <2> QED BY <2>1, <2>2
<1> QED BY <1>1, <1>2, Invariance, RequestsStay, PTL DEF Spec

(* After a reported success every step that was asked for is in the model, *)
(* except for the named parts, which no read-back compares by content.     *)
THEOREM SuccessMeansChange == Spec => []SuccessIsTheChange
<1>1. IInv /\ RequestInv => SuccessIsTheChange
  <2> SUFFICES ASSUME IInv, RequestInv, outcome = "success", NEW p \in DOMAIN want \ Unproven
               PROVE  doc[Target(p)] = want[p]
    BY DEF SuccessIsTheChange
  <2>1. p \in ReadBy(cmd)
    BY TableFacts, RequestFacts, CommandMapAssumption DEF RequestInv, ReadsBack
  <2>2. Checked(p)
    BY DEF Checked, Touched, Unproven, Unidentified
  <2>3. Agrees(p) /\ Expected(p) = want[p]
    BY <2>1, <2>2 DEF IInv, SuccessIsProven, Expected
  <2>4. CASE p = "cleared"
    BY <2>3, <2>4, RequestFacts DEF Agrees, Target, Unidentified
  <2>5. CASE p # "cleared"
    BY <2>3, <2>5 DEF Agrees, Target, Unidentified, Unproven
  <2> QED BY <2>4, <2>5
<1> QED BY <1>1, Invariance, RequestsStay, PTL

(* "Reported success, model unchanged" cannot be met with a request for a  *)
(* part that is read back by value: where NoSilentFailure fails, it fails  *)
(* on one of the parts in Unproven.                                        *)
THEOREM ProvenPartsAreNotSilent ==
  Spec => [](outcome = "success" /\ (\E p \in DOMAIN want \ Unproven : want[p] # before[Target(p)])
               => doc # before)
<1>1. SuccessIsTheChange =>
        (outcome = "success" /\ (\E p \in DOMAIN want \ Unproven : want[p] # before[Target(p)])
           => doc # before)
  BY DEF SuccessIsTheChange
<1> QED BY <1>1, SuccessMeansChange, PTL
=============================================================================
