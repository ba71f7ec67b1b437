--------------------------- MODULE SkillCallProofs ---------------------------
(***************************************************************************)
(* One tool call, for any versions of SketchUp and any number of restarts  *)
(* in the middle of it.                                                    *)
(*                                                                         *)
(* Only the first start of SketchUp has the port and the token of the      *)
(* environment, so every SketchUp that answers, however late it is asked,  *)
(* is the one that answered the command.                                   *)
(***************************************************************************)
EXTENDS SkillCall, TLAPS

Pc == {"call", "judge", "context", "done"}

TypeOK ==
  /\ host \in Host /\ starts \in 1 .. MaxStarts
  /\ kind \in {"mutating", "read_only"} /\ pc \in Pc
  /\ reply \in Replies /\ failed \in Host
  /\ error.check \in Check \cup {"none"}
  /\ error.version \in Maybe(Version) /\ error.matrix \in Maybe(Version)
  /\ error = [check |-> error.check, version |-> error.version, matrix |-> error.matrix]
  /\ outcome \in Outcome

(* A SketchUp that runs has a version; a start is never numbered twice. *)
HostInv ==
  /\ host.start <= starts
  /\ host.start # 0 => host.version # {}
  /\ host.start = 0 => host = NoHost

(* The SketchUp that answered is gone for good once it is gone: whoever is *)
(* reached after it is itself.                                             *)
FirstHostInv ==
  /\ failed # NoHost => failed.version # {}
  /\ failed # NoHost /\ Reached => host = failed
  /\ pc \in {"judge", "context", "done"} /\ reply.sort \notin {"error"} => failed # NoHost

(* A command that only reads has no read-back to fail. *)
ReplyInv ==
  /\ pc = "call" => failed = NoHost /\ error = NoError
  /\ pc # "call" => reply.sort # "none"
  /\ pc = "judge" => error = NoError
  /\ Disagreed \/ reply.sort = "undetailed" => kind = "mutating"

(* What is known of an error whose context is sought. *)
DueContext ==
  /\ kind = "mutating" /\ error.matrix = {}
  /\ \/ /\ Disagreed /\ error.check = "disagreed"
        /\ reply.sort = "stamped" => error.version = failed.version
     \/ reply.sort = "result" /\ reply.evidence # "proven"

ContextInv == pc = "context" => DueContext

IInv ==
  /\ TypeOK /\ HostInv /\ FirstHostInv /\ ReplyInv /\ ContextInv
  /\ FailedReadBackIsReported /\ ContextIsOfTheFailedHost

-----------------------------------------------------------------------------
LEMMA RecordFacts ==
  /\ NoHost \in Host /\ NoHost.start = 0
  /\ NoError.check = "none" /\ NoError.version = {} /\ NoError.matrix = {}
  /\ NoError = [check |-> "none", version |-> {}, matrix |-> {}]
  /\ Silence.sort = "none" /\ Undetailed.sort = "undetailed" /\ OtherError.sort = "error"
  /\ \A r \in Results : r.sort = "result"
  /\ \A r \in Disagreements : r.sort \in {"stamped", "bare"}
  /\ {} \in Maybe(Version)
<1>1. 0 \in 0 .. MaxStarts BY StartAssumption
<1> QED BY <1>1 DEF NoHost, Host, Maybe, NoError, Silence, Undetailed, OtherError, Results,
                    Disagreements

LEMMA InvInit == Init => IInv
<1> SUFFICES ASSUME Init PROVE IInv
  OBVIOUS
<1>1. PICK v \in Version : host = [start |-> 1, version |-> {v}]
  BY DEF Init
<1>2. host \in Host /\ starts \in 1 .. MaxStarts
  BY <1>1, StartAssumption DEF Init, Host, Maybe
<1>3. TypeOK
  BY <1>2, RecordFacts DEF Init, TypeOK, Pc, Replies, Check, Outcome
<1>4. HostInv
  BY <1>1 DEF Init, HostInv
<1>5. FirstHostInv /\ ReplyInv /\ ContextInv /\ FailedReadBackIsReported
  BY RecordFacts DEF Init, FirstHostInv, ReplyInv, Disagreed, ContextInv, FailedReadBackIsReported
<1>6. ContextIsOfTheFailedHost
  BY RecordFacts DEF Init, ContextIsOfTheFailedHost
<1> QED BY <1>3, <1>4, <1>5, <1>6 DEF IInv

(* SketchUp comes and goes without touching the call. *)
LEMMA HostStepInv == IInv /\ (HostGoes \/ HostStarts) => IInv'
<1> SUFFICES ASSUME IInv, HostGoes \/ HostStarts PROVE IInv'
  OBVIOUS
<1>1. UNCHANGED <<kind, pc, reply, failed, error, outcome>>
  BY DEF HostGoes, HostStarts
<1>2. /\ host' \in Host /\ starts' \in 1 .. MaxStarts /\ HostInv'
      /\ host'.start # 1
  <2>1. CASE HostGoes
    BY <2>1, RecordFacts DEF HostGoes, IInv, TypeOK, HostInv
  <2>2. CASE HostStarts
    <3>1. PICK v \in Version : host' = [start |-> starts + 1, version |-> {v}]
      BY <2>2 DEF HostStarts
    <3>2. starts' = starts + 1 /\ starts < MaxStarts /\ starts \in 1 .. MaxStarts
      BY <2>2 DEF HostStarts, IInv, TypeOK
    <3>3. starts + 1 \in 2 .. MaxStarts
      BY <3>2, StartAssumption
    <3> QED BY <3>1, <3>2, <3>3, StartAssumption DEF Host, Maybe, HostInv
  <2> QED BY <2>1, <2>2
<1>3. TypeOK' /\ FirstHostInv'
  BY <1>1, <1>2 DEF IInv, TypeOK, FirstHostInv, Reached
<1>4. ReplyInv' /\ ContextInv' /\ FailedReadBackIsReported' /\ ContextIsOfTheFailedHost'
  BY <1>1 DEF IInv, ReplyInv, ContextInv, DueContext, Disagreed, FailedReadBackIsReported,
              ContextIsOfTheFailedHost
<1> QED BY <1>2, <1>3, <1>4 DEF IInv

LEMMA CallInv == IInv /\ Call => IInv'
<1> SUFFICES ASSUME IInv, Call PROVE IInv'
  OBVIOUS
<1>1. /\ pc = "call" /\ pc' = "judge" /\ error = NoError /\ failed = NoHost
      /\ UNCHANGED <<host, starts, kind, error, outcome>>
  BY DEF Call, hostVars, IInv, ReplyInv
<1>2. /\ reply' \in Replies /\ reply'.sort # "none"
      /\ reply'.sort \in {"stamped", "bare", "undetailed"} => kind = "mutating"
      /\ \/ reply'.sort = "error" /\ failed' = failed
         \/ Reached /\ failed' = host
  BY RecordFacts DEF Call, Replies
<1>3. Reached => host # NoHost
  BY RecordFacts DEF Reached
<1>4. TypeOK'
  BY <1>1, <1>2 DEF IInv, TypeOK, Pc
<1>5. HostInv' /\ FirstHostInv'
  BY <1>1, <1>2, <1>3 DEF IInv, HostInv, FirstHostInv, Reached
<1>6. ReplyInv' /\ ContextInv' /\ FailedReadBackIsReported'
  BY <1>1, <1>2 DEF ReplyInv, Disagreed, ContextInv, FailedReadBackIsReported
<1>7. ContextIsOfTheFailedHost'
  BY <1>1, RecordFacts DEF ContextIsOfTheFailedHost
<1> QED BY <1>4, <1>5, <1>6, <1>7 DEF IInv

(* The reply is judged: an error goes out, a read-back that failed or is   *)
(* not there goes on to its context.                                       *)
LEMMA JudgeInv == IInv /\ (JudgeError \/ JudgeDisagreement \/ JudgeResult) => IInv'
<1> SUFFICES ASSUME IInv, JudgeError \/ JudgeDisagreement \/ JudgeResult PROVE IInv'
  OBVIOUS
<1>1. /\ pc = "judge" /\ error = NoError /\ UNCHANGED <<host, starts, kind, reply, failed>>
      /\ pc' \in {"context", "done"}
  BY DEF JudgeError, JudgeDisagreement, JudgeResult, Done, hostVars, IInv, ReplyInv
<1>2. \/ /\ reply.sort \in {"error", "undetailed"} /\ pc' = "done"
         /\ outcome' = "bridge_error" /\ error' = error
      \/ /\ Disagreed /\ pc' = "context" /\ outcome' = outcome
         /\ error' = [check |-> "disagreed", matrix |-> {},
                      version |-> IF reply.sort = "stamped" THEN failed.version ELSE {}]
      \/ /\ reply.sort = "result" /\ pc' = "done" /\ outcome' = "success" /\ error' = error
         /\ kind = "mutating" => reply.evidence = "proven"
      \/ /\ reply.sort = "result" /\ pc' = "context" /\ outcome' = outcome
         /\ kind # "read_only" /\ reply.evidence # "proven"
         /\ \E check \in Check : error' = [NoError EXCEPT !.check = check]
  <2>1. CASE JudgeError
    BY <2>1 DEF JudgeError, Done
  <2>2. CASE JudgeDisagreement
    BY <2>2 DEF JudgeDisagreement
  <2>3. CASE JudgeResult
    <3>1. reply.sort = "result" /\ reply.evidence \in Evidence
      BY <1>1, <2>3, RecordFacts DEF JudgeResult, IInv, TypeOK, Replies, Results, Disagreements,
                                     Undetailed, OtherError, Silence, Evidence
    <3>2. /\ Missing = {} <=> reply.evidence = "proven"
          /\ Missing \subseteq Check
      BY <3>1 DEF Missing, Evidence, Check
    <3> QED BY <2>3, <3>1, <3>2 DEF JudgeResult, Done
  <2> QED BY <2>1, <2>2, <2>3
<1>3. /\ error'.version \in {{}, failed.version} /\ error'.matrix = {}
      /\ error'.check \in Check \cup {"none"}
      /\ error' = [check |-> error'.check, version |-> error'.version, matrix |-> error'.matrix]
  BY <1>1, <1>2, RecordFacts DEF Check
<1>4. TypeOK'
  <2>1. failed.version \in Maybe(Version) /\ {} \in Maybe(Version)
    BY RecordFacts DEF IInv, TypeOK, Host
  <2>2. outcome' \in Outcome /\ pc' \in Pc
    BY <1>1, <1>2 DEF IInv, TypeOK, Outcome, Pc
  <2> QED BY <1>1, <1>3, <2>1, <2>2 DEF IInv, TypeOK
<1>5. HostInv' /\ FirstHostInv'
  BY <1>1 DEF IInv, HostInv, FirstHostInv, Reached
<1>6. ReplyInv'
  BY <1>1 DEF IInv, ReplyInv, Disagreed
<1>7. ContextInv'
  BY <1>1, <1>2, <1>3 DEF IInv, TypeOK, ReplyInv, ContextInv, DueContext, Disagreed
<1>8. FailedReadBackIsReported'
  BY <1>1, <1>2 DEF FailedReadBackIsReported, Disagreed
<1>9. ContextIsOfTheFailedHost'
  BY <1>1, <1>3 DEF ContextIsOfTheFailedHost
<1> QED BY <1>4, <1>5, <1>6, <1>7, <1>8, <1>9 DEF IInv

(* The second question reaches the SketchUp that answered, or nobody. *)
LEMMA AskInv == IInv /\ Ask => IInv'
<1> SUFFICES ASSUME IInv, Ask PROVE IInv'
  OBVIOUS
<1>1. /\ pc = "context" /\ error.version = {} /\ DueContext
      /\ UNCHANGED <<host, starts, kind, reply, failed>>
  BY DEF Ask, hostVars, IInv, ContextInv
<1>2. failed # NoHost /\ failed.version # {} /\ reply.sort # "stamped"
  BY <1>1 DEF IInv, FirstHostInv, DueContext, Disagreed
<1>3. \/ /\ error' = [error EXCEPT !.version = failed.version]
         /\ pc' = pc /\ outcome' = outcome
      \/ pc' = "done" /\ outcome' = "write_verification" /\ error' = error
  BY <1>2 DEF Ask, Done, IInv, FirstHostInv
<1>4. /\ error'.version \in {{}, failed.version} /\ error'.matrix = {}
      /\ error'.check = error.check
      /\ error' = [check |-> error'.check, version |-> error'.version, matrix |-> error'.matrix]
  BY <1>1, <1>3 DEF IInv, TypeOK, DueContext
<1>5. TypeOK'
  <2>1. failed.version \in Maybe(Version) /\ {} \in Maybe(Version)
    BY RecordFacts DEF IInv, TypeOK, Host
  <2>2. outcome' \in Outcome /\ pc' \in Pc
    BY <1>1, <1>3 DEF IInv, TypeOK, Outcome, Pc
  <2> QED BY <1>1, <1>4, <2>1, <2>2 DEF IInv, TypeOK
<1>6. HostInv' /\ FirstHostInv' /\ ReplyInv'
  BY <1>1, <1>3 DEF IInv, HostInv, FirstHostInv, ReplyInv, Disagreed, Reached
<1>7. ContextInv' /\ FailedReadBackIsReported'
  BY <1>1, <1>2, <1>3, <1>4 DEF ContextInv, DueContext, Disagreed, FailedReadBackIsReported
<1>8. ContextIsOfTheFailedHost'
  BY <1>1, <1>4 DEF ContextIsOfTheFailedHost
<1> QED BY <1>5, <1>6, <1>7, <1>8 DEF IInv

LEMMA ClassifyInv == IInv /\ Classify => IInv'
<1> SUFFICES ASSUME IInv, Classify PROVE IInv'
  OBVIOUS
<1>1. /\ pc = "context" /\ DueContext /\ pc' = "done" /\ outcome' = "write_verification"
      /\ error' \in {[error EXCEPT !.matrix = error.version], error}
      /\ UNCHANGED <<host, starts, kind, reply, failed>>
  BY DEF Classify, Done, hostVars, IInv, ContextInv
<1>2. /\ error'.version = error.version /\ error'.check = error.check
      /\ error'.matrix \in {{}, error.version}
      /\ error' = [check |-> error'.check, version |-> error'.version, matrix |-> error'.matrix]
  BY <1>1 DEF IInv, TypeOK, DueContext
<1>3. TypeOK'
  <2>1. {} \in Maybe(Version)
    BY RecordFacts
  <2>2. outcome' \in Outcome /\ pc' \in Pc
    BY <1>1 DEF Outcome, Pc
  <2> QED BY <1>1, <1>2, <2>1, <2>2 DEF IInv, TypeOK
<1>4. HostInv' /\ FirstHostInv' /\ ReplyInv' /\ ContextInv'
  BY <1>1 DEF IInv, HostInv, FirstHostInv, ReplyInv, Disagreed, ContextInv, Reached
<1>5. FailedReadBackIsReported'
  BY <1>1, <1>2 DEF DueContext, Disagreed, FailedReadBackIsReported
<1>6. ContextIsOfTheFailedHost'
  BY <1>1, <1>2 DEF IInv, ContextIsOfTheFailedHost
<1> QED BY <1>3, <1>4, <1>5, <1>6 DEF IInv

LEMMA InvNext == IInv /\ [Next]_vars => IInv'
<1> SUFFICES ASSUME IInv, [Next]_vars PROVE IInv'
  OBVIOUS
<1>1. CASE HostGoes \/ HostStarts
  BY <1>1, HostStepInv
<1>2. CASE Call
  BY <1>2, CallInv
<1>3. CASE JudgeError \/ JudgeDisagreement \/ JudgeResult
  BY <1>3, JudgeInv
<1>4. CASE Ask
  BY <1>4, AskInv
<1>5. CASE Classify
  BY <1>5, ClassifyInv
<1>6. CASE Ended \/ UNCHANGED vars
  BY <1>6 DEF Ended, vars, hostVars, IInv, TypeOK, HostInv, FirstHostInv, ReplyInv, ContextInv,
              DueContext, Disagreed, FailedReadBackIsReported, ContextIsOfTheFailedHost, Reached
<1> QED BY <1>1, <1>2, <1>3, <1>4, <1>5, <1>6 DEF Next

THEOREM Invariance == Spec => []IInv
BY InvInit, InvNext, PTL DEF Spec

(* Types, for any versions and any number of restarts. *)
THEOREM TypeCorrect == Spec => []TypeOK
<1>1. IInv => TypeOK
  BY DEF IInv
<1> QED BY <1>1, Invariance, PTL

(* bridge_main never masks a read-back that failed or is not there, with   *)
(* the version of its host or without.                                     *)
THEOREM NoFailureIsMasked == Spec => []FailedReadBackIsReported
<1>1. IInv => FailedReadBackIsReported
  BY DEF IInv
<1> QED BY <1>1, Invariance, PTL

(* The version in a report is that of the SketchUp that failed.            *)
THEOREM ReportsAreReproducible == Spec => []ContextIsOfTheFailedHost
<1>1. IInv => ContextIsOfTheFailedHost
  BY DEF IInv
<1> QED BY <1>1, Invariance, PTL
=============================================================================
