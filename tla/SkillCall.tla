------------------------------ MODULE SkillCall ------------------------------
(***************************************************************************)
(* One call of a tool: bridge_main of skill_tools.py sends the command to  *)
(* the SketchUp of its environment, demands the read-back evidence of a    *)
(* mutating one, and gives a failed read-back the version of its host,     *)
(* for which it may have to ask SketchUp a second time.  SketchUp may be   *)
(* closed and started again at any point; a start draws a new port and a   *)
(* new token, the environment keeps those of the first.                    *)
(*                                                                         *)
(* A value that may be absent is a set of at most one.                     *)
(***************************************************************************)
EXTENDS Integers, FiniteSets

CONSTANTS
  Version,    \* versions of SketchUp
  MaxStarts   \* bound: starts of SketchUp

ASSUME StartAssumption == MaxStarts \in Nat \ {0}

VARIABLES
  host,     \* the SketchUp that listens: which start, its version; start 0: none
  starts,   \* starts so far
  kind,     \* classify(method)
  pc,
  reply,    \* what bridge.call returned or raised
  failed,   \* history: the SketchUp that reported the read-back
  error,    \* the WriteVerificationError under way
  outcome   \* what the tool's caller gets

hostVars == <<host, starts>>
vars == <<hostVars, kind, pc, reply, failed, error, outcome>>

Maybe(S) == {{}} \cup {{s} : s \in S}
Host == [start : 0 .. MaxStarts, version : Maybe(Version)]
NoHost == [start |-> 0, version |-> {}]

(* verification of a result: absent or no object, verified is not true,    *)
(* checks are no list or empty, or all there.                              *)
Evidence == {"absent", "unverified", "unchecked", "proven"}

(* A result; a read-back that disagreed, with data that have the version   *)
(* of the host or have not, or with no data at all; or an error of any     *)
(* other kind, the connection's included.                                  *)
Results == [sort : {"result"}, evidence : Evidence]
Disagreements == [sort : {"stamped", "bare"}, evidence : {"absent"}]
Undetailed == [sort |-> "undetailed", evidence |-> "absent"]
OtherError == [sort |-> "error", evidence |-> "absent"]
Silence == [sort |-> "none", evidence |-> "absent"]
Replies == Results \cup Disagreements \cup {Undetailed, OtherError, Silence}

(* check, host_version and host_matrix of the error's payload; the matrix  *)
(* verdict is known by the version it was asked about.                     *)
Check == {"read_back_present", "read_back_checks", "disagreed"}
Payload == [check : Check, version : Maybe(Version), matrix : Maybe(Version)]
NoError == [check |-> "none", version |-> {}, matrix |-> {}]
Outcome == {"none", "success", "bridge_error", "write_verification"}

Init ==
  /\ host \in {[start |-> 1, version |-> {v}] : v \in Version} /\ starts = 1
  /\ kind \in {"mutating", "read_only"}
  /\ pc = "call" /\ reply = Silence /\ failed = NoHost /\ error = NoError /\ outcome = "none"

-----------------------------------------------------------------------------
HostGoes ==
  /\ host # NoHost /\ host' = NoHost
  /\ UNCHANGED <<starts, kind, pc, reply, failed, error, outcome>>

HostStarts ==
  /\ host = NoHost /\ starts < MaxStarts
  /\ starts' = starts + 1
  /\ \E v \in Version : host' = [start |-> starts + 1, version |-> {v}]
  /\ UNCHANGED <<kind, pc, reply, failed, error, outcome>>

(* Fault: whoever listens on the port answers. *)
BugReached == host # NoHost

(* Port and token are those of the first start: any other refuses them. *)
Reached == host.start = 1

-----------------------------------------------------------------------------
Done(o) == pc' = "done" /\ outcome' = o

(* bridge.call; only a mutating command reads back.                        *)
Call ==
  /\ pc = "call" /\ pc' = "judge"
  /\ \/ reply' = OtherError /\ UNCHANGED failed
     \/ /\ Reached /\ failed' = host
        /\ reply' \in Results \cup
             (IF kind = "mutating" THEN Disagreements \cup {Undetailed} ELSE {})
  /\ UNCHANGED <<hostVars, kind, error, outcome>>

(* BridgeError, which nothing here catches; without data a failed          *)
(* read-back is no more than that.                                         *)
JudgeError ==
  /\ pc = "judge" /\ reply.sort \in {"error", "undetailed"}
  /\ Done("bridge_error")
  /\ UNCHANGED <<hostVars, kind, reply, failed, error>>

Disagreed == reply.sort \in {"stamped", "bare"}

(* WriteVerificationError.from_payload: the data may name their host. *)
JudgeDisagreement ==
  /\ pc = "judge" /\ Disagreed
  /\ error' = [check |-> "disagreed", matrix |-> {},
               version |-> IF reply.sort = "stamped" THEN failed.version ELSE {}]
  /\ pc' = "context"
  /\ UNCHANGED <<hostVars, kind, reply, failed, outcome>>

(* require_verification: what is missing of the evidence.                  *)
Missing ==
  CASE reply.evidence \in {"absent", "unverified"} -> {"read_back_present"}
    [] reply.evidence = "unchecked" -> {"read_back_checks"}
    [] OTHER -> {}

JudgeResult ==
  /\ pc = "judge" /\ reply.sort = "result"
  /\ IF kind = "read_only" \/ Missing = {}
     THEN Done("success") /\ UNCHANGED error
     ELSE /\ \E check \in Missing : error' = [NoError EXCEPT !.check = check]
          /\ pc' = "context" /\ UNCHANGED outcome
  /\ UNCHANGED <<hostVars, kind, reply, failed>>

(* _with_host_context: status is asked only for a version that is not      *)
(* there, in data without one or in an error raised here; when it fails or *)
(* has none either, the error goes out as it is.                           *)
Ask ==
  /\ pc = "context" /\ error.version = {}
  /\ \/ /\ Reached
        /\ error' = [error EXCEPT !.version = host.version]
        /\ UNCHANGED <<pc, outcome>>
     \/ Done("write_verification") /\ UNCHANGED error
  /\ UNCHANGED <<hostVars, kind, reply, failed>>

(* Fault: a matrix that cannot be read is raised instead. *)
BugClassify ==
  /\ pc = "context" /\ error.version # {}
  /\ \/ error' = [error EXCEPT !.matrix = error.version] /\ Done("write_verification")
     \/ UNCHANGED error /\ Done("bridge_error")
  /\ UNCHANGED <<hostVars, kind, reply, failed>>

(* classify_host, whose exceptions cost the verdict only.                  *)
Classify ==
  /\ pc = "context" /\ error.version # {}
  /\ error' \in {[error EXCEPT !.matrix = error.version], error}
  /\ Done("write_verification")
  /\ UNCHANGED <<hostVars, kind, reply, failed>>

Ended == pc = "done" /\ UNCHANGED vars

Next ==
  \/ HostGoes \/ HostStarts
  \/ Call \/ JudgeError \/ JudgeDisagreement \/ JudgeResult \/ Ask \/ Classify \/ Ended
Spec == Init /\ [][Next]_vars

-----------------------------------------------------------------------------
(* A read-back that failed or is not there is never masked.  Once SketchUp *)
(* has reported one with its data, the caller gets that very check, and    *)
(* with it the version the data named, though the question for the host    *)
(* and its verdict may fail in any way and SketchUp may be gone; and a     *)
(* mutating tool reports success with at least one passed check, or that   *)
(* its write is not proven.                                                *)
FailedReadBackIsReported ==
  pc = "done" =>
    /\ Disagreed =>
         /\ outcome = "write_verification" /\ error.check = "disagreed"
         /\ reply.sort = "stamped" => error.version = failed.version
    /\ kind = "mutating" /\ reply.sort = "result" =>
         outcome = (IF reply.evidence = "proven" THEN "success" ELSE "write_verification")

(* A report is reproducible: the version in it is the one of the SketchUp  *)
(* that answered the command, never of one started since, and so is the    *)
(* verdict of the matrix.                                                  *)
ContextIsOfTheFailedHost ==
  /\ error.version \subseteq failed.version
  /\ error.matrix \subseteq error.version

=============================================================================
