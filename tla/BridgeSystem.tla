---------------------------- MODULE BridgeSystem ----------------------------
(***************************************************************************)
(* The bridge with its client: SketchupBridge.call of bridge.py on one     *)
(* side of the socket, PluginRuntime (BridgeRuntime) on the other.  Every  *)
(* connection is one call with an id of its own; whoever calls again after *)
(* an error uses another connection.                                       *)
(***************************************************************************)
EXTENDS BridgeRuntime

VARIABLE client   \* per call: where it stands and what it knows

sysVars == <<vars, client>>

(* wait: the socket timeout that is left; line: the response that reached  *)
(* the client's socket; told: how the call ended.                          *)
State == {"idle", "connected", "calling", "done"}
Told  == {"none", "run", "refused", "over", "timed_out", "gave_up", "lost"}
Calling == [state : State, wait : Nat, line : Reply \cup {"none"}, told : Told]
NotCalled == [state |-> "idle", wait |-> 0, line |-> "none", told |-> "none"]

SysInit == Init /\ client = [c \in Conn |-> NotCalled]

-----------------------------------------------------------------------------
(* The two ends of the socket. *)

(* The client that leaves the with-block closes its end. *)
Leave(c) ==
  conn' = [conn EXCEPT ![c].gone =
             @ \/ conn[c].phase \in Live \cup {"backlog"}]

(* The last byte of the response is written. *)
Written(c) == conn[c].phase = "writing" /\ conn'[c].phase = "closing"

Bridge ==
  /\ Poll \/ Stop \/ OnQuit \/ Start \/ ChildExit
  /\ client' = [c \in Conn |-> IF Written(c) /\ client[c].state = "calling"
                               THEN [client[c] EXCEPT !.line = conn[c].reply] ELSE client[c]]

Time ==
  /\ Tick
  /\ client' = [c \in Conn |-> [client[c] EXCEPT !.wait = IF @ > 0 THEN @ - 1 ELSE 0]]

-----------------------------------------------------------------------------
(* SketchupBridge.call *)

(* create_connection; nobody listens: OSError. *)
Open(c) ==
  /\ client[c].state = "idle" /\ Connect(c)
  /\ client' = [client EXCEPT ![c].state = "connected"]

Ended(c, told) ==
  client' = [client EXCEPT ![c] = [NotCalled EXCEPT !.state = "done", !.told = told]]

Unreachable(c) ==
  /\ client[c].state = "idle" /\ ~on
  /\ Ended(c, "lost") /\ UNCHANGED vars

(* settimeout and sendall.  The deadline of a command was computed before, *)
(* so the client waits for at least as long as it leaves.                  *)
SendRequest(c) ==
  /\ client[c].state = "connected"
  /\ \E f \in Sent, d \in SuppliedTtl :
       /\ Send(c, f, d)
       /\ client' = [client EXCEPT ![c].state = "calling", ![c].wait = d]

(* Fault: an error of the command is taken for a refusal. *)
BugMeaning(reply) ==
  CASE reply \in {"answer", "response_too_large"} -> "run"
    [] reply = "timed_out" -> "timed_out"
    [] OTHER -> "refused"

(* What the code, with which the message of a BridgeError begins, says of  *)
(* the command.  host_error may be a refusal or a command that ran and     *)
(* raised: only that the command is over.                                  *)
Meaning(reply) ==
  CASE reply \in {"answer", "response_too_large"} -> "run"
    [] reply \in {"busy", "invalid_request"} -> "refused"
    [] reply = "host_error" -> "over"
    [] OTHER -> "timed_out"

(* _read_line up to its newline. *)
ReadLine(c) ==
  /\ client[c].state = "calling" /\ client[c].line # "none"
  /\ Ended(c, Meaning(client[c].line)) /\ Leave(c)
  /\ UNCHANGED <<lifeVars, pollVars, queue, ran, faults>>

(* The stream ends without a response, or is reset. *)
ConnectionClosed(c) ==
  /\ client[c].state \in {"connected", "calling"} /\ client[c].line = "none"
  /\ conn[c].phase = "closed"
  /\ Ended(c, "lost") /\ UNCHANGED vars

TimedOut(c) == client[c].wait = 0
GiveUp(c) ==
  /\ client[c].state = "calling" /\ client[c].line = "none" /\ TimedOut(c)
  /\ Ended(c, "gave_up") /\ Leave(c)
  /\ UNCHANGED <<lifeVars, pollVars, queue, ran, faults>>

(* The sidecar, or the tool's process, ends in the middle of the call. *)
CallerDies(c) ==
  /\ client[c].state \in {"connected", "calling"}
  /\ Ended(c, "lost") /\ Leave(c)
  /\ UNCHANGED <<lifeVars, pollVars, queue, ran, faults>>

OwnStep(c) ==
  Open(c) \/ Unreachable(c) \/ SendRequest(c) \/ ReadLine(c) \/ ConnectionClosed(c) \/ GiveUp(c)

SysNext == Bridge \/ Time \/ \E c \in Conn : OwnStep(c) \/ CallerDies(c)

SysSpec == SysInit /\ [][SysNext]_sysVars

-----------------------------------------------------------------------------
SysTypeOK == TypeOK /\ client \in [Conn -> Calling]

(* What the caller learns is a promise: "run" is said of a command that    *)
(* ran once, after "refused" it has not run and never will, and after      *)
(* "over" it may have run but starts no more, whatever restarts, expiries  *)
(* and hang-ups came in between.  Only the other three endings leave a     *)
(* command behind that may still start.                                    *)
Learned(told) == IF told \in {"timed_out", "gave_up", "lost"} THEN "unknown" ELSE told
Promise == INSTANCE CommandCalls WITH
  Call <- Conn, runs <- ran, told <- [c \in Conn |-> Learned(client[c].told)]
KeepsItsPromise == Promise!Spec

(* A command whose client has waited its whole timeout is started by the   *)
(* host in the deadline's own millisecond or not at all, so that a caller  *)
(* that waits a moment after it gave up meets no late write.               *)
NoStartAfterGivingUp ==
  [][\A r \in queue :
       r.timed /\ ran'[r.conn] # ran[r.conn] /\ client[r.conn].told = "gave_up"
         => r.due = 0]_sysVars

=============================================================================
