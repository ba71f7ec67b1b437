--------------------------- MODULE BridgeRuntime ---------------------------
(***************************************************************************)
(* PluginRuntime of sketchup_plugin/runtime.rb: the loopback JSON-RPC      *)
(* server that a SketchUp UI timer pumps.  One timer callback (poll) owns  *)
(* every socket; it runs on the UI thread, so start, stop and onQuit only  *)
(* happen between two callbacks, while clients, the clock and the sidecar  *)
(* process move at any point of a callback.                                *)
(*                                                                         *)
(* Time is kept as remaining time: ttl and due count down.  due = 0 is the *)
(* deadline's own millisecond, due = -1 is later.                          *)
(***************************************************************************)
EXTENDS Integers, FiniteSets

CONSTANTS
  Conn,            \* connection attempts; each is used once
  MaxConnections,  \* MAX_CONNECTIONS
  ReadTtl,         \* time to deliver a complete frame (5 s)
  WriteTtl,        \* time to write the response (1 s)
  CloseTtl,        \* time for the peer to close (1 s)
  UntimedTtl,      \* deadline of a request that supplies none (8 s or 620 s)
  SuppliedTtl,     \* remaining times a client may supply with a command
  Sent,            \* the kinds of frame clients send
  MaxStarts,       \* bound: calls of start
  MaxFaults        \* bound: failing accepts

ASSUME ConnAssumption == IsFiniteSet(Conn) /\ MaxConnections \in Nat \ {0}
ASSUME TtlAssumption ==
  /\ ReadTtl \in Nat \ {0} /\ WriteTtl \in Nat \ {0} /\ CloseTtl \in Nat \ {0}
  /\ UntimedTtl \in Nat \ {0}
  /\ SuppliedTtl \subseteq Nat \ {0}
ASSUME BoundAssumption == MaxStarts \in Nat /\ MaxFaults \in Nat

VARIABLES
  on,      \* listener, timer and observer exist: started and not stopped
  quit,    \* SketchUp has quit
  child,   \* @child_pid: "nil", or a process that is "live" or "dead"
  pc,      \* the next step of poll; "idle" between two callbacks
  pass,    \* first or second pump of sockets in this callback
  todo,    \* sockets the current IO.select returned, not yet processed
  queue,   \* @requests: the queued Requests, at most one
  conn,    \* per connection: what the client and ConnectionState hold
  ran,     \* history: how often the host started the connection's command
  starts, faults

lifeVars == <<on, quit, child, starts>>
pollVars == <<pc, pass, todo>>
vars == <<lifeVars, pollVars, queue, conn, ran, faults>>

(* A command carries its deadline in its parameters; bridge.health carries *)
(* none.  An invalid frame has at least a valid id, one without id has not.*)
Frame == {"none", "cmd", "untimed", "invalid", "noid"}
Phase == {"none", "backlog", "reading", "waiting", "writing", "closing", "closed"}
Live  == {"reading", "waiting", "writing", "closing"}

(* What execute_request pushes: "answer" is a result or a failed read-back *)
(* that fits, "failed" any other error the command raised, "expired" the   *)
(* refusal to run it.  The last two are one reply: both have the code      *)
(* host_error.                                                             *)
Response == {"answer", "failed", "too_large", "unencodable", "expired"}
Reply == {"answer", "response_too_large", "host_error", "busy", "invalid_request", "timed_out"}

ConnectionState ==
  [phase : Phase, ttl : Nat, due : Nat \cup {-1}, frame : Frame, gone : BOOLEAN,
   response : Response \cup {"none"}, reply : Reply \cup {"none"}]
Fresh(p) ==
  [phase |-> p, ttl |-> 0, due |-> 0, frame |-> "none", gone |-> FALSE,
   response |-> "none", reply |-> "none"]

ASSUME SentAssumption == Sent \subseteq Frame \ {"none"}

Request == [conn : Conn, timed : BOOLEAN, due : Nat \cup {-1}]

InPhase(p)  == {c \in Conn : conn[c].phase = p}
Connections == {c \in Conn : conn[c].phase \in Live}

(* close_connection_state drops everything known about the connection. *)
Close(c) == conn' = [conn EXCEPT ![c] = Fresh("closed")]

(* An accepted connection, one whose request is queued, one whose response *)
(* is written (shutdown_write).                                            *)
Accepted(s) == [s EXCEPT !.phase = "reading", !.ttl = ReadTtl]
Awaiting(s, due) == [s EXCEPT !.phase = "waiting", !.due = due, !.frame = "none", !.ttl = 0]
HalfClosed(s) == [s EXCEPT !.phase = "closing", !.ttl = CloseTtl]

(* queue_response: the reply goes out under a write deadline of its own. *)
Answered(s, code) ==
  [s EXCEPT !.phase = "writing", !.ttl = WriteTtl, !.reply = code,
            !.due = 0, !.frame = "none", !.response = "none"]
QueueResponse(c, code) == conn' = [conn EXCEPT ![c] = Answered(@, code)]

-----------------------------------------------------------------------------
(* The environment: clients, the clock, the sidecar process.               *)

Connect(c) ==
  /\ on /\ conn[c].phase = "none"
  /\ conn' = [conn EXCEPT ![c] = Fresh("backlog")]
  /\ UNCHANGED <<lifeVars, pollVars, queue, ran, faults>>

(* The client computes a command's deadline before it sends the frame. *)
Send(c, f, d) ==
  /\ conn[c].phase \in {"backlog", "reading"}
  /\ conn[c].frame = "none" /\ ~conn[c].gone
  /\ conn' = [conn EXCEPT ![c].frame = f, ![c].due = IF f = "cmd" THEN d ELSE 0]
  /\ UNCHANGED <<lifeVars, pollVars, queue, ran, faults>>

HangUp(c) ==
  /\ conn[c].phase \in Live \cup {"backlog"} /\ ~conn[c].gone
  /\ conn' = [conn EXCEPT ![c].gone = TRUE]
  /\ UNCHANGED <<lifeVars, pollVars, queue, ran, faults>>

TickTtl(s) ==
  IF s.phase \in {"reading", "writing", "closing"} /\ s.ttl > 0 THEN s.ttl - 1 ELSE s.ttl
TickDue(s) ==
  IF (s.frame = "cmd" \/ s.phase = "waiting") /\ s.due >= 0 THEN s.due - 1 ELSE s.due
TickRequest(r) == [r EXCEPT !.due = IF @ >= 0 THEN @ - 1 ELSE @]

Tick ==
  /\ conn' = [c \in Conn |-> [conn[c] EXCEPT !.ttl = TickTtl(conn[c]), !.due = TickDue(conn[c])]]
  /\ queue' = {TickRequest(r) : r \in queue}
  /\ UNCHANGED <<lifeVars, pollVars, ran, faults>>

ChildExit ==
  /\ child = "live"
  /\ child' = "dead"
  /\ UNCHANGED <<on, quit, starts, pollVars, queue, conn, ran, faults>>

-----------------------------------------------------------------------------
(* start, stop and onQuit: on the UI thread, between two callbacks.        *)

(* Fault: stop forgets the connections that wait for the host. *)
BugCloseAll ==
  conn' = [c \in Conn |-> IF conn[c].phase \in {"none", "waiting"} THEN conn[c]
                         ELSE Fresh("closed")]

(* stop closes every socket; a backlog dies with its listener. *)
CloseAll ==
  conn' = [c \in Conn |-> IF conn[c].phase = "none" THEN conn[c] ELSE Fresh("closed")]

(* SketchupAdapter.stop drops the runtime, and its queue with it. *)
Stop ==
  /\ pc = "idle" /\ on
  /\ CloseAll
  /\ on' = FALSE /\ child' = "nil" /\ queue' = {}
  /\ UNCHANGED <<quit, starts, pollVars, ran, faults>>

OnQuit ==
  /\ pc = "idle" /\ ~quit
  /\ quit' = TRUE
  /\ CloseAll
  /\ on' = FALSE /\ child' = "nil"
  /\ UNCHANGED <<starts, pollVars, queue, ran, faults>>

(* running? *)
Running == on /\ child = "live"

(* start of a runtime that is not running first stops what is left over,   *)
(* but keeps the request queue.  A failing launch, timer or observer       *)
(* undoes everything again.                                                *)
Start ==
  /\ pc = "idle" /\ ~quit /\ ~Running
  /\ starts < MaxStarts /\ starts' = starts + 1
  /\ CloseAll
  /\ \/ on' = TRUE /\ child' = "live"
     \/ on' = FALSE /\ child' = "nil"
  /\ UNCHANGED <<quit, pollVars, queue, ran, faults>>

-----------------------------------------------------------------------------
(* poll: pump_response_outbox, expire_connections, pump_socket_events,     *)
(* one request, then the three pumps again and check_child_liveness.       *)

Goto(step) == pc' = step /\ UNCHANGED <<pass, todo>>

(* An exception ends the callback; the next one starts from the top. *)
Abort == pc' = "idle" /\ pass' = 1 /\ todo' = {}

BeginPoll ==
  /\ pc = "idle" /\ on
  /\ Goto("outbox")
  /\ UNCHANGED <<lifeVars, queue, conn, ran, faults>>

Ready == {c \in InPhase("waiting") : conn[c].response # "none"}

(* What response_payload writes for a response: 1 MiB at most. *)
PayloadCode(r) ==
  CASE r = "too_large" -> "response_too_large"
    [] r \in {"failed", "expired"} -> "host_error"
    [] OTHER -> r

(* The popped response is lost when JSON.generate cannot encode it. *)
PumpResponse(c) ==
  /\ pc = "outbox" /\ c \in Ready
  /\ \/ /\ conn[c].response # "unencodable"
        /\ QueueResponse(c, PayloadCode(conn[c].response))
        /\ UNCHANGED pollVars
     \/ /\ conn[c].response = "unencodable"
        /\ conn' = [conn EXCEPT ![c].response = "none"]
        /\ Abort
  /\ UNCHANGED <<lifeVars, queue, ran, faults>>

OutboxDone ==
  /\ pc = "outbox" /\ Ready = {}
  /\ Goto("expire")
  /\ UNCHANGED <<lifeVars, queue, conn, ran, faults>>

(* Fault: a client that never completes its frame keeps its connection. *)
BugExpiredReading(s) ==
  IF s.phase = "waiting"
    THEN IF s.due <= 0 THEN Answered(s, "timed_out") ELSE s
    ELSE IF s.phase \in {"writing", "closing"} /\ s.ttl = 0 THEN Fresh("closed") ELSE s

(* Fault: a client that never closes its end keeps its connection. *)
BugExpiredClosing(s) ==
  IF s.phase = "waiting"
    THEN IF s.due <= 0 THEN Answered(s, "timed_out") ELSE s
    ELSE IF s.phase \in {"reading", "writing"} /\ s.ttl = 0 THEN Fresh("closed") ELSE s

(* The request of an expired connection stays in the queue. *)
Expired(s) ==
  IF s.phase = "waiting"
    THEN IF s.due <= 0 THEN Answered(s, "timed_out") ELSE s
    ELSE IF s.phase \in Live /\ s.ttl = 0 THEN Fresh("closed") ELSE s

ExpireConnections ==
  /\ pc = "expire"
  /\ conn' = [c \in Conn |-> Expired(conn[c])]
  /\ Goto("select")
  /\ UNCHANGED <<lifeVars, queue, ran, faults>>

(* A waiting socket is in neither set: its hang-up goes unseen. *)
Readable(s) ==
  \/ s.phase = "reading" /\ (s.frame # "none" \/ s.gone)
  \/ s.phase = "closing" /\ s.gone
Selected == {c \in Conn : Readable(conn[c]) \/ conn[c].phase = "writing"}

(* Fault: the accept loop tests the cap after it accepted. *)
BugRoom == MaxConnections + 1 - Cardinality(Connections)

(* accept_nonblock until the backlog or the cap is exhausted; the listener *)
(* is not selected at the cap.                                             *)
Room == MaxConnections - Cardinality(Connections)

Accepts(S) ==
  /\ S \subseteq InPhase("backlog")
  /\ Cardinality(S) <= Room
  /\ S = InPhase("backlog") \/ Cardinality(S) = Room

(* The sockets just accepted wait for the next IO.select. *)
SelectSockets ==
  /\ pc = "select"
  /\ \E S \in SUBSET Conn :
       /\ Accepts(S)
       /\ conn' = [c \in Conn |-> IF c \in S THEN Accepted(conn[c]) ELSE conn[c]]
  /\ pc' = "io" /\ todo' = Selected /\ UNCHANGED pass
  /\ UNCHANGED <<lifeVars, queue, ran, faults>>

(* Any error of accept but EINTR leaves pump_socket_events, hence poll. *)
AcceptFails ==
  /\ pc = "select" /\ faults < MaxFaults
  /\ InPhase("backlog") # {} /\ Room > 0
  /\ faults' = faults + 1
  /\ Abort
  /\ UNCHANGED <<lifeVars, queue, conn, ran>>

Turn(c, p) ==
  /\ pc = "io" /\ c \in todo /\ conn[c].phase = p
  /\ todo' = todo \ {c} /\ UNCHANGED <<pc, pass>>

(* process_readable at the end of the stream, or on a reset that took an   *)
(* unread frame with it.                                                   *)
ReadEof(c) ==
  /\ Turn(c, "reading") /\ conn[c].gone
  /\ Close(c)
  /\ UNCHANGED <<lifeVars, queue, ran, faults>>

(* response_deadline accepts a supplied deadline only in the future. *)
ValidFrame(s) == s.frame = "untimed" \/ (s.frame = "cmd" /\ s.due > 0)

(* A frame without a valid id is never answered. *)
RejectFrame(c) ==
  /\ Turn(c, "reading")
  /\ conn[c].frame # "none" /\ ~ValidFrame(conn[c])
  /\ IF conn[c].frame = "noid" THEN Close(c) ELSE QueueResponse(c, "invalid_request")
  /\ UNCHANGED <<lifeVars, queue, ran, faults>>

(* Fault: a queue without limit. *)
BugQueueHasRoom == TRUE

(* SizedQueue.new(REQUEST_QUEUE_SIZE), REQUEST_QUEUE_SIZE = 1 *)
QueueHasRoom == queue = {}

(* process_request_payload, with room in the queue and without. *)
Enqueue(c) ==
  /\ Turn(c, "reading") /\ ValidFrame(conn[c])
  /\ QueueHasRoom
  /\ LET timed == conn[c].frame = "cmd"
         due   == IF timed THEN conn[c].due ELSE UntimedTtl
     IN /\ queue' = queue \cup {[conn |-> c, timed |-> timed, due |-> due]}
        /\ conn' = [conn EXCEPT ![c] = Awaiting(@, due)]
  /\ UNCHANGED <<lifeVars, ran, faults>>

(* Fault: a request that finds the queue full is kept all the same. *)
BugRejectBusy(c) ==
  /\ Turn(c, "reading") /\ ValidFrame(conn[c])
  /\ ~QueueHasRoom
  /\ QueueResponse(c, "busy")
  /\ queue' = queue \cup {[conn |-> c, timed |-> conn[c].frame = "cmd", due |-> conn[c].due]}
  /\ UNCHANGED <<lifeVars, ran, faults>>

RejectBusy(c) ==
  /\ Turn(c, "reading") /\ ValidFrame(conn[c])
  /\ ~QueueHasRoom
  /\ QueueResponse(c, "busy")
  /\ UNCHANGED <<lifeVars, queue, ran, faults>>

ProcessRequest(c) == IF QueueHasRoom THEN Enqueue(c) ELSE RejectBusy(c)

(* process_writable: a part of the response, its end, or a broken socket. *)
Write(c) ==
  /\ Turn(c, "writing")
  /\ \/ UNCHANGED conn
     \/ conn' = [conn EXCEPT ![c] = HalfClosed(@)]
     \/ conn[c].gone /\ Close(c)
  /\ UNCHANGED <<lifeVars, queue, ran, faults>>

ConsumePeerClose(c) ==
  /\ Turn(c, "closing")
  /\ Close(c)
  /\ UNCHANGED <<lifeVars, queue, ran, faults>>

AfterIo == IF pass = 1 THEN "exec" ELSE "child"

IoDone ==
  /\ pc = "io" /\ todo = {}
  /\ Goto(AfterIo)
  /\ UNCHANGED <<lifeVars, queue, conn, ran, faults>>

(* Fault: the deadline is not compared again before execution. *)
BugRefused(r) == FALSE

(* Commands#execute refuses a command whose own deadline has passed; a     *)
(* request without one has nothing to compare.                             *)
Refused(r) == r.timed /\ r.due < 0

(* Fault: the request is read from the queue and not removed. *)
BugPop(r) == queue

Pop(r) == queue \ {r}

(* Each request has a response queue of its own, and only a connection     *)
(* that still waits reads it.                                              *)
Push(r, resp) ==
  conn' = [conn EXCEPT ![r.conn].response =
             IF conn[r.conn].phase = "waiting" THEN resp ELSE @]

(* Fault: connections expire before the outbox is pumped. *)
BugAfterExec == "expire"

AfterExec == "outbox"

(* execute_request: pop, run on the host, push the response. *)
ExecuteRequest(r) ==
  /\ pc = "exec" /\ r \in queue
  /\ queue' = Pop(r)
  /\ \E resp \in Response :
       /\ Refused(r) <=> resp = "expired"
       /\ Push(r, resp)
  /\ ran' = [ran EXCEPT ![r.conn] = IF Refused(r) THEN @ ELSE @ + 1]
  /\ pc' = AfterExec /\ pass' = 2 /\ UNCHANGED todo
  /\ UNCHANGED <<lifeVars, faults>>

NothingToExecute ==
  /\ pc = "exec" /\ queue = {}
  /\ pc' = AfterExec /\ pass' = 2 /\ UNCHANGED todo
  /\ UNCHANGED <<lifeVars, queue, conn, ran, faults>>

(* Fault: an exited sidecar is reaped and its pid kept. *)
BugChildSeen == child

ChildSeen == IF child = "dead" THEN "nil" ELSE child

CheckChildLiveness ==
  /\ pc = "child"
  /\ child' = ChildSeen
  /\ Abort
  /\ UNCHANGED <<on, quit, starts, queue, conn, ran, faults>>

Socket(c) ==
  \/ ReadEof(c) \/ RejectFrame(c) \/ ProcessRequest(c)
  \/ Write(c) \/ ConsumePeerClose(c)

Poll ==
  \/ BeginPoll
  \/ \E c \in Conn : PumpResponse(c)
  \/ OutboxDone
  \/ ExpireConnections
  \/ SelectSockets
  \/ AcceptFails
  \/ \E c \in Conn : Socket(c)
  \/ IoDone
  \/ \E r \in queue : ExecuteRequest(r)
  \/ NothingToExecute
  \/ CheckChildLiveness

Client(c) ==
  \/ Connect(c)
  \/ \E f \in Sent, d \in SuppliedTtl : Send(c, f, d)
  \/ HangUp(c)

-----------------------------------------------------------------------------

Init ==
  /\ on = FALSE /\ quit = FALSE /\ child = "nil"
  /\ pc = "idle" /\ pass = 1 /\ todo = {}
  /\ queue = {}
  /\ conn = [c \in Conn |-> Fresh("none")]
  /\ ran  = [c \in Conn |-> 0]
  /\ starts = 0 /\ faults = 0

Next ==
  \/ Poll
  \/ \E c \in Conn : Client(c)
  \/ Tick
  \/ ChildExit
  \/ Stop
  \/ OnQuit
  \/ Start

Spec == Init /\ [][Next]_vars

(* The UI timer keeps firing, its callback runs to its end, time passes. *)
Fairness == WF_vars(Poll) /\ WF_vars(Tick)
FairSpec == Spec /\ Fairness

-----------------------------------------------------------------------------
(* Properties.                                                             *)

(* Type invariant; the request queue holds one request at most.            *)
TypeOK ==
  /\ on \in BOOLEAN /\ quit \in BOOLEAN
  /\ child \in {"nil", "live", "dead"}
  /\ pc \in {"idle", "outbox", "expire", "select", "io", "exec", "child"}
  /\ pass \in {1, 2} /\ todo \subseteq Conn
  /\ queue \subseteq Request /\ \A q, r \in queue : q = r
  /\ conn \in [Conn -> ConnectionState]
  /\ ran \in [Conn -> Nat]
  /\ starts \in Nat /\ faults \in Nat

Queued(c) == \E r \in queue : r.conn = c

(* A request neither vanishes nor runs twice: while its connection waits it *)
(* is in the queue and has not run, or it has left the queue through one    *)
(* execution or one refusal.  Also across expiry, an aborted callback and a *)
(* restart that keeps the queue.                                            *)
QueuedOrServedOnce ==
  \A c \in Conn :
    /\ ran[c] <= 1
    /\ Queued(c) => ran[c] = 0
    /\ conn[c].phase = "waiting" /\ ~Queued(c) =>
         ran[c] = 1 \/ conn[c].response = "expired"

(* A reply never lies about the host: a result is claimed only for a command *)
(* the host did run, "busy" and "invalid_request" promise that it did not    *)
(* run and never will, and "host_error", which says either, at least that    *)
(* nothing of it is still to come.                                           *)
RepliesAreTrue ==
  \A c \in Conn :
    /\ conn[c].reply \in {"answer", "response_too_large"} => ran[c] = 1
    /\ conn[c].reply \in {"busy", "invalid_request"} => ran[c] = 0
    /\ conn[c].reply \in {"busy", "invalid_request", "host_error"} => ~Queued(c)

(* The listener leaves the select set at the cap and the accept loop stops  *)
(* there, so no burst of clients exceeds MAX_CONNECTIONS.                   *)
ConnectionCap == Cardinality(Connections) <= MaxConnections

(* After stop, onQuit or a failed start nothing of the bridge is left: no   *)
(* open connection, no sidecar, no callback half way through its pumps.     *)
StoppedIsQuiet ==
  ~on => /\ child = "nil" /\ pc = "idle"
         /\ Connections = {} /\ InPhase("backlog") = {}

(* A command that carries its deadline is started after its client was told *)
(* "timed out" only in the deadline's own millisecond (expiry compares with *)
(* >=, Commands#execute with <), and never later, not even when a restart   *)
(* closed its connection and kept the queue.                                *)
TimedOutStartsOnlyAtDeadline ==
  [][\A r \in queue :
       r.timed /\ ran'[r.conn] # ran[r.conn] =>
         /\ r.due >= 0
         /\ conn[r.conn].reply = "timed_out" => r.due = 0]_vars

(* A response that is ready when the deadline passes is still delivered:    *)
(* the outbox is pumped before connections expire, twice per callback.      *)
ReadyResponseBeatsTimeout ==
  [][\A c \in Ready : conn'[c].reply # "timed_out"]_vars

(* Every connection the bridge accepted is closed in the end, whatever its  *)
(* client does or fails to do.                                              *)
EveryConnectionCloses ==
  \A c \in Conn : conn[c].phase \in Live ~> conn[c].phase = "closed"

(* Who waits is served while the bridge keeps running, although slow        *)
(* clients fill the cap and an accept error may end a callback early: a     *)
(* client in the backlog is accepted, a queued request leaves the queue.    *)
WaitersAreServed ==
  /\ \A c \in Conn : conn[c].phase = "backlog" ~> conn[c].phase # "backlog"
  /\ queue # {} ~> (queue = {} \/ ~on)

(* A sidecar that exits is noticed.                                         *)
SidecarExitNoticed == child = "dead" ~> child # "dead"

=============================================================================
