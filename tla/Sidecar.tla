------------------------------ MODULE Sidecar ------------------------------
(***************************************************************************)
(* The sidecar process of server.py beside the SketchUp that launches it   *)
(* (runtime.rb: start, stop, stop_child).  Each start of the runtime       *)
(* spawns one process.  Inside it the main thread starts the MCP server    *)
(* and then looks at the host's pid once a second, while a monitor thread  *)
(* asks the bridge for its health until it answers once.  The host takes   *)
(* the sidecar down with a signal, waits three seconds on its UI thread,   *)
(* and kills it.                                                           *)
(*                                                                         *)
(* Seconds are not counted: a timed wait is a choice between what ends it  *)
(* early and its timeout.                                                  *)
(***************************************************************************)
EXTENDS Integers

CONSTANTS
  MaxStarts,   \* bound: how often the runtime is started
  CanReuse     \* whether the pid of a dead SketchUp may be given away again

ASSUME BoundAssumption == MaxStarts \in Nat /\ CanReuse \in BOOLEAN

Gen == 1 .. MaxStarts

VARIABLES
  pid,     \* who has the pid the sidecars were given: SketchUp, nobody, or "other"
  ui,      \* SketchUp's UI thread: "idle", or inside stop_child
  quit,    \* onQuit was called
  starts,  \* sidecars spawned so far
  child,   \* @child_pid: the sidecar the runtime knows, 0 for nil
  open,    \* the bridge listens, for the sidecar of this start; 0 when closed
  side     \* the sidecar processes

hostVars == <<pid, ui, quit, starts, child, open>>
vars == <<hostVars, side>>

(* Main is where the main thread stands: in start_server, in the loop of   *)
(* _run_sidecar, in stop_server.  "dead" is the end of the process, daemon *)
(* thread included.                                                        *)
Main == {"none", "booting", "serving", "monitoring", "waiting", "checking",
         "stopping", "joining", "marking", "closing", "releasing", "dead"}
Monitor == {"none", "sleeping", "probing", "answered", "ended"}

(* told: a signal has set the event of _run_sidecar; halt: _readiness_stop *)
(* is set; mcp: the MCP server runs; ready: what it reports.  History:     *)
(* heard, the bridge answered a probe; gaveUp, the join timed out; late,   *)
(* a probe was begun after halt.                                           *)
Process == [main : Main, mon : Monitor, told : BOOLEAN, halt : BOOLEAN,
            mcp : BOOLEAN, ready : BOOLEAN,
            heard : BOOLEAN, gaveUp : BOOLEAN, late : BOOLEAN]
NotStarted ==
  [main |-> "none", mon |-> "none", told |-> FALSE, halt |-> FALSE,
   mcp |-> FALSE, ready |-> FALSE, heard |-> FALSE, gaveUp |-> FALSE, late |-> FALSE]

Alive(g) == side[g].main \notin {"none", "dead"}

(* The server as its clients see it. *)
Advertised(g) == Alive(g) /\ side[g].mcp /\ side[g].ready

Init ==
  /\ pid = "host" /\ ui = "idle" /\ quit = FALSE
  /\ starts = 0 /\ child = 0 /\ open = 0
  /\ side = [g \in Gen |-> NotStarted]

-----------------------------------------------------------------------------
(* The process's fate in the hands of others. *)

Dead(p) == [p EXCEPT !.main = "dead", !.mon = "ended"]

(* SIGTERM and SIGINT set the event once the handlers are installed; until *)
(* then they end the process.                                              *)
Signalled(p) ==
  IF p.main = "booting" THEN Dead(p) ELSE [p EXCEPT !.told = TRUE]

-----------------------------------------------------------------------------
(* SketchUp's side. *)

HostUp == pid = "host"

Running == open # 0 /\ child # 0 /\ Alive(child)

(* start: a runtime that is not running is stopped first, which finds no   *)
(* living child to wait for.                                               *)
Start ==
  /\ HostUp /\ ui = "idle" /\ ~quit /\ ~Running /\ starts < MaxStarts
  /\ starts' = starts + 1
  /\ child' = starts + 1 /\ open' = starts + 1
  /\ side' = [side EXCEPT ![starts + 1].main = "booting"]
  /\ UNCHANGED <<pid, ui, quit>>

(* stop: the listener and its connections close, then stop_child signals a *)
(* living child.  Windows sends KILL at once.                              *)
Close(windows) ==
  /\ open' = 0
  /\ IF child # 0 /\ Alive(child)
     THEN /\ ui' = "terminating"
          /\ side' = [side EXCEPT ![child] = IF windows THEN Dead(@) ELSE Signalled(@)]
          /\ UNCHANGED child
     ELSE child' = 0 /\ UNCHANGED <<ui, side>>

(* stop is called by the adapter, by start when a later step of it raises, *)
(* and by onQuit, after which SketchUp goes.                               *)
Stop ==
  /\ HostUp /\ ui = "idle" /\ ~quit /\ open # 0
  /\ \E windows, leaving \in BOOLEAN : Close(windows) /\ quit' = leaving
  /\ UNCHANGED <<pid, starts>>

Quit ==
  /\ HostUp /\ ui = "idle" /\ ~quit /\ open = 0
  /\ quit' = TRUE
  /\ UNCHANGED <<pid, ui, starts, child, open, side>>

(* One of the thirty looks finds the child gone. *)
ChildGone ==
  /\ HostUp /\ ui = "terminating" /\ ~Alive(child)
  /\ ui' = "idle" /\ child' = 0
  /\ UNCHANGED <<pid, quit, starts, open, side>>

(* The thirty looks are over: KILL, and waitpid until the child is dead. *)
(* Fault: the loop of looks is not followed by KILL. *)
BugKilled == side
Killed == [side EXCEPT ![child] = Dead(@)]
(* Fault: the loop looks on until the child is gone. *)
BugKillChild == HostUp /\ ui = "terminating" /\ Alive(child) /\ UNCHANGED vars
KillChild ==
  /\ HostUp /\ ui = "terminating" /\ Alive(child)
  /\ side' = Killed
  /\ ui' = "idle" /\ child' = 0
  /\ UNCHANGED <<pid, quit, starts, open>>

CheckChildLiveness ==
  /\ HostUp /\ ui = "idle" /\ open # 0 /\ child # 0 /\ ~Alive(child)
  /\ child' = 0
  /\ UNCHANGED <<pid, ui, quit, starts, open, side>>

(* SketchUp exits after onQuit, or crashes at any point, also while its UI *)
(* thread waits for the child.                                             *)
Exit ==
  /\ HostUp /\ quit /\ ui = "idle"
  /\ pid' = "free" /\ open' = 0
  /\ UNCHANGED <<ui, quit, starts, child, side>>
Crash ==
  /\ HostUp
  /\ pid' = "free" /\ open' = 0
  /\ UNCHANGED <<ui, quit, starts, child, side>>

PidReused ==
  /\ CanReuse /\ pid = "free" /\ pid' = "other"
  /\ UNCHANGED <<ui, quit, starts, child, open, side>>
PidFreed ==
  /\ pid = "other" /\ pid' = "free"
  /\ UNCHANGED <<ui, quit, starts, child, open, side>>

-----------------------------------------------------------------------------
(* The sidecar's main thread. *)

Goto(g, from, to) ==
  /\ side[g].main = from
  /\ side' = [side EXCEPT ![g].main = to]

(* _run_sidecar installs its handlers; start_server makes the server,      *)
(* which reports itself not ready, and starts the host driver.             *)
Boot(g) == Goto(g, "booting", "serving") /\ UNCHANGED hostVars

Serve(g) ==
  /\ side[g].main = "serving"
  /\ side' = [side EXCEPT ![g].main = "monitoring", ![g].mcp = TRUE]
  /\ UNCHANGED hostVars

(* super().start() or the start of the monitor thread raises: the server   *)
(* and the driver stop, the exception leaves the process.                  *)
StartFails(g) ==
  /\ side[g].main \in {"serving", "monitoring"}
  /\ side' = [side EXCEPT ![g].main = "closing"]
  /\ UNCHANGED hostVars

StartMonitor(g) ==
  /\ side[g].main = "monitoring"
  /\ side' = [side EXCEPT ![g].main = "waiting", ![g].halt = FALSE, ![g].mon = "sleeping"]
  /\ UNCHANGED hostVars

(* stopped.wait(1.0) returns false, or true when a signal has set it. *)
WaitTimesOut(g) == ~side[g].told /\ Goto(g, "waiting", "checking") /\ UNCHANGED hostVars
Told(g) == side[g].told /\ Goto(g, "waiting", "stopping") /\ UNCHANGED hostVars

(* _process_is_alive: any process with that pid counts, also one that must *)
(* not be signalled; an error of the call leaves the loop.                 *)
(* Fault: an error of the probe counts as alive, the host's absence too. *)
BugProcessIsAlive == TRUE
ProcessIsAlive == pid # "free"
HostSeen(g) == ProcessIsAlive /\ Goto(g, "checking", "waiting") /\ UNCHANGED hostVars
HostGone(g) == ~ProcessIsAlive /\ Goto(g, "checking", "stopping") /\ UNCHANGED hostVars
CheckRaises(g) == Goto(g, "checking", "stopping") /\ UNCHANGED hostVars

(* _stop_readiness_monitor: set the event, join for a second, report not   *)
(* ready.                                                                  *)
Halt(g) ==
  /\ side[g].main = "stopping"
  /\ side' = [side EXCEPT ![g].main = "joining", ![g].halt = TRUE]
  /\ UNCHANGED hostVars

Join(g) ==
  /\ side[g].mon \in {"none", "ended"}
  /\ Goto(g, "joining", "marking")
  /\ UNCHANGED hostVars
JoinTimesOut(g) ==
  /\ side[g].main = "joining" /\ side[g].mon \notin {"none", "ended"}
  /\ side' = [side EXCEPT ![g].main = "marking", ![g].gaveUp = TRUE]
  /\ UNCHANGED hostVars

(* Fault: stop does not take ready back. *)
BugMarkNotReady(g) == Goto(g, "marking", "closing") /\ UNCHANGED hostVars

MarkNotReady(g) ==
  /\ side[g].main = "marking"
  /\ side' = [side EXCEPT ![g].main = "closing", ![g].ready = FALSE]
  /\ UNCHANGED hostVars

(* super().stop(), then host_driver.stop() also when the former raises. *)
StopServer(g) ==
  /\ side[g].main = "closing"
  /\ side' = [side EXCEPT ![g].main = "releasing", ![g].mcp = FALSE]
  /\ UNCHANGED hostVars
EndProcess(g) ==
  /\ side[g].main = "releasing"
  /\ side' = [side EXCEPT ![g] = Dead(@)]
  /\ UNCHANGED hostVars

MainThread(g) ==
  \/ Boot(g) \/ Serve(g) \/ StartFails(g) \/ StartMonitor(g)
  \/ WaitTimesOut(g) \/ Told(g)
  \/ HostSeen(g) \/ HostGone(g) \/ CheckRaises(g)
  \/ Halt(g) \/ Join(g) \/ JoinTimesOut(g) \/ MarkNotReady(g)
  \/ StopServer(g) \/ EndProcess(g)

-----------------------------------------------------------------------------
(* The monitor thread.  Nothing is looked at between the answer and the    *)
(* report.                                                                 *)

Step(g, from, to) ==
  /\ Alive(g) /\ side[g].mon = from
  /\ side' = [side EXCEPT ![g].mon = to]

MonitorStops(g) == side[g].halt /\ Step(g, "sleeping", "ended") /\ UNCHANGED hostVars

(* The two seconds of the wait are over and the event is not set. *)
MayProbe(g) == ~side[g].halt
Probe(g) ==
  /\ Alive(g) /\ side[g].mon = "sleeping" /\ MayProbe(g)
  /\ side' = [side EXCEPT ![g].mon = "probing", ![g].late = side[g].halt]
  /\ UNCHANGED hostVars

(* is_connected: the bridge of this sidecar answers bridge.health, or the  *)
(* call fails: closed, refused, or eight seconds over.                     *)
ProbeAnswered(g) ==
  /\ Alive(g) /\ side[g].mon = "probing" /\ open = g
  /\ side' = [side EXCEPT ![g].mon = "answered", ![g].heard = TRUE]
  /\ UNCHANGED hostVars
(* Fault: the monitor returns after one try. *)
BugGivesUp == "ended"
AfterFailure == "sleeping"
ProbeFails(g) == Step(g, "probing", AfterFailure) /\ UNCHANGED hostVars

MarkReady(g) ==
  /\ Alive(g) /\ side[g].mon = "answered"
  /\ side' = [side EXCEPT ![g].mon = "ended", ![g].ready = TRUE]
  /\ UNCHANGED hostVars

MonitorThread(g) ==
  \/ MonitorStops(g) \/ Probe(g) \/ ProbeAnswered(g) \/ ProbeFails(g) \/ MarkReady(g)

-----------------------------------------------------------------------------
(* SIGINT or SIGTERM from anybody. *)
Signal(g) ==
  /\ Alive(g) /\ ~side[g].told
  /\ side' = [side EXCEPT ![g] = Signalled(@)]
  /\ UNCHANGED hostVars

(* Nothing is left to run: no SketchUp and no sidecar. *)
Over == ~HostUp /\ (\A g \in Gen : ~Alive(g)) /\ UNCHANGED vars

Host == Start \/ Stop \/ Quit \/ ChildGone \/ KillChild \/ CheckChildLiveness \/ Exit \/ Crash
Next ==
  \/ Host \/ PidReused \/ PidFreed \/ Over
  \/ \E g \in Gen : MainThread(g) \/ MonitorThread(g) \/ Signal(g)

(* The threads of a process are scheduled; StartFails, CheckRaises and     *)
(* JoinTimesOut are choices within the main thread's steps.  SketchUp's UI *)
(* thread runs stop_child to its end.  SketchUp's callbacks, quitting and  *)
(* the fate of its pid are nobody's duty.                                  *)
OwnSteps(g) ==
  \/ Boot(g) \/ StartMonitor(g) \/ WaitTimesOut(g) \/ Told(g)
  \/ HostSeen(g) \/ HostGone(g) \/ CheckRaises(g)
  \/ Halt(g) \/ Join(g) \/ JoinTimesOut(g) \/ MarkNotReady(g) \/ EndProcess(g)
Scheduling ==
  /\ \A g \in Gen : WF_vars(OwnSteps(g)) /\ WF_vars(MonitorThread(g))
  /\ WF_vars(ChildGone \/ KillChild)

(* The MCP server, which is not this code, returns from start and stop. *)
ServerReturns == \A g \in Gen : WF_vars(Serve(g) \/ StartFails(g)) /\ WF_vars(StopServer(g))

(* A bridge that stays open answers some probe: its UI timer fires again   *)
(* after every modal dialog.                                               *)
Answering == \A g \in Gen : SF_vars(ProbeAnswered(g))

(* The server is not relied on by the specification: its start and stop    *)
(* may hang, and only the properties that need them to return say so.      *)
Safe == Init /\ [][Next]_vars
Spec == Safe /\ Scheduling /\ Answering

-----------------------------------------------------------------------------
TypeOK ==
  /\ pid \in {"host", "free", "other"} /\ ui \in {"idle", "terminating"} /\ quit \in BOOLEAN
  /\ starts \in 0 .. MaxStarts /\ child \in 0 .. starts /\ open \in 0 .. starts
  /\ side \in [Gen -> Process]

(* SketchUp never has two sidecars: before a new one is spawned the        *)
(* earlier one is dead, however long it takes to stop and whichever of     *)
(* stop, quit and start meet (running?, stop_child, check_child_liveness). *)
OneSidecar == \A g \in Gen : HostUp /\ Alive(g) => g = child

(* A sidecar reports ready only after its own bridge answered it           *)
(* (is_connected); a process that runs and files in place are no evidence. *)
(* One that stops and still reports ready has met the one race stop leaves *)
(* open: the join gave up on a probe begun before it, which was answered   *)
(* and reported after stop reported not ready.                             *)
ReadyIsEarned ==
  \A g \in Gen : side[g].ready =>
    /\ side[g].heard
    /\ side[g].main \in {"closing", "releasing"} => side[g].gaveUp /\ ~side[g].late

(* The monitor reports ready once and never looks again, and nobody tells  *)
(* a sidecar that SketchUp crashed: yet a sidecar whose bridge is gone     *)
(* ends, and with it what it reports, because whatever closes the bridge   *)
(* also ends the sidecar, stop by a signal, a crash through the pid.  Both *)
(* need a server that returns, and no stranger who goes on with the pid.   *)
BereftEnds ==
  ServerReturns /\ <>[](pid # "other")
    => \A g \in Gen : (Alive(g) /\ open # g) ~> ~Alive(g)

(* A sidecar that keeps running beside a bridge that stays open becomes    *)
(* ready, though probes may fail any number of times before.               *)
BecomesReady ==
  \A g \in Gen : <>[](side[g].main \in {"waiting", "checking"} /\ open = g) => <>side[g].ready

(* stop returns to SketchUp's UI thread even when the sidecar hangs: the   *)
(* sidecar may wait for a bridge that this very thread serves.             *)
StopReturns == (HostUp /\ ui = "terminating") ~> (~HostUp \/ ui = "idle")

=============================================================================
