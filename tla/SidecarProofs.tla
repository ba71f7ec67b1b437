--------------------------- MODULE SidecarProofs ---------------------------
(***************************************************************************)
(* Proofs about Sidecar for any number of starts: the type invariant, that *)
(* SketchUp has one sidecar, and what "ready" is worth.                    *)
(***************************************************************************)
EXTENDS Sidecar, TLAPS

(* What a process keeps true of itself: an answer was heard, no probe was  *)
(* begun after halt, there is no monitor before the server runs, and past  *)
(* the join a monitor is still about only if the join gave up on it.       *)
Local(p) ==
  /\ p.mon = "answered" => p.heard
  /\ p.ready => p.heard
  /\ ~p.late
  /\ p.main \in {"none", "booting", "serving", "monitoring"} => p.mon = "none" /\ ~p.ready
  /\ p.main \in {"marking", "closing", "releasing"} /\ p.mon \notin {"none", "ended"} => p.gaveUp
  /\ p.main \in {"closing", "releasing"} /\ p.ready => p.gaveUp

(* The processes that exist are those that were spawned. *)
Spawned == \A g \in Gen : side[g].main = "none" <=> g > starts

(* Whoever closed the bridge has taken the sidecar down before returning.  *)
NoneLeftBehind == HostUp /\ ui = "idle" /\ open = 0 /\ child # 0 => ~Alive(child)

(* TypeOK without the processes and the Boolean quit. *)
Ranges ==
  /\ pid \in {"host", "free", "other"} /\ ui \in {"idle", "terminating"}
  /\ starts \in 0 .. MaxStarts /\ child \in 0 .. starts /\ open \in 0 .. starts

IInv ==
  /\ TypeOK
  /\ \A g \in Gen : Local(side[g])
  /\ Spawned
  /\ OneSidecar
  /\ NoneLeftBehind

-----------------------------------------------------------------------------
(* The initial state. *)
LEMMA InitInv == Init => IInv
<1> SUFFICES ASSUME Init PROVE IInv OBVIOUS
<1>1. NotStarted \in Process /\ NotStarted.main = "none" /\ Local(NotStarted)
  BY DEF NotStarted, Process, Main, Monitor, Local
<1>2. \A g \in Gen : side[g] = NotStarted BY DEF Init
<1>3. TypeOK
  <2>1. quit \in BOOLEAN BY DEF Init
  <2>2. Ranges /\ side \in [Gen -> Process] BY <1>1, BoundAssumption DEF Init, Ranges
  <2> QED BY <2>1, <2>2 DEF TypeOK, Ranges
<1>4. Spawned BY <1>1, <1>2, BoundAssumption DEF Init, Spawned, Gen
<1>5. OneSidecar BY <1>1, <1>2 DEF OneSidecar, Alive
<1>6. NoneLeftBehind BY DEF Init, NoneLeftBehind
<1> QED BY <1>1, <1>2, <1>3, <1>4, <1>5, <1>6 DEF IInv

(* A step of one process, taken while it lives, that keeps it in order. *)
LEMMA ProcessStep ==
  ASSUME IInv, NEW g \in Gen, NEW q \in Process,
         Alive(g), q.main # "none", Local(q),
         side' = [side EXCEPT ![g] = q], UNCHANGED hostVars
  PROVE  IInv'
<1>1. TypeOK' BY DEF IInv, TypeOK, hostVars
<1>2. \A h \in Gen : Local(side[h])'
  BY DEF IInv, TypeOK, Local
<1>3. Spawned' BY DEF IInv, TypeOK, Spawned, Alive, hostVars
<1>4. \A h \in Gen : Alive(h)' => Alive(h)
  BY DEF IInv, TypeOK, Alive
<1>5. OneSidecar' BY <1>4 DEF IInv, OneSidecar, HostUp, hostVars
<1>6. child \in Gen \/ child = 0 BY BoundAssumption DEF IInv, TypeOK, Gen
<1>7. NoneLeftBehind' BY <1>4, <1>6 DEF IInv, NoneLeftBehind, HostUp, hostVars
<1> QED BY <1>1, <1>2, <1>3, <1>5, <1>7 DEF IInv

(* A process that is killed is in order. *)
LEMMA DeadIsLocal ==
  ASSUME NEW p \in Process, Local(p)
  PROVE  Dead(p) \in Process /\ Local(Dead(p)) /\ Dead(p).main = "dead"
BY DEF Dead, Local, Process, Main, Monitor

LEMMA SignalledIsLocal ==
  ASSUME NEW p \in Process, Local(p), p.main # "none"
  PROVE  Signalled(p) \in Process /\ Local(Signalled(p)) /\ Signalled(p).main # "none"
<1>1. CASE p.main = "booting" BY <1>1, DeadIsLocal DEF Signalled
<1>2. CASE p.main # "booting" BY <1>2 DEF Signalled, Local, Process
<1> QED BY <1>1, <1>2

-----------------------------------------------------------------------------
(* Every step of a main thread. *)
LEMMA MainStep ==
  ASSUME IInv, NEW g \in Gen, MainThread(g) PROVE IInv'
<1> DEFINE p == side[g]
<1>1. p \in Process /\ Local(p) BY DEF IInv, TypeOK
<1>2. UNCHANGED hostVars
  BY DEF MainThread, Boot, Serve, StartFails, StartMonitor, WaitTimesOut, Told, HostSeen, HostGone,
         CheckRaises, Halt, Join, JoinTimesOut, MarkNotReady, StopServer, EndProcess
<1>3. SUFFICES \E q \in Process : Alive(g) /\ q.main # "none" /\ Local(q)
                                   /\ side' = [side EXCEPT ![g] = q]
  BY <1>2, ProcessStep
<1>4. CASE Boot(g)
  BY <1>1, <1>4 DEF Boot, Goto, Alive, Local, Process, Main
<1>5. CASE Serve(g)
  <2> DEFINE q == [p EXCEPT !.main = "monitoring", !.mcp = TRUE]
  <2> QED BY <1>1, <1>5 DEF Serve, Alive, Local, Process, Main
<1>6. CASE StartFails(g)
  BY <1>1, <1>6 DEF StartFails, Alive, Local, Process, Main
<1>7. CASE StartMonitor(g)
  BY <1>1, <1>7 DEF StartMonitor, Alive, Local, Process, Main, Monitor
<1>8. CASE WaitTimesOut(g) \/ Told(g) \/ HostSeen(g) \/ HostGone(g) \/ CheckRaises(g)
  BY <1>1, <1>8 DEF WaitTimesOut, Told, HostSeen, HostGone, CheckRaises, Goto, Alive, Local,
                     Process, Main
<1>9. CASE Halt(g)
  BY <1>1, <1>9 DEF Halt, Alive, Local, Process, Main
<1>10. CASE Join(g)
  BY <1>1, <1>10 DEF Join, Goto, Alive, Local, Process, Main
<1>11. CASE JoinTimesOut(g)
  BY <1>1, <1>11 DEF JoinTimesOut, Alive, Local, Process, Main
<1>12. CASE MarkNotReady(g)
  BY <1>1, <1>12 DEF MarkNotReady, Alive, Local, Process, Main
<1>13. CASE StopServer(g)
  BY <1>1, <1>13 DEF StopServer, Alive, Local, Process, Main
<1>14. CASE EndProcess(g)
  BY <1>1, <1>14, DeadIsLocal DEF EndProcess, Alive
<1> QED
  BY <1>4, <1>5, <1>6, <1>7, <1>8, <1>9, <1>10, <1>11, <1>12, <1>13, <1>14 DEF MainThread

(* Every step of a monitor thread. *)
LEMMA MonitorStep ==
  ASSUME IInv, NEW g \in Gen, MonitorThread(g) PROVE IInv'
<1> DEFINE p == side[g]
<1>1. p \in Process /\ Local(p) BY DEF IInv, TypeOK
<1>2. Alive(g) /\ UNCHANGED hostVars
  BY DEF MonitorThread, MonitorStops, Probe, ProbeAnswered, ProbeFails, MarkReady, Step
<1>3. SUFFICES \E q \in Process : q.main # "none" /\ Local(q) /\ side' = [side EXCEPT ![g] = q]
  BY <1>2, ProcessStep
<1>4. CASE MonitorStops(g)
  BY <1>1, <1>2, <1>4 DEF MonitorStops, Step, Alive, Local, Process, Monitor
<1>5. CASE Probe(g)
  BY <1>1, <1>2, <1>5 DEF Probe, MayProbe, Alive, Local, Process, Monitor
<1>6. CASE ProbeAnswered(g)
  BY <1>1, <1>2, <1>6 DEF ProbeAnswered, Alive, Local, Process, Monitor
<1>7. CASE ProbeFails(g)
  BY <1>1, <1>2, <1>7 DEF ProbeFails, AfterFailure, Step, Alive, Local, Process, Monitor
<1>8. CASE MarkReady(g)
  BY <1>1, <1>2, <1>8 DEF MarkReady, Alive, Local, Process, Monitor
<1> QED BY <1>4, <1>5, <1>6, <1>7, <1>8 DEF MonitorThread

LEMMA SignalStep ==
  ASSUME IInv, NEW g \in Gen, Signal(g) PROVE IInv'
BY SignalledIsLocal, ProcessStep DEF Signal, IInv, TypeOK, Alive, hostVars

-----------------------------------------------------------------------------
(* SketchUp's steps. *)

(* Start spawns a process beside none that lives. *)
LEMMA StartStep == ASSUME IInv, Start PROVE IInv'
<1> DEFINE n == starts + 1
<1>1. n \in Gen /\ starts' = n /\ child' = n /\ open' = n /\ UNCHANGED <<pid, ui, quit>>
  BY BoundAssumption DEF Start, IInv, TypeOK, Gen
<1>2. side' = [side EXCEPT ![n] = [side[n] EXCEPT !.main = "booting"]]
  BY DEF Start
<1>3. side[n] \in Process /\ Local(side[n]) /\ side[n].main = "none"
  BY <1>1 DEF IInv, TypeOK, Spawned, Gen
<1>4. \A g \in Gen : ~Alive(g)
  BY BoundAssumption DEF Start, Running, IInv, TypeOK, OneSidecar, NoneLeftBehind, HostUp, Gen
<1>5. TypeOK' BY <1>1, <1>2, <1>3 DEF IInv, TypeOK, Process, Main, Gen
<1>6. \A g \in Gen : Local(side[g])' BY <1>2, <1>3 DEF IInv, TypeOK, Local, Process
<1>7. Spawned' BY <1>1, <1>2, <1>3 DEF IInv, TypeOK, Spawned, Process, Gen
<1>8. OneSidecar' BY <1>1, <1>2, <1>4 DEF IInv, TypeOK, OneSidecar, Alive
<1>9. NoneLeftBehind' BY <1>1 DEF IInv, TypeOK, NoneLeftBehind
<1> QED BY <1>5, <1>6, <1>7, <1>8, <1>9 DEF IInv

(* stop signals the child, or forgets one that is gone. *)
LEMMA StopStep == ASSUME IInv, Stop PROVE IInv'
<1>1. PICK windows \in BOOLEAN : Close(windows) /\ quit' \in BOOLEAN
  BY DEF Stop
<1>2. UNCHANGED <<pid, starts>> /\ open' = 0 /\ HostUp /\ ui = "idle" BY <1>1 DEF Stop, Close
<1>3. CASE child # 0 /\ Alive(child)
  <2> DEFINE q == IF windows THEN Dead(side[child]) ELSE Signalled(side[child])
  <2>1. child \in Gen /\ side[child] \in Process /\ Local(side[child]) /\ side[child].main # "none"
    BY <1>3, BoundAssumption DEF IInv, TypeOK, Gen, Alive
  <2>2. ui' = "terminating" /\ child' = child /\ side' = [side EXCEPT ![child] = q]
    BY <1>1, <1>3 DEF Close
  <2>3. q \in Process /\ Local(q) /\ q.main # "none" BY <2>1, DeadIsLocal, SignalledIsLocal
  <2>4. TypeOK'
    <3>1. quit' \in BOOLEAN BY <1>1 DEF IInv, TypeOK
    <3>2. (side \in [Gen -> Process])' BY <1>2, <2>2, <2>3 DEF IInv, TypeOK
    <3>3. Ranges' BY BoundAssumption, <1>2, <2>2, <2>3 DEF IInv, TypeOK, Ranges
    <3> QED BY <3>1, <3>2, <3>3 DEF TypeOK, Ranges
  <2>5. \A g \in Gen : Local(side[g])' BY <2>2, <2>3 DEF IInv, TypeOK, Local
  <2>6. Spawned' BY <1>2, <2>1, <2>2, <2>3 DEF IInv, TypeOK, Spawned
  <2>7. \A g \in Gen : Alive(g)' => Alive(g) BY <1>3, <2>1, <2>2 DEF IInv, TypeOK, Alive
  <2>8. OneSidecar' BY <1>2, <2>2, <2>7 DEF IInv, OneSidecar, HostUp
  <2>9. NoneLeftBehind' BY <2>2 DEF NoneLeftBehind
  <2> QED BY <2>4, <2>5, <2>6, <2>8, <2>9 DEF IInv
<1>4. CASE ~(child # 0 /\ Alive(child))
  <2>1. child' = 0 /\ UNCHANGED <<ui, side>> BY <1>1, <1>4 DEF Close
  <2>2. \A g \in Gen : ~Alive(g) BY <1>2, <1>4, BoundAssumption DEF IInv, OneSidecar, Gen
  <2>3. TypeOK' BY <1>1, <1>2, <2>1 DEF IInv, TypeOK
  <2>4. OneSidecar' BY <2>1, <2>2 DEF OneSidecar, Alive
  <2>5. NoneLeftBehind' BY <2>1 DEF NoneLeftBehind
  <2> QED BY <1>2, <2>1, <2>3, <2>4, <2>5 DEF IInv, Spawned, Local
<1> QED BY <1>3, <1>4

(* The child is gone when the runtime forgets it, or is killed first. *)
LEMMA ForgetStep ==
  ASSUME IInv, ChildGone \/ KillChild \/ CheckChildLiveness PROVE IInv'
<1>1. CASE ChildGone \/ CheckChildLiveness
  <2>1. child' = 0 /\ side' = side /\ UNCHANGED <<pid, quit, starts, open>> /\ ui' = "idle"
        /\ HostUp /\ ~Alive(child)
    BY <1>1 DEF ChildGone, CheckChildLiveness
  <2>2. \A g \in Gen : ~Alive(g) BY <2>1 DEF IInv, OneSidecar
  <2>3. TypeOK' BY <2>1 DEF IInv, TypeOK
  <2>4. OneSidecar' /\ NoneLeftBehind' BY <2>1, <2>2 DEF OneSidecar, NoneLeftBehind, Alive
  <2> QED BY <2>1, <2>3, <2>4 DEF IInv, Spawned, Local
<1>2. CASE KillChild
  <2>1. child' = 0 /\ UNCHANGED <<pid, quit, starts, open>> /\ ui' = "idle"
        /\ HostUp /\ Alive(child) /\ side' = [side EXCEPT ![child] = Dead(side[child])]
    BY <1>2 DEF KillChild, Killed
  <2>2. CASE child \in Gen
    <3>1. side[child] \in Process /\ Local(side[child]) BY <2>2 DEF IInv, TypeOK
    <3>2. Dead(side[child]) \in Process /\ Local(Dead(side[child]))
          /\ Dead(side[child]).main = "dead"
      BY <3>1, DeadIsLocal
    <3>3. TypeOK'
      <4>1. quit' \in BOOLEAN BY <2>1 DEF IInv, TypeOK
      <4>2. (side \in [Gen -> Process])' BY <2>1, <3>2 DEF IInv, TypeOK
      <4>3. Ranges' BY BoundAssumption, <2>1, <3>2 DEF IInv, TypeOK, Ranges
      <4> QED BY <4>1, <4>2, <4>3 DEF TypeOK, Ranges
    <3>4. \A g \in Gen : Local(side[g])' BY <2>1, <3>2 DEF IInv, TypeOK, Local
    <3>5. Spawned' BY <2>1, <2>2, <3>2 DEF IInv, TypeOK, Spawned, Alive
    <3>6. \A g \in Gen : ~Alive(g)' BY <2>1, <2>2, <3>2 DEF IInv, TypeOK, OneSidecar, Alive
    <3> QED BY <2>1, <3>3, <3>4, <3>5, <3>6 DEF IInv, OneSidecar, NoneLeftBehind
  <2>3. CASE child \notin Gen
    <3>1. side' = side BY <2>1, <2>3 DEF IInv, TypeOK
    <3>2. \A g \in Gen : ~Alive(g) BY <2>1, <2>3 DEF IInv, OneSidecar
    <3>3. TypeOK'
      <4>1. quit' \in BOOLEAN BY <2>1 DEF IInv, TypeOK
      <4>2. (side \in [Gen -> Process])' BY <2>1, <3>1 DEF IInv, TypeOK
      <4>3. Ranges' BY BoundAssumption, <2>1, <3>1 DEF IInv, TypeOK, Ranges
      <4> QED BY <4>1, <4>2, <4>3 DEF TypeOK, Ranges
    <3>4. OneSidecar' /\ NoneLeftBehind' BY <2>1, <3>1, <3>2 DEF OneSidecar, NoneLeftBehind, Alive
    <3> QED BY <2>1, <3>1, <3>3, <3>4 DEF IInv, Spawned, Local
  <2> QED BY <2>2, <2>3
<1> QED BY <1>1, <1>2

(* SketchUp quits, exits or crashes, its pid is given away, nothing happens. *)
LEMMA OtherStep ==
  ASSUME IInv, Quit \/ Exit \/ Crash \/ PidReused \/ PidFreed \/ Over \/ UNCHANGED vars PROVE IInv'
<1>1. side' = side /\ child' = child /\ starts' = starts
      /\ (HostUp' => HostUp /\ ui' = ui /\ open' = open)
  BY DEF Quit, Exit, Crash, PidReused, PidFreed, Over, vars, hostVars, HostUp
<1>2. TypeOK'
  <2>1. quit' \in BOOLEAN
    BY DEF IInv, TypeOK, Quit, Exit, Crash, PidReused, PidFreed, Over, vars, hostVars
  <2>2. Ranges'
    BY BoundAssumption
       DEF IInv, TypeOK, Ranges, Quit, Exit, Crash, PidReused, PidFreed, Over, vars, hostVars
  <2>3. (side \in [Gen -> Process])' BY <1>1 DEF IInv, TypeOK
  <2> QED BY <2>1, <2>2, <2>3 DEF TypeOK, Ranges
<1>3. OneSidecar' /\ NoneLeftBehind' BY <1>1 DEF IInv, OneSidecar, NoneLeftBehind, Alive
<1> QED BY <1>1, <1>2, <1>3 DEF IInv, Spawned, Local

LEMMA NextInv == IInv /\ [Next]_vars => IInv'
BY MainStep, MonitorStep, SignalStep, StartStep, StopStep, ForgetStep, OtherStep DEF Next, Host

LEMMA SafeInv == Safe => []IInv
BY InitInv, NextInv, PTL DEF Safe

LEMMA Promises == IInv => TypeOK /\ OneSidecar /\ ReadyIsEarned
BY DEF IInv, Local, ReadyIsEarned

-----------------------------------------------------------------------------
(* Every variable of the sidecar and of its host keeps its type. *)
THEOREM TypeCorrect == Safe => []TypeOK
BY SafeInv, Promises, PTL

(* Whatever stop, quit, start, signals and deaths of sidecars meet, and    *)
(* however often SketchUp's runtime is started, no second sidecar lives    *)
(* beside the one the runtime knows.                                       *)
THEOREM OneSidecarAlways == Safe => []OneSidecar
BY SafeInv, Promises, PTL

(* Ready is never reported without an answer of the bridge, and the join   *)
(* that times out is the only way to report it after stop took it back.    *)
THEOREM ReadyIsEvidence == Safe => []ReadyIsEarned
BY SafeInv, Promises, PTL

=============================================================================
