---------------------------- MODULE BridgeProofs ----------------------------
(***************************************************************************)
(* The safety of the bridge, then of the bridge with its clients, for any  *)
(* set of connections, any deadlines and any caps.                         *)
(*                                                                         *)
(* The inductive invariant of the bridge relates, for each connection, its *)
(* phase, the request queue, what the host ran and what was replied.  It   *)
(* is kept in the composition, because a client's steps are steps of Next, *)
(* and carries what each client knows, and with it the refinement of       *)
(* CommandCalls.                                                           *)
(***************************************************************************)
EXTENDS BridgeSystem, FiniteSetTheorems, TLAPS

(* How far a connection is decides what the host can have done for it. *)
History(c) ==
  /\ ran[c] <= 1
  /\ Queued(c) => ran[c] = 0
  /\ conn[c].phase \in {"none", "backlog", "reading"} => ran[c] = 0 /\ ~Queued(c)
  /\ conn[c].phase \in {"none", "backlog", "reading", "waiting"} => conn[c].reply = "none"
  /\ conn[c].phase = "waiting" /\ ~Queued(c) => ran[c] = 1 \/ conn[c].response = "expired"
  /\ conn[c].response # "none" => conn[c].phase = "waiting" /\ ~Queued(c)
  /\ conn[c].response = "expired" => ran[c] = 0
  /\ conn[c].response \notin {"none", "expired"} => ran[c] = 1
  /\ conn[c].reply \in {"answer", "response_too_large"} => ran[c] = 1
  /\ conn[c].reply \in {"busy", "invalid_request"} => ran[c] = 0
  /\ conn[c].reply \in {"busy", "invalid_request", "host_error"} => ~Queued(c)

HistoryInv == \A c \in Conn : History(c)

(* A queued request and the connection that waits for it share a deadline. *)
DueInv ==
  \A r \in queue :
    /\ conn[r.conn].phase = "waiting" => conn[r.conn].due = r.due
    /\ conn[r.conn].reply = "timed_out" => r.due <= 0

(* Nothing is ready when connections expire. *)
OutboxInv == pc = "expire" => Ready = {}

IInv == TypeOK /\ HistoryInv /\ DueInv /\ OutboxInv /\ StoppedIsQuiet /\ ConnectionCap

-----------------------------------------------------------------------------
(* Types.                                                                  *)

LEMMA FreshType ==
  ASSUME NEW p \in Phase
  PROVE  /\ Fresh(p) \in ConnectionState
         /\ Fresh(p).phase = p /\ Fresh(p).response = "none" /\ Fresh(p).reply = "none"
BY DEF Fresh, ConnectionState, Frame

LEMMA AnsweredType ==
  ASSUME NEW s \in ConnectionState, NEW code \in Reply
  PROVE  /\ Answered(s, code) \in ConnectionState
         /\ Answered(s, code).phase = "writing" /\ Answered(s, code).response = "none"
         /\ Answered(s, code).reply = code
BY TtlAssumption DEF Answered, ConnectionState, Phase, Frame

LEMMA ExpiredType ==
  ASSUME NEW s \in ConnectionState
  PROVE  /\ Expired(s) \in ConnectionState
         /\ \/ Expired(s) = s /\ ~(s.phase = "waiting" /\ s.due <= 0)
            \/ /\ s.phase = "waiting" /\ s.due <= 0
               /\ Expired(s) = Answered(s, "timed_out")
            \/ s.phase \in Live \ {"waiting"} /\ Expired(s) = Fresh("closed")
<1>1. "timed_out" \in Reply /\ "closed" \in Phase
  BY DEF Reply, Phase
<1>2. Answered(s, "timed_out") \in ConnectionState /\ Fresh("closed") \in ConnectionState
  BY <1>1, AnsweredType, FreshType
<1> QED BY <1>2 DEF Expired

LEMMA StateTypes ==
  ASSUME NEW s \in ConnectionState
  PROVE  /\ Accepted(s) \in ConnectionState
         /\ HalfClosed(s) \in ConnectionState
         /\ \A due \in Nat \cup {-1} : Awaiting(s, due) \in ConnectionState
BY TtlAssumption DEF Accepted, HalfClosed, Awaiting, ConnectionState, Phase, Frame

LEMMA TypeInit == Init => TypeOK
<1> SUFFICES ASSUME Init PROVE TypeOK
  OBVIOUS
<1>1. conn \in [Conn -> ConnectionState]
  BY FreshType DEF Init, Phase
<1>2. on \in BOOLEAN /\ quit \in BOOLEAN
  BY Zenon DEF Init
<1> QED BY <1>1, <1>2 DEF Init, TypeOK

(* The part of the type invariant that is about connections. *)
LEMMA CloseAllType ==
  ASSUME TypeOK, CloseAll
  PROVE  conn' \in [Conn -> ConnectionState]
BY FreshType DEF CloseAll, TypeOK, Phase

LEMMA OneConnType ==
  ASSUME TypeOK, NEW c \in Conn, NEW s \in ConnectionState, conn' = [conn EXCEPT ![c] = s]
  PROVE  conn' \in [Conn -> ConnectionState]
BY DEF TypeOK

LEMMA TickType ==
  ASSUME TypeOK, Tick
  PROVE  TypeOK'
<1>1. \A s \in ConnectionState :
        [s EXCEPT !.ttl = TickTtl(s), !.due = TickDue(s)] \in ConnectionState
  <2> SUFFICES ASSUME NEW s \in ConnectionState
               PROVE  [s EXCEPT !.ttl = TickTtl(s), !.due = TickDue(s)] \in ConnectionState
    OBVIOUS
  <2>1. s.ttl \in Nat /\ s.due \in Nat \cup {-1}
    BY DEF ConnectionState
  <2>2. TickTtl(s) \in Nat /\ TickDue(s) \in Nat \cup {-1}
    BY <2>1 DEF TickTtl, TickDue
  <2> QED BY <2>2 DEF ConnectionState
<1>2. conn' \in [Conn -> ConnectionState]
  BY <1>1 DEF Tick, TypeOK
<1>3. \A r \in Request : TickRequest(r) \in Request
  BY DEF Request, TickRequest
<1>4. queue' \subseteq Request /\ \A q, r \in queue' : q = r
  BY <1>3 DEF Tick, TypeOK
<1> QED BY <1>2, <1>4 DEF Tick, TypeOK, lifeVars, pollVars

LEMMA TypeStep == TypeOK /\ [Next]_vars => TypeOK'
<1> SUFFICES ASSUME TypeOK, [Next]_vars PROVE TypeOK'
  OBVIOUS
<1> USE DEF lifeVars, pollVars, Goto, Abort
<1>1. CASE \E c \in Conn : Client(c)
  <2>1. PICK c \in Conn : Client(c)
    BY <1>1
  <2>2. conn[c] \in ConnectionState
    BY DEF TypeOK
  <2>3. CASE Connect(c)
    BY <2>3, FreshType, OneConnType DEF Connect, TypeOK, Phase
  <2>4. CASE HangUp(c)
    <3>1. [conn[c] EXCEPT !.gone = TRUE] \in ConnectionState
      BY <2>2 DEF ConnectionState
    <3> QED BY <2>4, <3>1, OneConnType DEF HangUp, TypeOK
  <2>5. ASSUME NEW f \in Sent, NEW d \in SuppliedTtl, Send(c, f, d) PROVE TypeOK'
    <3>1. [conn[c] EXCEPT !.frame = f, !.due = IF f = "cmd" THEN d ELSE 0] \in ConnectionState
      BY <2>2, SentAssumption, TtlAssumption DEF ConnectionState
    <3> QED BY <2>5, <3>1, OneConnType DEF Send, TypeOK
  <2> QED BY <2>1, <2>3, <2>4, <2>5 DEF Client
<1>2. CASE Tick
  BY <1>2, TickType
<1>3. CASE ChildExit
  BY <1>3 DEF ChildExit, TypeOK
<1>4. CASE Stop
  BY <1>4, CloseAllType DEF Stop, TypeOK
<1>5. CASE OnQuit
  BY <1>5, CloseAllType DEF OnQuit, TypeOK
<1>6. CASE Start
  <2>1. conn' \in [Conn -> ConnectionState]
    BY <1>6, CloseAllType DEF Start
  <2>2. on' \in BOOLEAN /\ child' \in {"nil", "live"} /\ starts' = starts + 1
    BY <1>6 DEF Start
  <2>3. UNCHANGED <<quit, pc, pass, todo, queue, ran, faults>>
    BY <1>6 DEF Start
  <2> QED BY <2>1, <2>2, <2>3 DEF TypeOK
<1>7. CASE BeginPoll
  BY <1>7 DEF BeginPoll, TypeOK
<1>8. CASE \E c \in Conn : PumpResponse(c)
  <2>1. PICK c \in Conn : PumpResponse(c)
    BY <1>8
  <2>2. conn[c] \in ConnectionState /\ conn[c].response # "none"
    BY <2>1 DEF TypeOK, PumpResponse, Ready, InPhase
  <2>3. conn[c].response # "unencodable" => PayloadCode(conn[c].response) \in Reply
    BY <2>2 DEF ConnectionState, PayloadCode, Response, Reply
  <2>4. [conn[c] EXCEPT !.response = "none"] \in ConnectionState
    BY <2>2 DEF ConnectionState
  <2>5. conn' \in [Conn -> ConnectionState]
    BY <2>1, <2>2, <2>3, <2>4, AnsweredType, OneConnType DEF PumpResponse, QueueResponse
  <2> QED BY <2>1, <2>5 DEF PumpResponse, TypeOK
<1>9. CASE OutboxDone
  BY <1>9 DEF OutboxDone, TypeOK
<1>10. CASE ExpireConnections
  BY <1>10, ExpiredType DEF ExpireConnections, TypeOK
<1>11. CASE SelectSockets
  <2>1. conn' \in [Conn -> ConnectionState]
    BY <1>11, StateTypes DEF SelectSockets, TypeOK
  <2>2. pc' = "io" /\ pass' = pass /\ todo' \subseteq Conn
    BY <1>11 DEF SelectSockets, Selected
  <2>3. UNCHANGED <<on, quit, child, starts, queue, ran, faults>>
    BY <1>11 DEF SelectSockets
  <2> QED BY <2>1, <2>2, <2>3 DEF TypeOK
<1>12. CASE AcceptFails
  BY <1>12 DEF AcceptFails, TypeOK
<1>13. CASE \E c \in Conn : Socket(c)
  <2>1. PICK c \in Conn : Socket(c)
    BY <1>13
  <2>2. conn[c] \in ConnectionState
    BY DEF TypeOK
  <2>3. "closed" \in Phase /\ {"busy", "invalid_request"} \subseteq Reply
    BY DEF Phase, Reply
  <2>4. todo' \subseteq Conn /\ pc' = pc /\ pass' = pass
    BY <2>1 DEF Socket, ProcessRequest, ReadEof, RejectFrame, Enqueue, RejectBusy, Write, ConsumePeerClose, Turn,
                TypeOK
  <2>5. UNCHANGED <<lifeVars, ran, faults>>
    BY <2>1 DEF Socket, ProcessRequest, ReadEof, RejectFrame, Enqueue, RejectBusy, Write, ConsumePeerClose
  <2>6. CASE ~Enqueue(c)
    <3>1. conn' \in [Conn -> ConnectionState]
      <4>1. CASE ReadEof(c) \/ ConsumePeerClose(c)
        BY <2>3, <4>1, FreshType, OneConnType DEF ReadEof, ConsumePeerClose, Close
      <4>2. CASE RejectFrame(c) \/ RejectBusy(c)
        BY <2>2, <2>3, <4>2, FreshType, AnsweredType, OneConnType
           DEF RejectFrame, RejectBusy, Close, QueueResponse
      <4>3. CASE Write(c)
        BY <2>2, <2>3, <4>3, FreshType, StateTypes, OneConnType DEF Write, Close, TypeOK
      <4> QED BY <2>1, <2>6, <4>1, <4>2, <4>3 DEF Socket, ProcessRequest
    <3>2. queue' = queue
      BY <2>1, <2>6 DEF Socket, ProcessRequest, ReadEof, RejectFrame, RejectBusy, Write, ConsumePeerClose
    <3> QED BY <2>4, <2>5, <3>1, <3>2 DEF TypeOK
  <2>7. CASE Enqueue(c)
    <3> DEFINE timed == conn[c].frame = "cmd"
               due   == IF timed THEN conn[c].due ELSE UntimedTtl
    <3>1. due \in Nat \cup {-1}
      BY <2>2, TtlAssumption DEF ConnectionState
    <3>2. [conn |-> c, timed |-> timed, due |-> due] \in Request
      BY <3>1 DEF Request
    <3>3. queue' = {[conn |-> c, timed |-> timed, due |-> due]}
      BY <2>7 DEF Enqueue, QueueHasRoom
    <3>4. Awaiting(conn[c], due) \in ConnectionState
      BY <2>2, <3>1, StateTypes
    <3>5. conn' \in [Conn -> ConnectionState]
      BY <2>7, <3>4, OneConnType DEF Enqueue
    <3> QED BY <2>4, <2>5, <3>2, <3>3, <3>5 DEF TypeOK
  <2> QED BY <2>6, <2>7
<1>14. CASE IoDone
  BY <1>14 DEF IoDone, AfterIo, TypeOK
<1>15. CASE \E r \in queue : ExecuteRequest(r)
  <2>1. PICK r \in queue : ExecuteRequest(r)
    BY <1>15
  <2>2. r \in Request /\ r.conn \in Conn
    BY DEF TypeOK, Request
  <2>3. PICK resp \in Response : Push(r, resp)
    BY <2>1 DEF ExecuteRequest
  <2>4. conn[r.conn] \in ConnectionState
    BY <2>2 DEF TypeOK
  <2>5. [conn[r.conn] EXCEPT !.response = IF conn[r.conn].phase = "waiting" THEN resp ELSE @]
          \in ConnectionState
    BY <2>4 DEF ConnectionState
  <2>6. conn' \in [Conn -> ConnectionState]
    BY <2>2, <2>3, <2>5, OneConnType DEF Push
  <2>7. ran' \in [Conn -> Nat]
    BY <2>1, <2>2 DEF ExecuteRequest, TypeOK
  <2>8. queue' \subseteq queue
    BY <2>1 DEF ExecuteRequest, Pop
  <2> QED BY <2>1, <2>6, <2>7, <2>8 DEF ExecuteRequest, AfterExec, TypeOK
<1>16. CASE NothingToExecute
  BY <1>16 DEF NothingToExecute, AfterExec, TypeOK
<1>17. CASE CheckChildLiveness
  BY <1>17 DEF CheckChildLiveness, ChildSeen, TypeOK
<1>18. CASE UNCHANGED vars
  BY <1>18 DEF vars, TypeOK
<1> QED
  BY <1>1, <1>2, <1>3, <1>4, <1>5, <1>6, <1>7, <1>8, <1>9, <1>10, <1>11, <1>12, <1>13,
     <1>14, <1>15, <1>16, <1>17, <1>18 DEF Next, Poll

(* The state is well formed, and the request queue never holds two. *)
THEOREM TypeCorrect == Spec => []TypeOK
<1> QED BY TypeInit, TypeStep, PTL DEF Spec

-----------------------------------------------------------------------------
(* What the host ran, and what was said about it.                          *)

(* The step says nothing new about the connection. *)
Quiet(c) ==
  /\ conn'[c].phase = conn[c].phase
  /\ conn'[c].response = conn[c].response /\ conn'[c].reply = conn[c].reply
  /\ ran'[c] = ran[c]
  /\ Queued(c)' <=> Queued(c)

LEMMA QuietHistory ==
  ASSUME NEW c \in Conn, History(c), Quiet(c)
  PROVE  History(c)'
BY DEF History, Quiet

(* A connection may be closed at any time: closing claims nothing. *)
LEMMA ClosedHistory ==
  ASSUME NEW c \in Conn, History(c), conn'[c] = Fresh("closed"), ran'[c] = ran[c],
         Queued(c)' => Queued(c)
  PROVE  History(c)'
<1>1. "closed" \in Phase
  BY DEF Phase
<1> QED BY <1>1, FreshType DEF History

(* A reply is right when it claims what is true. *)
LEMMA AnsweredHistory ==
  ASSUME NEW c \in Conn, History(c), conn[c] \in ConnectionState, NEW code \in Reply,
         conn'[c] = Answered(conn[c], code), ran'[c] = ran[c], Queued(c)' <=> Queued(c),
         code \in {"answer", "response_too_large"} => ran[c] = 1,
         code \in {"busy", "invalid_request"} => ran[c] = 0,
         code \in {"busy", "invalid_request", "host_error"} => ~Queued(c)
  PROVE  History(c)'
BY AnsweredType DEF History

LEMMA TickQueued ==
  ASSUME TypeOK, Tick, NEW c
  PROVE  Queued(c)' <=> Queued(c)
<1>1. \A r \in queue : TickRequest(r).conn = r.conn
  BY DEF TypeOK, Request, TickRequest
<1> QED BY <1>1 DEF Tick, Queued

LEMMA SameQueued ==
  ASSUME queue' = queue, NEW c
  PROVE  Queued(c)' <=> Queued(c)
BY DEF Queued

LEMMA HistoryStep ==
  ASSUME TypeOK, HistoryInv, [Next]_vars
  PROVE  HistoryInv'
<1> SUFFICES ASSUME NEW x \in Conn PROVE History(x)'
  BY DEF HistoryInv
<1>h. History(x) /\ conn[x] \in ConnectionState
  BY DEF HistoryInv, TypeOK
<1>1. CASE \E c \in Conn : Client(c)
  <2>1. PICK c \in Conn : Client(c)
    BY <1>1
  <2>2. queue' = queue /\ ran' = ran /\ conn \in [Conn -> ConnectionState]
    BY <2>1 DEF Client, Connect, Send, HangUp, TypeOK
  <2>3. CASE x # c
    <3>1. conn'[x] = conn[x]
      BY <2>1, <2>2, <2>3 DEF Client, Connect, Send, HangUp
    <3> QED BY <1>h, <2>2, <3>1, SameQueued, QuietHistory DEF Quiet
  <2>4. CASE x = c /\ Connect(c)
    <3>1. conn'[x] = Fresh("backlog") /\ conn[x].phase = "none" /\ "backlog" \in Phase
      BY <2>2, <2>4 DEF Connect, Phase
    <3> QED BY <1>h, <2>2, <3>1, FreshType, SameQueued DEF History
  <2>5. CASE x = c /\ ~Connect(c)
    <3>1. /\ conn'[x].phase = conn[x].phase /\ conn'[x].response = conn[x].response
          /\ conn'[x].reply = conn[x].reply
      <4>1. CASE HangUp(c)
        BY <2>2, <2>5, <4>1, <1>h DEF HangUp, ConnectionState
      <4>2. ASSUME NEW f \in Sent, NEW d \in SuppliedTtl, Send(c, f, d)
            PROVE  /\ conn'[x].phase = conn[x].phase /\ conn'[x].response = conn[x].response
                   /\ conn'[x].reply = conn[x].reply
        BY <2>2, <2>5, <4>2, <1>h DEF Send, ConnectionState
      <4> QED BY <2>1, <2>5, <4>1, <4>2 DEF Client
    <3> QED BY <1>h, <2>2, <3>1, SameQueued, QuietHistory DEF Quiet
  <2> QED BY <2>3, <2>4, <2>5
<1>2. CASE Tick
  <2>1. /\ conn'[x].phase = conn[x].phase /\ conn'[x].response = conn[x].response
        /\ conn'[x].reply = conn[x].reply /\ ran' = ran
    BY <1>2, <1>h DEF Tick, ConnectionState
  <2>2. Quiet(x)
    BY <1>2, <2>1, TickQueued DEF Quiet
  <2> QED BY <1>h, <2>2, QuietHistory
<1>3. CASE Stop \/ OnQuit \/ Start
  <2>1. ran' = ran /\ (queue' = queue \/ queue' = {})
    BY <1>3 DEF Stop, OnQuit, Start
  <2>2. Queued(x)' => Queued(x)
    BY <2>1 DEF Queued
  <2>3. conn'[x] = Fresh("closed") \/ (conn[x].phase = "none" /\ conn'[x] = conn[x])
    BY <1>3 DEF Stop, OnQuit, Start, CloseAll
  <2>4. CASE conn'[x] = Fresh("closed")
    BY <1>h, <2>1, <2>2, <2>4, ClosedHistory
  <2>5. CASE conn[x].phase = "none" /\ conn'[x] = conn[x]
    <3>1. ~Queued(x)
      BY <1>h, <2>5 DEF History
    <3> QED BY <1>h, <2>1, <2>2, <2>5, <3>1, QuietHistory DEF Quiet
  <2> QED BY <2>3, <2>4, <2>5
<1>4. CASE \E c \in Conn : PumpResponse(c)
  <2>1. PICK c \in Conn : PumpResponse(c)
    BY <1>4
  <2>2. /\ queue' = queue /\ ran' = ran /\ conn \in [Conn -> ConnectionState]
        /\ conn[c].response # "none" /\ conn[c].phase = "waiting"
    BY <2>1 DEF PumpResponse, TypeOK, Ready, InPhase
  <2>3. CASE x # c
    <3>1. conn'[x] = conn[x]
      BY <2>1, <2>2, <2>3 DEF PumpResponse, QueueResponse
    <3> QED BY <1>h, <2>2, <3>1, SameQueued, QuietHistory DEF Quiet
  <2>4. CASE x = c /\ conn[c].response # "unencodable"
    <3>1. conn'[x] = Answered(conn[x], PayloadCode(conn[x].response))
      BY <2>1, <2>2, <2>4 DEF PumpResponse, QueueResponse
    <3>2. conn[x].response \in {"answer", "failed", "too_large", "expired"}
      BY <1>h, <2>2, <2>4 DEF ConnectionState, Response
    <3>3. /\ PayloadCode(conn[x].response) \in Reply
          /\ PayloadCode(conn[x].response) \in {"answer", "response_too_large"} => ran[x] = 1
          /\ PayloadCode(conn[x].response) \notin {"busy", "invalid_request"} /\ ~Queued(x)
      BY <1>h, <2>2, <3>2 DEF History, PayloadCode, Reply
    <3> QED BY <1>h, <2>2, <3>1, <3>3, AnsweredHistory, SameQueued
  <2>5. CASE x = c /\ conn[c].response = "unencodable"
    <3>1. /\ conn'[x].phase = conn[x].phase /\ conn'[x].response = "none"
          /\ conn'[x].reply = conn[x].reply
      BY <1>h, <2>1, <2>2, <2>5 DEF PumpResponse, ConnectionState
    <3>2. ran[x] = 1 /\ ~Queued(x)
      BY <1>h, <2>5 DEF History
    <3> QED BY <1>h, <2>2, <3>1, <3>2, SameQueued DEF History
  <2> QED BY <2>3, <2>4, <2>5
<1>5. CASE ExpireConnections
  <2>1. queue' = queue /\ ran' = ran /\ conn'[x] = Expired(conn[x])
    BY <1>5 DEF ExpireConnections
  <2>2. CASE conn'[x] = conn[x]
    BY <1>h, <2>1, <2>2, SameQueued, QuietHistory DEF Quiet
  <2>3. CASE conn'[x] = Answered(conn[x], "timed_out")
    <3>1. "timed_out" \in Reply
      BY DEF Reply
    <3> QED BY <1>h, <2>1, <2>3, <3>1, AnsweredHistory, SameQueued
  <2>4. CASE conn'[x] = Fresh("closed")
    BY <1>h, <2>1, <2>4, ClosedHistory, SameQueued
  <2> QED BY <1>h, <2>1, <2>2, <2>3, <2>4, ExpiredType
<1>6. CASE SelectSockets
  <2>1. PICK S \in SUBSET Conn :
           /\ Accepts(S)
           /\ conn' = [c \in Conn |-> IF c \in S THEN Accepted(conn[c]) ELSE conn[c]]
    BY <1>6 DEF SelectSockets
  <2>2. queue' = queue /\ ran' = ran
    BY <1>6 DEF SelectSockets
  <2>3. CASE x \notin S
    BY <1>h, <2>1, <2>2, <2>3, SameQueued, QuietHistory DEF Quiet
  <2>4. CASE x \in S
    <3>1. conn[x].phase = "backlog"
      BY <2>1, <2>4 DEF Accepts, InPhase
    <3>2. /\ conn'[x].phase = "reading" /\ conn'[x].response = conn[x].response
          /\ conn'[x].reply = conn[x].reply
      BY <1>h, <2>1, <2>4 DEF Accepted, ConnectionState
    <3> QED BY <1>h, <2>2, <3>1, <3>2, SameQueued DEF History
  <2> QED BY <2>3, <2>4
<1>7. CASE \E c \in Conn : Socket(c)
  <2>1. PICK c \in Conn : Socket(c)
    BY <1>7
  <2>2. ran' = ran /\ conn \in [Conn -> ConnectionState]
    BY <2>1 DEF Socket, ProcessRequest, ReadEof, RejectFrame, Enqueue, RejectBusy, Write, ConsumePeerClose, TypeOK
  <2>3. CASE Enqueue(c)
    <3> DEFINE timed == conn[c].frame = "cmd"
               due   == IF timed THEN conn[c].due ELSE UntimedTtl
    <3>1. /\ queue = {} /\ queue' = {[conn |-> c, timed |-> timed, due |-> due]}
          /\ conn' = [conn EXCEPT ![c] = Awaiting(@, due)] /\ conn[c].phase = "reading"
      BY <2>3 DEF Enqueue, QueueHasRoom, Turn
    <3>2. \A y : ~Queued(y) /\ (Queued(y)' <=> y = c)
      BY <3>1 DEF Queued
    <3>3. CASE x # c
      BY <1>h, <2>2, <3>1, <3>2, <3>3, QuietHistory DEF Quiet
    <3>4. CASE x = c
      <4>1. /\ conn'[x].phase = "waiting" /\ conn'[x].response = conn[x].response
            /\ conn'[x].reply = conn[x].reply
        BY <1>h, <2>2, <3>1, <3>4 DEF Awaiting, ConnectionState
      <4> QED BY <1>h, <2>2, <3>1, <3>2, <3>4, <4>1 DEF History
    <3> QED BY <3>3, <3>4
  <2>4. CASE ~Enqueue(c)
    <3>1. queue' = queue
      BY <2>1, <2>4 DEF Socket, ProcessRequest, ReadEof, RejectFrame, RejectBusy, Write, ConsumePeerClose
    <3>2. CASE x # c
      <4>1. conn'[x] = conn[x]
        BY <2>1, <2>2, <2>4, <3>2
           DEF Socket, ProcessRequest, ReadEof, RejectFrame, RejectBusy, Write, ConsumePeerClose, Close, QueueResponse
      <4> QED BY <1>h, <2>2, <3>1, <4>1, SameQueued, QuietHistory DEF Quiet
    <3>3. CASE x = c /\ conn' = [conn EXCEPT ![c] = Fresh("closed")]
      BY <1>h, <2>2, <3>1, <3>3, SameQueued, ClosedHistory
    <3>4. CASE x = c /\ (RejectFrame(c) \/ RejectBusy(c))
      <4>1. CASE conn' = [conn EXCEPT ![c] = Fresh("closed")]
        BY <3>3, <3>4, <4>1
      <4>2. CASE ~(conn' = [conn EXCEPT ![c] = Fresh("closed")])
        <5>1. PICK code \in {"busy", "invalid_request"} : conn' = [conn EXCEPT ![c] = Answered(@, code)]
          BY <3>4, <4>2 DEF RejectFrame, RejectBusy, QueueResponse, Close
        <5>2. code \in Reply /\ conn[x].phase = "reading"
          BY <3>4 DEF Reply, RejectFrame, RejectBusy, Turn
        <5>3. ran[x] = 0 /\ ~Queued(x) /\ conn'[x] = Answered(conn[x], code)
          BY <1>h, <2>2, <3>4, <5>1, <5>2 DEF History
        <5> QED BY <1>h, <2>2, <3>1, <5>2, <5>3, SameQueued, AnsweredHistory
      <4> QED BY <4>1, <4>2
    <3>5. CASE x = c /\ Write(c)
      <4>1. CASE conn' = conn
        BY <1>h, <2>2, <3>1, <4>1, SameQueued, QuietHistory DEF Quiet
      <4>2. CASE conn' = [conn EXCEPT ![c] = HalfClosed(@)]
        <5>1. /\ conn'[x].phase = "closing" /\ conn'[x].response = conn[x].response
              /\ conn'[x].reply = conn[x].reply /\ conn[x].phase = "writing"
          BY <1>h, <2>2, <3>5, <4>2 DEF HalfClosed, ConnectionState, Write, Turn
        <5> QED BY <1>h, <2>2, <3>1, <5>1, SameQueued DEF History
      <4> QED BY <3>3, <3>5, <4>1, <4>2 DEF Write, Close
    <3>6. CASE x = c /\ (ReadEof(c) \/ ConsumePeerClose(c))
      BY <3>3, <3>6 DEF ReadEof, ConsumePeerClose, Close
    <3> QED BY <2>1, <2>4, <3>2, <3>4, <3>5, <3>6 DEF Socket, ProcessRequest
  <2> QED BY <2>3, <2>4
<1>8. CASE \E r \in queue : ExecuteRequest(r)
  <2>1. PICK r \in queue : ExecuteRequest(r)
    BY <1>8
  <2>2. /\ r.conn \in Conn /\ queue = {r} /\ queue' = {} /\ conn \in [Conn -> ConnectionState]
        /\ ran' = [ran EXCEPT ![r.conn] = IF Refused(r) THEN @ ELSE @ + 1]
        /\ ran \in [Conn -> Nat]
    BY <2>1 DEF ExecuteRequest, Pop, TypeOK, Request
  <2>3. PICK resp \in Response : (Refused(r) <=> resp = "expired") /\ Push(r, resp)
    BY <2>1 DEF ExecuteRequest
  <2>4. \A y : ~Queued(y)' /\ (Queued(y) <=> y = r.conn)
    BY <2>2 DEF Queued
  <2>5. CASE x # r.conn
    <3>1. conn'[x] = conn[x] /\ ran'[x] = ran[x]
      BY <2>2, <2>3, <2>5 DEF Push
    <3> QED BY <1>h, <2>4, <2>5, <3>1, QuietHistory DEF Quiet
  <2>6. CASE x = r.conn
    <3>1. /\ conn'[x].phase = conn[x].phase /\ conn'[x].reply = conn[x].reply
          /\ conn'[x].response = IF conn[x].phase = "waiting" THEN resp ELSE conn[x].response
      BY <1>h, <2>2, <2>3, <2>6 DEF Push, ConnectionState
    <3>2. ran[x] = 0 /\ ran'[x] = IF resp = "expired" THEN 0 ELSE 1
      BY <1>h, <2>2, <2>3, <2>4, <2>6 DEF History
    <3>3. resp # "none"
      BY DEF Response
    <3> QED BY <1>h, <2>4, <2>6, <3>1, <3>2, <3>3 DEF History
  <2> QED BY <2>5, <2>6
<1>9. CASE UNCHANGED <<queue, conn, ran>>
  BY <1>h, <1>9, SameQueued, QuietHistory DEF Quiet
<1> QED
  BY <1>1, <1>2, <1>3, <1>4, <1>5, <1>6, <1>7, <1>8, <1>9
     DEF Next, Poll, ChildExit, BeginPoll, OutboxDone, AcceptFails, IoDone, NothingToExecute,
         CheckChildLiveness, vars

-----------------------------------------------------------------------------
(* Deadlines.                                                              *)

LEMMA SameDue ==
  ASSUME DueInv, queue' = queue, conn' = conn
  PROVE  DueInv'
BY DEF DueInv

LEMMA DueStep ==
  ASSUME TypeOK, HistoryInv, DueInv, [Next]_vars
  PROVE  DueInv'
<1> DEFINE Agrees(r) == /\ conn[r.conn].phase = "waiting" => conn[r.conn].due = r.due
                        /\ conn[r.conn].reply = "timed_out" => r.due <= 0
<1>q. /\ conn \in [Conn -> ConnectionState]
      /\ \A r \in queue : /\ r.conn \in Conn /\ Agrees(r) /\ r.due \in Nat \cup {-1}
                          /\ Queued(r.conn) /\ History(r.conn)
  BY DEF TypeOK, Request, Queued, DueInv, HistoryInv
<1>p. \A r \in queue : conn[r.conn].phase \notin {"none", "backlog", "reading"}
  BY <1>q DEF History
<1>1. CASE \E c \in Conn : Client(c)
  <2>1. PICK c \in Conn : Client(c)
    BY <1>1
  <2>2. queue' = queue
    BY <2>1 DEF Client, Connect, Send, HangUp
  <2>3. CASE HangUp(c)
    <3>1. \A x \in Conn : /\ conn'[x].phase = conn[x].phase /\ conn'[x].due = conn[x].due
                          /\ conn'[x].reply = conn[x].reply
      BY <1>q, <2>3 DEF HangUp, ConnectionState
    <3> QED BY <1>q, <2>2, <3>1 DEF DueInv
  <2>4. CASE ~HangUp(c)
    <3>1. conn[c].phase \in {"none", "backlog", "reading"}
      BY <2>1, <2>4 DEF Client, Connect, Send
    <3>2. \A x \in Conn \ {c} : conn'[x] = conn[x]
      BY <1>q, <2>1, <2>4 DEF Client, Connect, Send
    <3> QED BY <1>q, <1>p, <2>2, <3>1, <3>2 DEF DueInv
  <2> QED BY <2>3, <2>4
<1>2. CASE Tick
  <2>1. \A s \in ConnectionState : LET t == [s EXCEPT !.ttl = TickTtl(s), !.due = TickDue(s)]
                                  IN t.phase = s.phase /\ t.reply = s.reply /\ t.due = TickDue(s)
    BY DEF ConnectionState
  <2>2. \A x \in Conn : /\ conn'[x].phase = conn[x].phase /\ conn'[x].reply = conn[x].reply
                        /\ conn'[x].due = TickDue(conn[x])
    BY <1>2, <1>q, <2>1 DEF Tick
  <2>3. \A r \in queue : /\ TickRequest(r).conn = r.conn
                         /\ TickRequest(r).due = IF r.due >= 0 THEN r.due - 1 ELSE r.due
    BY DEF TypeOK, Request, TickRequest
  <2>4. \A r \in queue :
          /\ conn'[r.conn].phase = "waiting" => conn'[r.conn].due = TickRequest(r).due
          /\ conn'[r.conn].reply = "timed_out" => TickRequest(r).due <= 0
    BY <1>q, <2>2, <2>3 DEF TickDue
  <2>5. queue' = {TickRequest(r) : r \in queue}
    BY <1>2 DEF Tick
  <2>6. \A t \in queue' : \E r \in queue : t = TickRequest(r)
    BY <2>5
  <2>7. \A t \in queue' : /\ conn'[t.conn].phase = "waiting" => conn'[t.conn].due = t.due
                          /\ conn'[t.conn].reply = "timed_out" => t.due <= 0
    BY <2>3, <2>4, <2>6
  <2> QED BY <2>7 DEF DueInv
<1>3. CASE Stop \/ OnQuit \/ Start
  <2>1. queue' \subseteq queue
    BY <1>3 DEF Stop, OnQuit, Start
  <2>2. \A r \in queue : conn'[r.conn] = Fresh("closed")
    BY <1>3, <1>q, <1>p DEF Stop, OnQuit, Start, CloseAll
  <2>3. "closed" \in Phase
    BY DEF Phase
  <2> QED BY <2>1, <2>2, <2>3, FreshType DEF DueInv
<1>4. CASE \E c \in Conn : PumpResponse(c)
  <2>1. PICK c \in Conn : PumpResponse(c)
    BY <1>4
  <2>2. queue' = queue /\ ~Queued(c)
    BY <2>1 DEF PumpResponse, Ready, InPhase, HistoryInv, History
  <2>3. \A x \in Conn \ {c} : conn'[x] = conn[x]
    BY <1>q, <2>1 DEF PumpResponse, QueueResponse
  <2> QED BY <1>q, <2>2, <2>3 DEF DueInv
<1>5. CASE ExpireConnections
  <2>1. queue' = queue /\ \A x \in Conn : conn'[x] = Expired(conn[x])
    BY <1>5 DEF ExpireConnections
  <2>2. "timed_out" \in Reply /\ "closed" \in Phase
    BY DEF Reply, Phase
  <2> SUFFICES ASSUME NEW r \in queue
               PROVE  Agrees(r)'
    BY <2>1 DEF DueInv
  <2> DEFINE s == conn[r.conn]
  <2>3. s \in ConnectionState /\ conn'[r.conn] = Expired(s) /\ Agrees(r)
    BY <1>q, <2>1
  <2>4. CASE Expired(s) = s
    BY <2>3, <2>4
  <2>5. CASE s.phase = "waiting" /\ s.due <= 0 /\ Expired(s) = Answered(s, "timed_out")
    <3>1. conn'[r.conn].phase = "writing" /\ r.due <= 0
      BY <2>2, <2>3, <2>5, AnsweredType
    <3> QED BY <3>1
  <2>6. CASE Expired(s) = Fresh("closed")
    BY <2>2, <2>3, <2>6, FreshType
  <2> QED BY <2>3, <2>4, <2>5, <2>6, ExpiredType
<1>6. CASE SelectSockets
  <2>1. queue' = queue /\ \A r \in queue : conn'[r.conn] = conn[r.conn]
    BY <1>6, <1>q, <1>p DEF SelectSockets, Accepts, InPhase
  <2> QED BY <1>q, <2>1 DEF DueInv
<1>7. CASE \E c \in Conn : Socket(c)
  <2>1. PICK c \in Conn : Socket(c)
    BY <1>7
  <2>2. CASE Enqueue(c)
    <3> DEFINE timed == conn[c].frame = "cmd"
               due   == IF timed THEN conn[c].due ELSE UntimedTtl
               r     == [conn |-> c, timed |-> timed, due |-> due]
    <3>1. queue' = {r} /\ conn' = [conn EXCEPT ![c] = Awaiting(@, due)] /\ conn[c].phase = "reading"
      BY <2>2 DEF Enqueue, QueueHasRoom, Turn
    <3>2. conn[c].reply = "none"
      BY <3>1 DEF HistoryInv, History
    <3>3. conn'[c].due = due /\ conn'[c].reply = "none"
      BY <1>q, <3>1, <3>2 DEF Awaiting, ConnectionState
    <3>4. r.conn = c /\ r.due = due
      OBVIOUS
    <3> HIDE DEF r, due
    <3> QED BY <3>1, <3>3, <3>4 DEF DueInv
  <2>3. CASE ~Enqueue(c)
    <3>1. queue' = queue
      BY <2>1, <2>3 DEF Socket, ProcessRequest, ReadEof, RejectFrame, RejectBusy, Write, ConsumePeerClose
    <3>2. \A x \in Conn \ {c} : conn'[x] = conn[x]
      BY <1>q, <2>1, <2>3 DEF Socket, ProcessRequest, ReadEof, RejectFrame, RejectBusy, Write, ConsumePeerClose,
                              Close, QueueResponse
    <3>3. CASE conn[c].phase = "reading"
      BY <1>q, <1>p, <3>1, <3>2, <3>3 DEF DueInv
    <3>4. CASE conn[c].phase # "reading"
      <4>1. \/ conn'[c] = conn[c]
            \/ conn'[c] = HalfClosed(conn[c])
            \/ conn'[c] = Fresh("closed")
        BY <1>q, <2>1, <2>3, <3>4
           DEF Socket, ProcessRequest, ReadEof, RejectFrame, RejectBusy, Write, ConsumePeerClose, Close, Turn
      <4>2. conn'[c] = conn[c] \/ (/\ conn'[c].phase # "waiting"
                                   /\ conn'[c].reply \in {conn[c].reply, "none"})
        <5>1. "closed" \in Phase
          BY DEF Phase
        <5>2. HalfClosed(conn[c]).phase = "closing" /\ HalfClosed(conn[c]).reply = conn[c].reply
          BY <1>q DEF HalfClosed, ConnectionState
        <5> QED BY <4>1, <5>1, <5>2, FreshType
      <4> QED BY <1>q, <3>1, <3>2, <4>2 DEF DueInv
    <3> QED BY <3>3, <3>4
  <2> QED BY <2>2, <2>3
<1>8. CASE \E r \in queue : ExecuteRequest(r)
  <2>1. queue' = {}
    BY <1>8 DEF ExecuteRequest, Pop, TypeOK
  <2> QED BY <2>1 DEF DueInv
<1>9. CASE UNCHANGED <<queue, conn, ran>>
  BY <1>9, SameDue
<1> QED
  BY <1>1, <1>2, <1>3, <1>4, <1>5, <1>6, <1>7, <1>8, <1>9
     DEF Next, Poll, ChildExit, BeginPoll, OutboxDone, AcceptFails, IoDone, NothingToExecute,
         CheckChildLiveness, vars

-----------------------------------------------------------------------------
(* The outbox, the state of a stopped bridge, and the cap.                 *)

(* A step keeps a connection's phase and response unless the callback, or  *)
(* start, stop and onQuit, are at work; Connect only makes a backlog.      *)
LEMMA ElsewhereStep ==
  ASSUME TypeOK,
         \/ \E c \in Conn : Client(c)
         \/ Tick \/ ChildExit \/ UNCHANGED vars
  PROVE  /\ UNCHANGED <<on, quit, starts, pc, pass, todo, ran, faults>>
         /\ child' = child \/ ChildExit
         /\ \A x \in Conn :
              \/ /\ conn'[x].phase = conn[x].phase /\ conn'[x].response = conn[x].response
                 /\ conn'[x].reply = conn[x].reply
              \/ on /\ conn[x].phase = "none" /\ conn'[x] = Fresh("backlog")
<1>t. conn \in [Conn -> ConnectionState]
  BY DEF TypeOK
<1>1. CASE \E c \in Conn : Client(c)
  <2>1. PICK c \in Conn : Client(c)
    BY <1>1
  <2>2. \A x \in Conn \ {c} : conn'[x] = conn[x]
    BY <1>t, <2>1 DEF Client, Connect, Send, HangUp
  <2>3. UNCHANGED <<on, quit, child, starts, pc, pass, todo, ran, faults>>
    BY <2>1 DEF Client, Connect, Send, HangUp, lifeVars, pollVars
  <2>4. CASE Connect(c)
    <3>1. on /\ conn[c].phase = "none" /\ conn'[c] = Fresh("backlog")
      BY <1>t, <2>4 DEF Connect
    <3> QED BY <2>2, <2>3, <3>1
  <2>5. CASE HangUp(c)
    <3>1. /\ conn'[c].phase = conn[c].phase /\ conn'[c].response = conn[c].response
          /\ conn'[c].reply = conn[c].reply
      BY <1>t, <2>5 DEF HangUp, ConnectionState
    <3> QED BY <2>2, <2>3, <3>1
  <2>6. ASSUME NEW f \in Sent, NEW d \in SuppliedTtl, Send(c, f, d)
        PROVE  /\ conn'[c].phase = conn[c].phase /\ conn'[c].response = conn[c].response
               /\ conn'[c].reply = conn[c].reply
    BY <1>t, <2>6 DEF Send, ConnectionState
  <2> QED BY <2>1, <2>2, <2>3, <2>4, <2>5, <2>6 DEF Client
<1>2. CASE Tick
  <2>1. \A s \in ConnectionState : LET t == [s EXCEPT !.ttl = TickTtl(s), !.due = TickDue(s)]
                                  IN t.phase = s.phase /\ t.response = s.response /\ t.reply = s.reply
    BY DEF ConnectionState
  <2> QED BY <1>2, <1>t, <2>1 DEF Tick, lifeVars, pollVars
<1>3. CASE ChildExit
  BY <1>3 DEF ChildExit, pollVars
<1>4. CASE UNCHANGED vars
  BY <1>4 DEF vars, lifeVars, pollVars
<1> QED BY <1>1, <1>2, <1>3, <1>4

LEMMA OutboxStep ==
  ASSUME TypeOK, OutboxInv, [Next]_vars
  PROVE  OutboxInv'
<1> SUFFICES ASSUME pc' = "expire" PROVE Ready' = {}
  BY DEF OutboxInv
<1>1. CASE OutboxDone
  BY <1>1 DEF OutboxDone, Ready, InPhase
<1>2. CASE (\E c \in Conn : Client(c)) \/ Tick \/ ChildExit \/ UNCHANGED vars
  <2>1. Ready = {}
    BY <1>2, ElsewhereStep DEF OutboxInv
  <2>2. \A x \in Conn : ~(conn'[x].phase = "waiting" /\ conn'[x].response # "none")
    <3>1. "backlog" \in Phase
      BY DEF Phase
    <3> QED BY <1>2, <2>1, <3>1, ElsewhereStep, FreshType DEF Ready, InPhase
  <2> QED BY <2>2 DEF Ready, InPhase
<1>3. CASE Stop \/ OnQuit \/ Start
  BY <1>3 DEF Stop, OnQuit, Start, pollVars
<1>4. CASE Poll /\ ~OutboxDone
  BY <1>4 DEF Poll, BeginPoll, PumpResponse, ExpireConnections, SelectSockets, AcceptFails, Socket,
              ProcessRequest, ReadEof, RejectFrame, Enqueue, RejectBusy, Write, ConsumePeerClose, Turn, IoDone,
              AfterIo, ExecuteRequest, NothingToExecute, AfterExec, CheckChildLiveness, Goto,
              Abort, pollVars
<1> QED BY <1>1, <1>2, <1>3, <1>4 DEF Next

LEMMA QuietStep ==
  ASSUME TypeOK, StoppedIsQuiet, [Next]_vars
  PROVE  StoppedIsQuiet'
<1> SUFFICES ASSUME ~on'
             PROVE  /\ child' = "nil" /\ pc' = "idle"
                    /\ \A x \in Conn : conn'[x].phase \notin Live \cup {"backlog"}
  BY DEF StoppedIsQuiet, Connections, InPhase
<1>1. CASE Stop \/ OnQuit \/ Start
  <2>1. \A x \in Conn : \/ conn'[x] = Fresh("closed")
                        \/ conn'[x] = conn[x] /\ conn[x].phase = "none"
    BY <1>1 DEF Stop, OnQuit, Start, CloseAll
  <2>2. child' = "nil" /\ pc' = "idle"
    BY <1>1 DEF Stop, OnQuit, Start, pollVars
  <2>3. "closed" \in Phase
    BY DEF Phase
  <2> QED BY <2>1, <2>2, <2>3, FreshType DEF Live
<1>2. CASE (\E c \in Conn : Client(c)) \/ Tick \/ ChildExit \/ UNCHANGED vars
  <2>1. ~on /\ pc' = pc /\ (child' = child \/ ChildExit)
    BY <1>2, ElsewhereStep
  <2>2. child = "nil" /\ pc = "idle" /\ \A x \in Conn : conn[x].phase \notin Live \cup {"backlog"}
    BY <2>1 DEF StoppedIsQuiet, Connections, InPhase
  <2>3. child' = "nil"
    BY <2>1, <2>2 DEF ChildExit
  <2>4. \A x \in Conn : conn'[x].phase = conn[x].phase
    BY <1>2, <2>1, ElsewhereStep
  <2> QED BY <2>1, <2>2, <2>3, <2>4
<1>3. CASE Poll
  <2>1. on' = on
    BY <1>3 DEF Poll, BeginPoll, PumpResponse, OutboxDone, ExpireConnections, SelectSockets,
                AcceptFails, Socket, ProcessRequest, ReadEof, RejectFrame, Enqueue, RejectBusy, Write,
                ConsumePeerClose, IoDone, ExecuteRequest, NothingToExecute, CheckChildLiveness,
                lifeVars
  <2>2. pc = "idle"
    BY <2>1 DEF StoppedIsQuiet
  <2> QED
    BY <1>3, <2>1, <2>2
       DEF Poll, BeginPoll, PumpResponse, OutboxDone, ExpireConnections, SelectSockets,
           AcceptFails, Socket, ProcessRequest, ReadEof, RejectFrame, Enqueue, RejectBusy, Write,
           ConsumePeerClose, Turn, IoDone, ExecuteRequest, NothingToExecute, CheckChildLiveness
<1> QED BY <1>1, <1>2, <1>3 DEF Next

(* Only the accept loop makes a connection live. *)
LEMMA NoNewConnections ==
  ASSUME TypeOK, [Next]_vars, ~SelectSockets
  PROVE  \A x \in Conn : conn'[x].phase \in Live => conn[x].phase \in Live
<1>t. conn \in [Conn -> ConnectionState]
  BY DEF TypeOK
<1>f. \A p \in {"closed", "backlog"} : Fresh(p).phase = p
  BY FreshType DEF Phase
<1>1. CASE Stop \/ OnQuit \/ Start
  BY <1>1, <1>f DEF Stop, OnQuit, Start, CloseAll, Live
<1>2. CASE (\E c \in Conn : Client(c)) \/ Tick \/ ChildExit \/ UNCHANGED vars
  BY <1>2, <1>f, ElsewhereStep DEF Live
<1>3. CASE ExpireConnections
  <2>1. \A x \in Conn : conn'[x] = Expired(conn[x])
    BY <1>3 DEF ExpireConnections
  <2>2. \A x \in Conn : \/ Expired(conn[x]) = conn[x]
                        \/ conn[x].phase \in Live
    BY <1>t, ExpiredType DEF Live
  <2> QED BY <2>1, <2>2
<1>4. CASE \E c \in Conn : PumpResponse(c) \/ Socket(c)
  <2>1. PICK c \in Conn : PumpResponse(c) \/ Socket(c)
    BY <1>4
  <2>2. conn[c].phase \in Live
    BY <2>1 DEF PumpResponse, Ready, InPhase, Socket, ProcessRequest, ReadEof, RejectFrame, Enqueue, RejectBusy,
                Write, ConsumePeerClose, Turn, Live
  <2>3. \A x \in Conn \ {c} : conn'[x] = conn[x]
    BY <1>t, <2>1 DEF PumpResponse, QueueResponse, Socket, ProcessRequest, ReadEof, RejectFrame, Enqueue,
                      RejectBusy, Write, ConsumePeerClose, Close
  <2> QED BY <2>2, <2>3
<1>5. CASE \E r \in queue : ExecuteRequest(r)
  <2>1. PICK r \in queue, resp \in Response : r.conn \in Conn /\ Push(r, resp)
    BY <1>5 DEF ExecuteRequest, TypeOK, Request
  <2>2. conn'[r.conn].phase = conn[r.conn].phase
    BY <1>t, <2>1 DEF Push, ConnectionState
  <2>3. \A x \in Conn \ {r.conn} : conn'[x] = conn[x]
    BY <1>t, <2>1 DEF Push
  <2> QED BY <2>2, <2>3
<1>6. CASE conn' = conn
  BY <1>6
<1> QED
  BY <1>1, <1>2, <1>3, <1>4, <1>5, <1>6
     DEF Next, Poll, BeginPoll, OutboxDone, AcceptFails, IoDone, NothingToExecute,
         CheckChildLiveness

LEMMA CapStep ==
  ASSUME TypeOK, ConnectionCap, [Next]_vars
  PROVE  ConnectionCap'
<1>1. Connections \subseteq Conn /\ IsFiniteSet(Connections)
  BY ConnAssumption, FS_Subset DEF Connections
<1>2. CASE ~SelectSockets
  <2>1. Connections' \subseteq Connections
    BY <1>2, NoNewConnections DEF Connections
  <2>2. Cardinality(Connections') <= Cardinality(Connections)
    BY <1>1, <2>1, FS_Subset
  <2>3. Cardinality(Connections) \in Nat /\ Cardinality(Connections') \in Nat
    BY <1>1, <2>1, FS_Subset, FS_CardinalityType
  <2> QED BY <2>2, <2>3, ConnAssumption DEF ConnectionCap
<1>3. CASE SelectSockets
  <2>1. PICK S \in SUBSET Conn :
           /\ Accepts(S)
           /\ conn' = [c \in Conn |-> IF c \in S THEN Accepted(conn[c]) ELSE conn[c]]
    BY <1>3 DEF SelectSockets
  <2>2. Connections' \subseteq Connections \cup S
    BY <2>1 DEF Connections
  <2>3. IsFiniteSet(S) /\ S \cap Connections = {}
    BY <2>1, ConnAssumption, FS_Subset DEF Accepts, InPhase, Connections, Live
  <2>4. /\ IsFiniteSet(Connections \cup S)
        /\ Cardinality(Connections \cup S) = Cardinality(Connections) + Cardinality(S)
    <3>1. Cardinality(Connections \cap S) = 0
      <4>1. Connections \cap S = {}
        BY <2>3
      <4>2. Cardinality({}) = 0
        BY FS_EmptySet
      <4> QED BY <4>1, <4>2
    <3>2. Cardinality(Connections) \in Nat /\ Cardinality(S) \in Nat
      BY <1>1, <2>3, FS_CardinalityType
    <3>3. /\ IsFiniteSet(Connections \cup S)
          /\ Cardinality(Connections \cup S) =
               Cardinality(Connections) + Cardinality(S) - Cardinality(Connections \cap S)
      BY <1>1, <2>3, FS_Union
    <3> QED BY <3>1, <3>2, <3>3
  <2>5. Cardinality(S) <= MaxConnections - Cardinality(Connections)
    BY <2>1 DEF Accepts, Room
  <2>6. /\ Cardinality(Connections') <= Cardinality(Connections \cup S)
        /\ IsFiniteSet(Connections')
    BY <2>2, <2>4, FS_Subset
  <2>7. /\ Cardinality(Connections') \in Nat /\ Cardinality(Connections) \in Nat
        /\ Cardinality(S) \in Nat
    BY <1>1, <2>3, <2>6, FS_CardinalityType
  <2> QED BY <2>4, <2>5, <2>6, <2>7, ConnAssumption DEF ConnectionCap
<1> QED BY <1>2, <1>3

-----------------------------------------------------------------------------

LEMMA InvInit == Init => IInv
<1> SUFFICES ASSUME Init PROVE IInv
  OBVIOUS
<1>1. "none" \in Phase
  BY DEF Phase
<1>2. \A c \in Conn : conn[c] = Fresh("none") /\ ran[c] = 0
  BY DEF Init
<1>3. queue = {} /\ ~on /\ pc = "idle" /\ child = "nil"
  BY DEF Init
<1>4. HistoryInv
  BY <1>1, <1>2, <1>3, FreshType DEF HistoryInv, History, Queued
<1>5. DueInv /\ OutboxInv
  BY <1>3 DEF DueInv, OutboxInv
<1>6. Connections = {} /\ InPhase("backlog") = {}
  BY <1>1, <1>2, FreshType DEF Connections, InPhase, Live
<1>7. StoppedIsQuiet
  BY <1>3, <1>6 DEF StoppedIsQuiet
<1>8. ConnectionCap
  BY <1>6, FS_EmptySet, ConnAssumption DEF ConnectionCap
<1> QED BY <1>4, <1>5, <1>7, <1>8, TypeInit DEF IInv

LEMMA Inductive == IInv /\ [Next]_vars => IInv'
BY TypeStep, HistoryStep, DueStep, OutboxStep, QuietStep, CapStep DEF IInv

THEOREM Invariance == Spec => []IInv
<1> QED BY InvInit, Inductive, PTL DEF Spec

(* No request is lost and none runs twice. *)
THEOREM RequestsAreServedOnce == Spec => []QueuedOrServedOnce
<1>1. IInv => QueuedOrServedOnce
  BY DEF IInv, HistoryInv, History, QueuedOrServedOnce
<1> QED BY <1>1, Invariance, PTL

(* What a client is told about its command is so. *)
THEOREM ClientsAreToldTheTruth == Spec => []RepliesAreTrue
<1>1. IInv => RepliesAreTrue
  BY DEF IInv, HistoryInv, History, RepliesAreTrue
<1> QED BY <1>1, Invariance, PTL

(* No burst of clients exceeds the cap. *)
THEOREM CapIsKept == Spec => []ConnectionCap
<1>1. IInv => ConnectionCap
  BY DEF IInv
<1> QED BY <1>1, Invariance, PTL

(* A stopped bridge leaves nothing behind. *)
THEOREM StopIsComplete == Spec => []StoppedIsQuiet
<1>1. IInv => StoppedIsQuiet
  BY DEF IInv
<1> QED BY <1>1, Invariance, PTL

(* A command is not started after its deadline has passed, and after the   *)
(* client was told "timed out" only in the deadline's own millisecond.     *)
THEOREM NoLateStart == Spec => TimedOutStartsOnlyAtDeadline
<1> DEFINE A == \A r \in queue :
                  r.timed /\ ran'[r.conn] # ran[r.conn] =>
                    /\ r.due >= 0
                    /\ conn[r.conn].reply = "timed_out" => r.due = 0
<1>1. IInv /\ [Next]_vars => [A]_vars
  <2> SUFFICES ASSUME IInv, [Next]_vars, NEW r \in queue, r.timed,
                      ran'[r.conn] # ran[r.conn]
               PROVE  r.due >= 0 /\ (conn[r.conn].reply = "timed_out" => r.due = 0)
    OBVIOUS
  <2>1. PICK q \in queue : ExecuteRequest(q)
    <3>1. ran' # ran
      OBVIOUS
    <3> QED BY <3>1 DEF Next, Poll, Client, Connect, Send, HangUp, Tick, ChildExit, Stop, OnQuit,
                        Start, BeginPoll, PumpResponse, OutboxDone, ExpireConnections,
                        SelectSockets, AcceptFails, Socket, ProcessRequest, ReadEof, RejectFrame, Enqueue,
                        RejectBusy, Write, ConsumePeerClose, IoDone, NothingToExecute,
                        CheckChildLiveness, vars
  <2>2. q = r /\ r.conn \in Conn /\ ran \in [Conn -> Nat] /\ r.due \in Nat \cup {-1}
    BY DEF IInv, TypeOK, Request
  <2>3. ~Refused(r)
    BY <2>1, <2>2 DEF ExecuteRequest
  <2>4. r.due >= 0
    BY <2>2, <2>3 DEF Refused
  <2>5. conn[r.conn].reply = "timed_out" => r.due <= 0
    BY DEF IInv, DueInv
  <2> QED BY <2>2, <2>4, <2>5
<1> QED BY <1>1, Invariance, PTL DEF Spec, TimedOutStartsOnlyAtDeadline

(* The order of the phases, and the time a connection has left in its own. *)
PhaseRank(p) ==
  IF p = "none" THEN 0 ELSE IF p = "backlog" THEN 1 ELSE IF p = "reading" THEN 2
  ELSE IF p = "waiting" THEN 3 ELSE IF p = "writing" THEN 4 ELSE IF p = "closing" THEN 5
  ELSE 6

TimeLeft(s) == IF s.phase = "waiting" THEN s.due ELSE s.ttl

RunsDown(s, t) ==
  \/ PhaseRank(t.phase) > PhaseRank(s.phase)
  \/ t.phase = s.phase /\ (s.phase \in Live => TimeLeft(t) <= TimeLeft(s))

(* A connection only goes forward, and while it stays in a phase its time  *)
(* only runs down: no frame, no partial write, no hang-up of a client and  *)
(* no step of the bridge buys a connection more time than its phases have. *)
NobodyBuysTime == [][\A c \in Conn : RunsDown(conn[c], conn'[c])]_vars

(* A step that leaves a connection, closes it or answers it.               *)
LEMMA RunsDownWhen ==
  ASSUME NEW s \in ConnectionState, NEW t
  PROVE  /\ t = s => RunsDown(s, t)
         /\ t = Fresh("closed") /\ s.phase # "none" => RunsDown(s, t)
         /\ \A code \in Reply : s.phase \in {"reading", "waiting"} /\ t = Answered(s, code)
              => RunsDown(s, t)
<1>1. TimeLeft(s) \in Int /\ s.phase \in Phase
  BY DEF TimeLeft, ConnectionState
<1>2. ASSUME t = s PROVE RunsDown(s, t)
  BY <1>1, <1>2 DEF RunsDown
<1>3. ASSUME t = Fresh("closed"), s.phase # "none" PROVE RunsDown(s, t)
  BY <1>1, <1>3 DEF RunsDown, PhaseRank, Fresh, Phase, Live
<1>4. ASSUME NEW code \in Reply, s.phase \in {"reading", "waiting"}, t = Answered(s, code)
      PROVE  RunsDown(s, t)
  <2>1. t.phase = "writing" BY <1>4 DEF Answered, ConnectionState
  <2> QED BY <1>4, <2>1 DEF RunsDown, PhaseRank
<1> QED BY <1>2, <1>3, <1>4

(* The per-phase deadlines bound every connection, for any clients and     *)
(* times: what makes EveryConnectionCloses more than an accident of the    *)
(* few steps a run explores.                                               *)
THEOREM NobodyBuysTimeEver == Spec => NobodyBuysTime
<1>1. TypeOK /\ [Next]_vars => [\A c \in Conn : RunsDown(conn[c], conn'[c])]_vars
  <2> SUFFICES ASSUME TypeOK, [Next]_vars, NEW c \in Conn
               PROVE  RunsDown(conn[c], conn'[c])
    OBVIOUS
  <2> DEFINE s == conn[c]
             t == conn'[c]
  <2>t. conn \in [Conn -> ConnectionState] /\ s \in ConnectionState
    BY DEF TypeOK
  <2>w. \/ t = s
        \/ t = Fresh("closed") /\ s.phase # "none"
        \/ \E code \in Reply : s.phase \in {"reading", "waiting"} /\ t = Answered(s, code)
        => RunsDown(s, t)
    BY <2>t, RunsDownWhen
  <2> HIDE DEF s, t
  <2>1. CASE Stop \/ OnQuit \/ Start
    BY <2>1, <2>w DEF Stop, OnQuit, Start, CloseAll, s, t
  <2>2. CASE Tick
    <3>1. t = [s EXCEPT !.ttl = TickTtl(s), !.due = TickDue(s)]
      BY <2>2 DEF Tick, s, t
    <3>2. t.phase = s.phase /\ t.ttl = TickTtl(s) /\ t.due = TickDue(s)
      BY <2>t, <3>1 DEF ConnectionState
    <3>3. TickTtl(s) <= s.ttl /\ TickDue(s) <= s.due
      BY <2>t DEF ConnectionState, TickTtl, TickDue
    <3> QED BY <3>2, <3>3 DEF RunsDown, TimeLeft, s, t
  <2>3. CASE ExpireConnections
    <3>1. t = Expired(s) BY <2>3 DEF ExpireConnections, s, t
    <3>2. "timed_out" \in Reply BY DEF Reply
    <3> QED BY <2>w, <3>1, <3>2 DEF Expired, Live, s, t
  <2>4. CASE SelectSockets
    <3>1. t = s \/ (s.phase = "backlog" /\ t = Accepted(s))
      BY <2>4 DEF SelectSockets, Accepts, InPhase, s, t
    <3>2. CASE s.phase = "backlog" /\ t = Accepted(s)
      <4>1. t.phase = "reading" BY <2>t, <3>2 DEF Accepted, ConnectionState
      <4> QED BY <3>2, <4>1 DEF RunsDown, PhaseRank, s, t
    <3> QED BY <2>w, <3>1, <3>2 DEF s, t
  <2>5. CASE \E x \in Conn : PumpResponse(x)
    <3>1. PICK x \in Conn : PumpResponse(x) BY <2>5
    <3>2. CASE x # c
      <4>1. t = s
        BY <2>t, <3>1, <3>2 DEF PumpResponse, QueueResponse, TypeOK, s, t
      <4> QED BY <2>w, <4>1 DEF s, t
    <3>3. CASE x = c
      <4>1. s.phase = "waiting" /\ s.response \in Response
        BY <2>t, <3>1, <3>3 DEF PumpResponse, Ready, InPhase, ConnectionState, s
      <4>2. CASE s.response # "unencodable"
        <5>1. PayloadCode(s.response) \in Reply
          BY <4>1, <4>2 DEF PayloadCode, Response, Reply
        <5>2. t = Answered(s, PayloadCode(s.response))
          BY <2>t, <3>1, <3>3, <4>2 DEF PumpResponse, QueueResponse, s, t
        <5> QED BY <2>w, <4>1, <5>1, <5>2 DEF s, t
      <4>3. CASE s.response = "unencodable"
        <5>1. t = [s EXCEPT !.response = "none"]
          BY <2>t, <3>1, <3>3, <4>3 DEF PumpResponse, s, t
        <5>2. t.phase = s.phase /\ t.due = s.due /\ s.due \in Int
          BY <2>t, <5>1 DEF ConnectionState
        <5> QED BY <4>1, <5>2 DEF RunsDown, TimeLeft, s, t
      <4> QED BY <4>2, <4>3
    <3> QED BY <3>2, <3>3
  <2>6. CASE \E x \in Conn : Socket(x)
    <3>1. PICK x \in Conn : Socket(x) BY <2>6
    <3>2. CASE x # c
      <4>1. t = s
        BY <2>t, <3>1, <3>2
           DEF Socket, ReadEof, RejectFrame, ProcessRequest, Enqueue, RejectBusy, Write,
               ConsumePeerClose, Close, QueueResponse, s, t
      <4> QED BY <2>w, <4>1 DEF s, t
    <3>3. CASE x = c
      <4>0. {"busy", "invalid_request"} \subseteq Reply BY DEF Reply
      <4>1. CASE ReadEof(c) \/ ConsumePeerClose(c)
        <5>1. t = Fresh("closed") /\ s.phase # "none"
          BY <2>t, <4>1 DEF ReadEof, ConsumePeerClose, Turn, Close, s, t
        <5> QED BY <2>w, <5>1 DEF s, t
      <4>2. CASE RejectFrame(c) \/ RejectBusy(c)
        <5>1. s.phase = "reading" /\
              (t = Fresh("closed") \/ \E code \in Reply : t = Answered(s, code))
          BY <2>t, <4>0, <4>2 DEF RejectFrame, RejectBusy, Turn, Close, QueueResponse, s, t
        <5> QED BY <2>w, <5>1 DEF s, t
      <4>3. CASE Enqueue(c)
        <5>1. s.phase = "reading" /\ \E due : t = Awaiting(s, due)
          BY <2>t, <4>3 DEF Enqueue, Turn, s, t
        <5>2. t.phase = "waiting" BY <2>t, <5>1 DEF Awaiting, ConnectionState
        <5> QED BY <5>1, <5>2 DEF RunsDown, PhaseRank, s, t
      <4>4. CASE Write(c)
        <5>1. s.phase = "writing" /\ (t = s \/ t = HalfClosed(s) \/ t = Fresh("closed"))
          BY <2>t, <4>4 DEF Write, Turn, Close, s, t
        <5>2. CASE t = HalfClosed(s)
          <6>1. t.phase = "closing" BY <2>t, <5>2 DEF HalfClosed, ConnectionState
          <6> QED BY <5>1, <6>1 DEF RunsDown, PhaseRank, s, t
        <5> QED BY <2>w, <5>1, <5>2 DEF s, t
      <4> QED BY <3>1, <3>3, <4>1, <4>2, <4>3, <4>4 DEF Socket, ProcessRequest
    <3> QED BY <3>2, <3>3
  <2>7. CASE \E r \in queue : ExecuteRequest(r)
    <3>1. PICK r \in queue, resp \in Response : Push(r, resp)
      BY <2>7 DEF ExecuteRequest
    <3>2. \E x : t = [s EXCEPT !.response = x] \/ t = s
      BY <2>t, <3>1 DEF Push, s, t
    <3>3. t.phase = s.phase /\ t.due = s.due /\ t.ttl = s.ttl /\ s.due \in Int /\ s.ttl \in Int
      BY <2>t, <3>2 DEF ConnectionState
    <3> QED BY <3>3 DEF RunsDown, TimeLeft, s, t
  <2>8. CASE \E x \in Conn : Client(x)
    <3>1. PICK x \in Conn : Client(x) BY <2>8
    <3>2. CASE Connect(x)
      <4>1. t = s \/ (s.phase = "none" /\ t = Fresh("backlog"))
        BY <2>t, <3>2 DEF Connect, s, t
      <4>2. Fresh("backlog").phase = "backlog" BY DEF Fresh
      <4> QED BY <2>w, <4>1, <4>2 DEF RunsDown, PhaseRank, s, t
    <3>3. CASE HangUp(x) \/ \E f \in Sent, d \in SuppliedTtl : Send(x, f, d)
      <4>1. CASE x # c
        <5>1. t = s BY <2>t, <3>3, <4>1 DEF HangUp, Send, s, t
        <5> QED BY <2>w, <5>1 DEF s, t
      <4>2. CASE x = c /\ HangUp(x)
        <5>1. t = [s EXCEPT !.gone = TRUE] BY <2>t, <4>2 DEF HangUp, s, t
        <5>2. t.phase = s.phase /\ t.ttl = s.ttl /\ t.due = s.due
              /\ s.ttl \in Int /\ s.due \in Int
          BY <2>t, <5>1 DEF ConnectionState
        <5> QED BY <5>2 DEF RunsDown, TimeLeft, s, t
      <4>3. CASE x = c /\ \E f \in Sent, d \in SuppliedTtl : Send(x, f, d)
        <5>1. PICK f \in Sent, d \in SuppliedTtl : Send(c, f, d) BY <4>3
        <5>2. conn' = [conn EXCEPT ![c].frame = f, ![c].due = IF f = "cmd" THEN d ELSE 0]
              /\ s.phase \in {"backlog", "reading"}
          BY <5>1 DEF Send, s
        <5>3. t = [s EXCEPT !.frame = f, !.due = IF f = "cmd" THEN d ELSE 0]
          BY <2>t, <5>2 DEF s, t
        <5>4. t.phase = s.phase /\ t.ttl = s.ttl /\ s.ttl \in Int
          BY <2>t, <5>3 DEF ConnectionState
        <5> QED BY <5>2, <5>4 DEF RunsDown, TimeLeft, s, t
      <4> QED BY <3>3, <4>1, <4>2, <4>3
    <3> QED BY <3>1, <3>2, <3>3 DEF Client
  <2>9. CASE ChildExit \/ BeginPoll \/ OutboxDone \/ AcceptFails \/ IoDone \/ NothingToExecute
             \/ CheckChildLiveness \/ UNCHANGED vars
    <3>1. t = s
      BY <2>9 DEF ChildExit, BeginPoll, OutboxDone, AcceptFails, IoDone, NothingToExecute,
                  CheckChildLiveness, vars, s, t
    <3> QED BY <2>w, <3>1 DEF s, t
  <2> QED
    BY <2>1, <2>2, <2>3, <2>4, <2>5, <2>6, <2>7, <2>8, <2>9 DEF Next, Poll
<1> QED BY <1>1, TypeCorrect, PTL DEF Spec, NobodyBuysTime

(* A response that is ready is delivered, however late in the callback its *)
(* connection expires.                                                     *)
THEOREM ResponseBeatsTimeout == Spec => ReadyResponseBeatsTimeout
<1>1. IInv /\ [Next]_vars => [\A c \in Ready : conn'[c].reply # "timed_out"]_vars
  <2> SUFFICES ASSUME IInv, [Next]_vars, NEW c \in Ready, conn'[c].reply = "timed_out"
               PROVE  FALSE
    OBVIOUS
  <2>t. conn \in [Conn -> ConnectionState] /\ c \in Conn /\ conn[c].phase = "waiting"
        /\ conn[c].reply = "none" /\ conn[c].response # "none" /\ ~Queued(c)
    BY DEF IInv, TypeOK, Ready, InPhase, HistoryInv, History
  <2>f. \A p \in {"closed", "backlog"} : Fresh(p).reply = "none"
    BY FreshType DEF Phase
  <2>1. CASE Stop \/ OnQuit \/ Start
    BY <2>1, <2>t, <2>f DEF Stop, OnQuit, Start, CloseAll
  <2>2. CASE (\E x \in Conn : Client(x)) \/ Tick \/ ChildExit \/ UNCHANGED vars
    BY <2>2, <2>t, <2>f, ElsewhereStep DEF IInv
  <2>3. CASE ExpireConnections
    BY <2>3 DEF ExpireConnections, IInv, OutboxInv
  <2>4. CASE SelectSockets
    BY <2>4, <2>t DEF SelectSockets, Accepts, InPhase
  <2>5. ASSUME NEW x \in Conn, PumpResponse(x) PROVE FALSE
    <3>1. CASE x # c
      BY <2>5, <2>t, <3>1 DEF PumpResponse, QueueResponse
    <3>2. CASE x = c /\ conn[x].response = "unencodable"
      BY <2>5, <2>t, <3>2 DEF PumpResponse, ConnectionState
    <3>3. CASE x = c /\ conn[x].response # "unencodable"
      <4>1. PayloadCode(conn[c].response) \in Reply \ {"timed_out"}
        BY <2>t, <3>3 DEF PayloadCode, ConnectionState, Response, Reply
      <4>2. conn'[c] = Answered(conn[c], PayloadCode(conn[c].response))
        BY <2>5, <2>t, <3>3 DEF PumpResponse, QueueResponse
      <4> QED BY <2>t, <4>1, <4>2, AnsweredType
    <3> QED BY <3>1, <3>2, <3>3
  <2>6. ASSUME NEW x \in Conn, Socket(x) PROVE FALSE
    <3>1. conn[x].phase # "waiting"
      BY <2>6 DEF Socket, ProcessRequest, ReadEof, RejectFrame, Enqueue, RejectBusy, Write, ConsumePeerClose, Turn
    <3>2. conn'[c] = conn[c]
      BY <2>6, <2>t, <3>1 DEF Socket, ProcessRequest, ReadEof, RejectFrame, Enqueue, RejectBusy, Write,
                              ConsumePeerClose, Close, QueueResponse
    <3> QED BY <2>t, <3>2
  <2>7. ASSUME NEW r \in queue, ExecuteRequest(r) PROVE FALSE
    <3>1. r.conn # c
      BY <2>t DEF Queued
    <3>2. conn'[c] = conn[c]
      BY <2>7, <2>t, <3>1 DEF ExecuteRequest, Push
    <3> QED BY <2>t, <3>2
  <2>8. CASE conn' = conn
    BY <2>8, <2>t
  <2> QED
    BY <2>1, <2>2, <2>3, <2>4, <2>5, <2>6, <2>7, <2>8
       DEF Next, Poll, BeginPoll, OutboxDone, AcceptFails, IoDone, NothingToExecute,
           CheckChildLiveness
<1> QED BY <1>1, Invariance, PTL DEF Spec, ReadyResponseBeatsTimeout


-----------------------------------------------------------------------------
(* The bridge with its clients. *)

(* From here on the request of a connection is in the queue or history. *)
Past == {"writing", "closing", "closed"}

(* What a caller learned, or is about to read, is so and stays so. *)
Truth(c, m) ==
  /\ m = "run" => ran[c] = 1
  /\ m = "refused" => ran[c] = 0
  /\ m \in {"refused", "over"} => conn[c].phase \in Past /\ ~Queued(c)

Knows(c) ==
  /\ client[c].state # "done" => client[c].told = "none"
  /\ Truth(c, client[c].told)
  /\ client[c].line # "none" => Truth(c, Meaning(client[c].line))

(* A client waits for as long as its command's deadline leaves. *)
Outwaits(c) ==
  client[c].state = "calling" \/ client[c].told = "gave_up" =>
    /\ conn[c].frame = "cmd" => conn[c].due <= client[c].wait
    /\ \A r \in queue : r.conn = c /\ r.timed => r.due <= client[c].wait
    /\ client[c].told = "gave_up" => client[c].wait = 0

SInv == IInv /\ SysTypeOK /\ \A c \in Conn : Knows(c) /\ Outwaits(c)

-----------------------------------------------------------------------------
(* A step of the system is a step of the bridge or leaves it alone. *)
LEMMA LeaveIsHangUp ==
  ASSUME TypeOK, NEW c \in Conn, Leave(c), UNCHANGED <<lifeVars, pollVars, queue, ran, faults>>
  PROVE  [Next]_vars
<1>1. conn \in [Conn -> ConnectionState] /\ conn[c].gone \in BOOLEAN
  BY DEF TypeOK, ConnectionState
<1>2. CASE conn[c].phase \in Live \cup {"backlog"} /\ ~conn[c].gone
  <2>1. conn' = [conn EXCEPT ![c].gone = TRUE] BY <1>1, <1>2 DEF Leave
  <2>2. HangUp(c) BY <1>2, <2>1 DEF HangUp
  <2> QED BY <2>2 DEF Next, Client
<1>3. CASE ~(conn[c].phase \in Live \cup {"backlog"} /\ ~conn[c].gone)
  <2>1. (conn[c].gone \/ conn[c].phase \in Live \cup {"backlog"}) = conn[c].gone BY <1>1, <1>3
  <2>2. conn' = conn BY <1>1, <2>1 DEF Leave, ConnectionState
  <2> QED BY <2>2 DEF vars
<1> QED BY <1>2, <1>3

LEMMA SystemStep ==
  ASSUME TypeOK, [SysNext]_sysVars
  PROVE  [Next]_vars
<1>1. CASE Bridge BY <1>1 DEF Bridge, Next
<1>2. CASE Time BY <1>2 DEF Time, Next
<1>3. CASE \E c \in Conn : OwnStep(c) \/ CallerDies(c)
  <2>1. PICK c \in Conn : OwnStep(c) \/ CallerDies(c) BY <1>3
  <2>2. CASE Open(c) BY <2>2 DEF Open, Next, Client
  <2>3. CASE SendRequest(c) BY <2>3 DEF SendRequest, Next, Client
  <2>4. CASE Unreachable(c) \/ ConnectionClosed(c) BY <2>4 DEF Unreachable, ConnectionClosed
  <2>5. CASE ReadLine(c) \/ GiveUp(c) \/ CallerDies(c)
    BY <2>5, LeaveIsHangUp DEF ReadLine, GiveUp, CallerDies
  <2> QED BY <2>1, <2>2, <2>3, <2>4, <2>5 DEF OwnStep
<1>4. CASE UNCHANGED sysVars BY <1>4 DEF sysVars
<1> QED BY <1>1, <1>2, <1>3, <1>4 DEF SysNext

-----------------------------------------------------------------------------
(* What the host does to a request, and when it cannot any more. *)

LEMMA RanStep ==
  ASSUME IInv, [Next]_vars
  PROVE  \/ ran' = ran
         \/ \E r \in queue : /\ r.conn \in Conn /\ ran[r.conn] = 0 /\ ~Refused(r)
                             /\ ran' = [ran EXCEPT ![r.conn] = 1]
<1>1. CASE \E q \in queue : ExecuteRequest(q)
  <2>1. PICK r \in queue : ExecuteRequest(r) BY <1>1
  <2>2. r.conn \in Conn /\ Queued(r.conn) /\ ran \in [Conn -> Nat]
    BY DEF IInv, TypeOK, Request, Queued
  <2>3. ran[r.conn] = 0 BY <2>2 DEF IInv, HistoryInv, History
  <2>4. ran' = [ran EXCEPT ![r.conn] = IF Refused(r) THEN ran[r.conn] ELSE ran[r.conn] + 1]
    BY <2>1 DEF ExecuteRequest
  <2>5. CASE Refused(r)
    <3>1. ran' = [ran EXCEPT ![r.conn] = ran[r.conn]] BY <2>4, <2>5
    <3>2. ran' = ran BY <2>2, <3>1
    <3> QED BY <3>2
  <2>6. CASE ~Refused(r)
    <3>1. ran' = [ran EXCEPT ![r.conn] = ran[r.conn] + 1] BY <2>4, <2>6
    <3>2. ran[r.conn] + 1 = 1 BY <2>3
    <3>3. ran' = [ran EXCEPT ![r.conn] = 1] BY <3>1, <3>2
    <3> QED BY <2>2, <2>3, <2>6, <3>3
  <2> QED BY <2>5, <2>6
<1>2. CASE ~\E q \in queue : ExecuteRequest(q)
  BY <1>2 DEF Next, Poll, Client, Connect, Send, HangUp, Tick, ChildExit, Stop, OnQuit,
              Start, BeginPoll, PumpResponse, OutboxDone, ExpireConnections,
              SelectSockets, AcceptFails, Socket, ProcessRequest, ReadEof, RejectFrame, Enqueue,
              RejectBusy, Write, ConsumePeerClose, IoDone, NothingToExecute,
              CheckChildLiveness, vars
<1> QED BY <1>1, <1>2

(* Past its response a connection never queues again. *)
LEMMA PastStep ==
  ASSUME IInv, [Next]_vars, NEW c \in Conn, conn[c].phase \in Past
  PROVE  conn'[c].phase \in Past /\ (Queued(c)' => Queued(c))
<1>t. conn \in [Conn -> ConnectionState] BY DEF IInv, TypeOK
<1>f. Fresh("closed").phase = "closed" BY DEF Fresh
<1>p. conn[c].phase \in {"writing", "closing", "closed"} BY DEF Past
<1>1. CASE Stop \/ OnQuit \/ Start
  <2>1. queue' = queue \/ queue' = {} BY <1>1 DEF Stop, OnQuit, Start
  <2>2. conn'[c] = Fresh("closed") BY <1>1, <1>p DEF Stop, OnQuit, Start, CloseAll
  <2> QED BY <1>f, <2>1, <2>2 DEF Past, Queued
<1>2. CASE (\E x \in Conn : Client(x)) \/ UNCHANGED vars \/ ChildExit
  <2>1. conn'[c].phase = conn[c].phase BY <1>2, <1>p, ElsewhereStep DEF IInv
  <2>2. queue' = queue BY <1>2 DEF Client, Connect, Send, HangUp, vars, ChildExit
  <2> QED BY <2>1, <2>2 DEF Queued
<1>3. CASE Tick
  <2>1. conn'[c].phase = conn[c].phase BY <1>3, <1>p, ElsewhereStep DEF IInv
  <2> QED BY <1>3, <2>1, TickQueued DEF IInv
<1>4. CASE ExpireConnections
  <2>1. conn'[c] = Expired(conn[c]) /\ queue' = queue BY <1>4 DEF ExpireConnections
  <2>2. conn'[c] = conn[c] \/ conn'[c] = Fresh("closed")
    BY <1>p, <1>t, <2>1, ExpiredType
  <2> QED BY <1>f, <1>p, <2>1, <2>2 DEF Past, Queued
<1>5. CASE SelectSockets
  BY <1>5, <1>p, <1>t DEF SelectSockets, Accepts, InPhase, Queued
<1>6. ASSUME NEW x \in Conn, PumpResponse(x)
      PROVE  conn'[c].phase \in Past /\ (Queued(c)' => Queued(c))
  <2>1. x # c BY <1>6, <1>p DEF PumpResponse, Ready, InPhase
  <2> QED BY <1>6, <1>t, <2>1 DEF PumpResponse, QueueResponse, Queued
<1>7. ASSUME NEW x \in Conn, Socket(x)
      PROVE  conn'[c].phase \in Past /\ (Queued(c)' => Queued(c))
  <2>1. CASE x # c
    <3>1. conn'[c] = conn[c]
      BY <1>7, <1>t, <2>1 DEF Socket, ProcessRequest, ReadEof, RejectFrame, Enqueue, RejectBusy, Write,
                              ConsumePeerClose, Close, QueueResponse
    <3>2. queue' = queue \/ \E r : r.conn = x /\ queue' = queue \cup {r}
      <4>1. CASE Enqueue(x)
        <5> DEFINE r == [conn |-> x, timed |-> conn[x].frame = "cmd",
                         due |-> IF conn[x].frame = "cmd" THEN conn[x].due ELSE UntimedTtl]
        <5>1. queue' = queue \cup {r} /\ r.conn = x BY <4>1 DEF Enqueue
        <5> QED BY <5>1
      <4>2. CASE ~Enqueue(x)
        BY <1>7, <4>2 DEF Socket, ProcessRequest, ReadEof, RejectFrame, RejectBusy, Write, ConsumePeerClose
      <4> QED BY <4>1, <4>2
    <3> QED BY <2>1, <3>1, <3>2 DEF Queued
  <2>2. CASE x = c
    <3>1. Write(c) \/ ConsumePeerClose(c)
      BY <1>7, <1>p, <2>2 DEF Socket, ProcessRequest, ReadEof, RejectFrame, Enqueue, RejectBusy, Turn
    <3>2. queue' = queue BY <3>1 DEF Write, ConsumePeerClose
    <3>3. \/ conn' = conn \/ conn' = [conn EXCEPT ![c] = HalfClosed(conn[c])]
          \/ conn' = [conn EXCEPT ![c] = Fresh("closed")]
      BY <3>1 DEF Write, ConsumePeerClose, Close
    <3>4. HalfClosed(conn[c]).phase = "closing" BY <1>t DEF HalfClosed, ConnectionState
    <3>5. conn'[c].phase \in Past BY <3>3, <3>4, <1>t, <1>p, <1>f DEF Past
    <3> QED BY <3>2, <3>5 DEF Queued
  <2> QED BY <2>1, <2>2
<1>8. ASSUME NEW r \in queue, ExecuteRequest(r)
      PROVE  conn'[c].phase \in Past /\ (Queued(c)' => Queued(c))
  <2>1. r.conn \in Conn /\ queue' \subseteq queue
    BY <1>8 DEF ExecuteRequest, Pop, IInv, TypeOK, Request
  <2>2. conn'[c].phase = conn[c].phase
    BY <1>8, <1>t, <2>1 DEF ExecuteRequest, Push, ConnectionState
  <2> QED BY <2>1, <2>2 DEF Queued
<1>9. CASE UNCHANGED <<queue, conn>>
  BY <1>9 DEF Queued
<1> QED
  BY <1>1, <1>2, <1>3, <1>4, <1>5, <1>6, <1>7, <1>8, <1>9
     DEF Next, Poll, BeginPoll, OutboxDone, AcceptFails, IoDone, NothingToExecute,
         CheckChildLiveness

LEMMA TruthStays ==
  ASSUME IInv, [Next]_vars, NEW c \in Conn, NEW m, Truth(c, m)
  PROVE  Truth(c, m)'
<1>1. CASE m = "run"
  <2>1. ran[c] = 1 /\ ran \in [Conn -> Nat] BY <1>1 DEF Truth, IInv, TypeOK
  <2>2. ran'[c] = 1 BY <2>1, RanStep
  <2> QED BY <1>1, <2>2 DEF Truth
<1>2. CASE m \in {"refused", "over"}
  <2>1. conn[c].phase \in Past /\ ~Queued(c) /\ (m = "refused" => ran[c] = 0) BY <1>2 DEF Truth
  <2>2. conn'[c].phase \in Past /\ ~Queued(c)' BY <2>1, PastStep
  <2>3. ran'[c] = ran[c]
    <3>1. ran' = ran \/ \E r \in queue : r.conn # c /\ ran' = [ran EXCEPT ![r.conn] = 1]
      BY <2>1, RanStep DEF Queued
    <3> QED BY <3>1 DEF IInv, TypeOK
  <2> QED BY <1>2, <2>1, <2>2, <2>3 DEF Truth
<1>3. CASE m \notin {"run", "refused", "over"} BY <1>3 DEF Truth
<1> QED BY <1>1, <1>2, <1>3

(* The line that was written says what is so. *)
LEMMA WrittenIsTrue ==
  ASSUME IInv, NEW c \in Conn, conn[c].phase = "writing"
  PROVE  Truth(c, Meaning(conn[c].reply))
BY DEF IInv, HistoryInv, History, Truth, Meaning, Past

-----------------------------------------------------------------------------
(* What a step of the system may do to what a client knows. *)

LEMMA EndedClient ==
  ASSUME SysTypeOK, NEW c \in Conn, NEW how \in Told, Ended(c, how)
  PROVE  /\ client' \in [Conn -> Calling]
         /\ client'[c] = [NotCalled EXCEPT !.state = "done", !.told = how]
         /\ client'[c].state = "done" /\ client'[c].told = how
         /\ client'[c].line = "none" /\ client'[c].wait = 0
         /\ \A x \in Conn \ {c} : client'[x] = client[x]
<1>1. [NotCalled EXCEPT !.state = "done", !.told = how] \in Calling
  BY DEF NotCalled, Calling, State
<1> QED BY <1>1 DEF Ended, SysTypeOK, NotCalled

(* A client moves by its own steps; the bridge only writes it a line, the  *)
(* clock only shortens its wait.                                           *)
LEMMA ClientStep ==
  ASSUME SInv, [SysNext]_sysVars, NEW c \in Conn
  PROVE  /\ client'[c] \in Calling
         /\ \/ client'[c] = client[c]
            \/ /\ Bridge /\ Written(c)
               /\ client'[c] = [client[c] EXCEPT !.line = conn[c].reply]
            \/ /\ Time
               /\ client'[c] = [client[c] EXCEPT !.wait = IF @ > 0 THEN @ - 1 ELSE 0]
            \/ Open(c) /\ client'[c] = [client[c] EXCEPT !.state = "connected"]
            \/ \E f \in Sent, d \in SuppliedTtl :
                 /\ client[c].state = "connected" /\ Send(c, f, d)
                 /\ client'[c] = [client[c] EXCEPT !.state = "calling", !.wait = d]
            \/ /\ client[c].state # "done" /\ ran' = ran /\ queue' = queue
               /\ conn'[c].frame = conn[c].frame /\ conn'[c].due = conn[c].due
               /\ \E how \in Told \ {"none"} :
                    /\ client'[c] = [NotCalled EXCEPT !.state = "done", !.told = how]
                    /\ how \in {"run", "refused", "over"} =>
                         client[c].line # "none" /\ how = Meaning(client[c].line)
                    /\ how = "gave_up" => client[c].state = "calling" /\ client[c].wait = 0
<1>t. client \in [Conn -> Calling] /\ client[c] \in Calling /\ conn \in [Conn -> ConnectionState]
      /\ conn[c] \in ConnectionState
  BY DEF SInv, SysTypeOK, IInv, TypeOK
<1>1. CASE Bridge
  <2>1. client'[c] = IF Written(c) /\ client[c].state = "calling"
                       THEN [client[c] EXCEPT !.line = conn[c].reply] ELSE client[c]
    BY <1>1 DEF Bridge
  <2>2. [client[c] EXCEPT !.line = conn[c].reply] \in Calling
    BY <1>t DEF Calling, ConnectionState
  <2> QED BY <1>1, <1>t, <2>1, <2>2
<1>2. CASE Time
  <2>1. client'[c] = [client[c] EXCEPT !.wait = IF client[c].wait > 0 THEN client[c].wait - 1 ELSE 0]
    BY <1>2 DEF Time
  <2>2. client'[c] \in Calling
    BY <1>t, <2>1 DEF Calling
  <2> QED BY <1>2, <2>1, <2>2
<1>3. ASSUME NEW x \in Conn, OwnStep(x) \/ CallerDies(x), x # c
      PROVE  client'[c] = client[c]
  BY <1>3, <1>t DEF OwnStep, CallerDies, Open, Unreachable, SendRequest, ReadLine, ConnectionClosed,
                    GiveUp, Ended
<1>4. CASE Open(c)
  <2>1. client'[c] = [client[c] EXCEPT !.state = "connected"] BY <1>4, <1>t DEF Open, SysTypeOK, SInv
  <2>2. client'[c] \in Calling BY <1>t, <2>1 DEF Calling, State
  <2> QED BY <1>4, <2>1, <2>2
<1>5. CASE SendRequest(c)
  <2>1. PICK f \in Sent, d \in SuppliedTtl :
          Send(c, f, d) /\ client' = [client EXCEPT ![c].state = "calling", ![c].wait = d]
    BY <1>5 DEF SendRequest
  <2>2. client'[c] = [client[c] EXCEPT !.state = "calling", !.wait = d] BY <1>t, <2>1
  <2>3. d \in Nat BY TtlAssumption
  <2>4. client'[c] \in Calling BY <1>t, <2>2, <2>3 DEF Calling, State
  <2> QED BY <1>5, <2>1, <2>2, <2>4 DEF SendRequest
<1>6. ASSUME NEW how \in Told \ {"none"}, Ended(c, how), client[c].state # "done",
             ran' = ran, queue' = queue, conn' = conn \/ Leave(c),
             how \in {"run", "refused", "over"} => client[c].line # "none" /\ how = Meaning(client[c].line),
             how = "gave_up" => client[c].state = "calling" /\ client[c].wait = 0
      PROVE  /\ client'[c] \in Calling
             /\ client[c].state # "done" /\ ran' = ran /\ queue' = queue
             /\ conn'[c].frame = conn[c].frame /\ conn'[c].due = conn[c].due
             /\ client'[c] = [NotCalled EXCEPT !.state = "done", !.told = how]
  <2>1. conn'[c].frame = conn[c].frame /\ conn'[c].due = conn[c].due
    BY <1>6, <1>t DEF Leave, ConnectionState
  <2> QED BY <1>6, <2>1, EndedClient DEF SInv
<1>7. CASE Unreachable(c) \/ ConnectionClosed(c) \/ CallerDies(c)
  <2>1. "lost" \in Told \ {"none"} /\ Ended(c, "lost") /\ client[c].state # "done"
        /\ ran' = ran /\ queue' = queue /\ (conn' = conn \/ Leave(c))
    BY <1>7, <1>t DEF Unreachable, ConnectionClosed, CallerDies, Told, vars
  <2> QED BY <2>1, <1>6
<1>8. CASE GiveUp(c)
  <2>1. "gave_up" \in Told \ {"none"} /\ Ended(c, "gave_up") /\ client[c].state = "calling"
        /\ client[c].wait = 0 /\ ran' = ran /\ queue' = queue /\ Leave(c)
    BY <1>8 DEF GiveUp, TimedOut, Told
  <2> QED BY <2>1, <1>6
<1>9. CASE ReadLine(c)
  <2>1. Meaning(client[c].line) \in {"run", "refused", "over", "timed_out"}
    BY DEF Meaning
  <2>2. Meaning(client[c].line) \in Told \ {"none"} /\ Ended(c, Meaning(client[c].line))
        /\ client[c].state = "calling" /\ client[c].line # "none"
        /\ ran' = ran /\ queue' = queue /\ Leave(c)
    BY <1>9, <2>1 DEF ReadLine, Told
  <2> QED BY <2>1, <2>2, <1>6
<1>10. CASE UNCHANGED sysVars
  BY <1>10, <1>t DEF sysVars
<1> QED
  BY <1>t, <1>1, <1>2, <1>3, <1>4, <1>5, <1>7, <1>8, <1>9, <1>10 DEF SysNext, OwnStep

(* The bridge neither invents a deadline nor moves one. *)
LEMMA BridgeDeadlines ==
  ASSUME TypeOK, Poll \/ Stop \/ OnQuit \/ Start \/ ChildExit, NEW c \in Conn
  PROVE  /\ conn'[c].frame = "cmd" => conn[c].frame = "cmd" /\ conn'[c].due = conn[c].due
         /\ \A r \in queue' : r.conn = c /\ r.timed =>
              r \in queue \/ (conn[c].frame = "cmd" /\ r.due = conn[c].due)
<1>t. conn \in [Conn -> ConnectionState] /\ conn[c] \in ConnectionState BY DEF TypeOK
<1>f. /\ Fresh("closed").frame = "none"
      /\ \A s \in ConnectionState : \A code : Answered(s, code).frame = "none"
      /\ \A s \in ConnectionState : \A due : Awaiting(s, due).frame = "none"
      /\ \A s \in ConnectionState :
           /\ Accepted(s).frame = s.frame /\ Accepted(s).due = s.due
           /\ HalfClosed(s).frame = s.frame /\ HalfClosed(s).due = s.due
           /\ \A v : [s EXCEPT !.response = v].frame = s.frame /\ [s EXCEPT !.response = v].due = s.due
  BY DEF Fresh, Answered, Awaiting, Accepted, HalfClosed, ConnectionState
<1>1. CASE Stop \/ OnQuit \/ Start
  BY <1>1, <1>f DEF Stop, OnQuit, Start, CloseAll
<1>2. ASSUME NEW x \in Conn, Enqueue(x)
      PROVE  /\ conn'[c].frame = "cmd" => conn[c].frame = "cmd" /\ conn'[c].due = conn[c].due
             /\ \A r \in queue' : r.conn = c /\ r.timed =>
                  r \in queue \/ (conn[c].frame = "cmd" /\ r.due = conn[c].due)
  <2> DEFINE due == IF conn[x].frame = "cmd" THEN conn[x].due ELSE UntimedTtl
             new == [conn |-> x, timed |-> conn[x].frame = "cmd", due |-> due]
  <2>1. queue' = queue \cup {new} /\ conn' = [conn EXCEPT ![x] = Awaiting(conn[x], due)]
    BY <1>2 DEF Enqueue
  <2>2. conn'[c].frame = "cmd" => conn'[c] = conn[c]
    BY <2>1, <1>t, <1>f
  <2>3. new.conn = x /\ (new.timed => conn[x].frame = "cmd" /\ new.due = conn[x].due)
    BY DEF ConnectionState
  <2> QED BY <2>1, <2>2, <2>3
<1>3. ASSUME NEW x \in Conn, Socket(x), ~Enqueue(x)
      PROVE  /\ conn'[c].frame = "cmd" => conn[c].frame = "cmd" /\ conn'[c].due = conn[c].due
             /\ queue' = queue
  <2>1. queue' = queue
    BY <1>3 DEF Socket, ProcessRequest, ReadEof, RejectFrame, RejectBusy, Write, ConsumePeerClose
  <2>2. \/ conn' = conn \/ conn' = [conn EXCEPT ![x] = HalfClosed(conn[x])]
        \/ conn' = [conn EXCEPT ![x] = Fresh("closed")]
        \/ \E code : conn' = [conn EXCEPT ![x] = Answered(conn[x], code)]
    BY <1>3 DEF Socket, ProcessRequest, ReadEof, RejectFrame, RejectBusy, Write, ConsumePeerClose, Close, QueueResponse
  <2> QED BY <1>t, <1>f, <2>1, <2>2
<1>4. CASE ExpireConnections
  <2>1. conn'[c] = Expired(conn[c]) /\ queue' = queue BY <1>4 DEF ExpireConnections
  <2>2. \/ conn'[c] = conn[c] \/ conn'[c] = Fresh("closed")
        \/ conn'[c] = Answered(conn[c], "timed_out")
    BY <1>t, <2>1, ExpiredType
  <2> QED BY <1>t, <1>f, <2>1, <2>2
<1>5. CASE SelectSockets
  <2>1. queue' = queue /\ (conn'[c] = conn[c] \/ conn'[c] = Accepted(conn[c]))
    BY <1>5 DEF SelectSockets
  <2> QED BY <1>t, <1>f, <2>1
<1>6. ASSUME NEW x \in Conn, PumpResponse(x)
      PROVE  /\ conn'[c].frame = "cmd" => conn[c].frame = "cmd" /\ conn'[c].due = conn[c].due
             /\ queue' = queue
  <2>1. \/ conn' = [conn EXCEPT ![x] = [conn[x] EXCEPT !.response = "none"]]
        \/ \E code : conn' = [conn EXCEPT ![x] = Answered(conn[x], code)]
    BY <1>6 DEF PumpResponse, QueueResponse
  <2>2. conn[x] \in ConnectionState /\ queue' = queue BY <1>6 DEF PumpResponse, TypeOK
  <2>3. CASE conn' = [conn EXCEPT ![x] = [conn[x] EXCEPT !.response = "none"]]
    <3>1. conn'[c].frame = conn[c].frame /\ conn'[c].due = conn[c].due
      BY <1>t, <2>2, <2>3 DEF ConnectionState
    <3> QED BY <2>2, <3>1
  <2>4. CASE \E code : conn' = [conn EXCEPT ![x] = Answered(conn[x], code)]
    BY <1>t, <1>f, <2>2, <2>4
  <2> QED BY <2>1, <2>3, <2>4
<1>7. ASSUME NEW r \in queue, ExecuteRequest(r)
      PROVE  /\ conn'[c].frame = "cmd" => conn[c].frame = "cmd" /\ conn'[c].due = conn[c].due
             /\ queue' \subseteq queue
  <2>1. queue' \subseteq queue /\ r.conn \in Conn
    BY <1>7 DEF ExecuteRequest, Pop, TypeOK, Request
  <2>2. \E v : conn' = [conn EXCEPT ![r.conn] = [conn[r.conn] EXCEPT !.response = v]]
    BY <1>7, <2>1, <1>t DEF ExecuteRequest, Push
  <2> QED BY <1>t, <1>f, <2>1, <2>2
<1>8. CASE UNCHANGED <<queue, conn>> BY <1>8
<1> QED
  BY <1>1, <1>2, <1>3, <1>4, <1>5, <1>6, <1>7, <1>8
     DEF Poll, ChildExit, BeginPoll, OutboxDone, AcceptFails, IoDone, NothingToExecute,
         CheckChildLiveness

LEMMA KnowsStep ==
  ASSUME SInv, [SysNext]_sysVars, [Next]_vars, NEW c \in Conn
  PROVE  Knows(c)'
<1>t. client[c] \in Calling /\ IInv /\ Knows(c) BY DEF SInv, SysTypeOK
<1>s. \A m : Truth(c, m) => Truth(c, m)' BY <1>t, TruthStays
<1>1. CASE client'[c].state = client[c].state /\ client'[c].told = client[c].told
           /\ client'[c].line = client[c].line
  BY <1>1, <1>s, <1>t DEF Knows
<1>2. CASE Written(c) /\ client'[c] = [client[c] EXCEPT !.line = conn[c].reply]
  <2>1. Truth(c, Meaning(conn[c].reply)) BY <1>2, <1>t, WrittenIsTrue DEF Written
  <2>2. client'[c].state = client[c].state /\ client'[c].told = client[c].told
        /\ client'[c].line = conn[c].reply
    BY <1>2, <1>t DEF Calling
  <2> QED BY <2>1, <2>2, <1>s, <1>t DEF Knows
<1>3. ASSUME client'[c].told = client[c].told, client'[c].line = client[c].line,
             client[c].state # "done"
      PROVE  Knows(c)'
  BY <1>3, <1>s, <1>t DEF Knows
<1>4. ASSUME NEW how \in Told \ {"none"},
             client'[c] = [NotCalled EXCEPT !.state = "done", !.told = how],
             how \in {"run", "refused", "over"} => client[c].line # "none" /\ how = Meaning(client[c].line)
      PROVE  Knows(c)'
  <2>1. client'[c].state = "done" /\ client'[c].told = how /\ client'[c].line = "none"
    BY <1>4 DEF NotCalled
  <2>2. Truth(c, how) BY <1>4, <1>t DEF Knows, Truth
  <2> QED BY <2>1, <2>2, <1>s DEF Knows
<1>5. CASE client'[c] = [client[c] EXCEPT !.wait = IF @ > 0 THEN @ - 1 ELSE 0]
  BY <1>1, <1>5, <1>t DEF Calling
<1>6. CASE Open(c) /\ client'[c] = [client[c] EXCEPT !.state = "connected"]
  BY <1>3, <1>6, <1>t DEF Calling, Open
<1>7. ASSUME NEW f \in Sent, NEW d \in SuppliedTtl, client[c].state = "connected",
             client'[c] = [client[c] EXCEPT !.state = "calling", !.wait = d]
      PROVE  Knows(c)'
  BY <1>3, <1>7, <1>t DEF Calling
<1> QED BY <1>1, <1>2, <1>4, <1>5, <1>6, <1>7, ClientStep

LEMMA OutwaitsStep ==
  ASSUME SInv, [SysNext]_sysVars, NEW c \in Conn
  PROVE  Outwaits(c)'
<1>t. client[c] \in Calling /\ client[c].wait \in Nat /\ IInv /\ TypeOK /\ Outwaits(c)
      /\ (client[c].state # "done" => client[c].told = "none")
      /\ conn \in [Conn -> ConnectionState] /\ conn[c].due \in Nat \cup {-1}
      /\ \A r \in queue : r \in Request /\ r.due \in Nat \cup {-1}
  BY DEF SInv, SysTypeOK, IInv, TypeOK, ConnectionState, Calling, Request, Knows
<1>1. ASSUME client'[c].state = client[c].state, client'[c].told = client[c].told,
             client'[c].wait = client[c].wait,
             conn'[c].frame = "cmd" => conn[c].frame = "cmd" /\ conn'[c].due = conn[c].due,
             \A r \in queue' : r.conn = c /\ r.timed =>
               r \in queue \/ (conn[c].frame = "cmd" /\ r.due = conn[c].due)
      PROVE  Outwaits(c)'
  BY <1>1, <1>t DEF Outwaits
<1>2. CASE Time /\ client'[c] = [client[c] EXCEPT !.wait = IF @ > 0 THEN @ - 1 ELSE 0]
  <2> DEFINE less(d) == IF d > 0 THEN d - 1 ELSE 0
  <2>1. client'[c].wait = less(client[c].wait)
        /\ client'[c].state = client[c].state /\ client'[c].told = client[c].told
    BY <1>2, <1>t DEF Calling
  <2>2. conn'[c].frame = conn[c].frame /\ conn'[c].due = TickDue(conn[c])
    BY <1>2, <1>t DEF Time, Tick, ConnectionState
  <2>3. conn'[c].frame = "cmd" =>
          conn'[c].due = IF conn[c].due >= 0 THEN conn[c].due - 1 ELSE conn[c].due
    BY <2>2 DEF TickDue
  <2>4. \A r \in queue : TickRequest(r).conn = r.conn /\ TickRequest(r).timed = r.timed
                         /\ TickRequest(r).due = IF r.due >= 0 THEN r.due - 1 ELSE r.due
    BY <1>t DEF TickRequest, Request
  <2>5. queue' = {TickRequest(r) : r \in queue} BY <1>2 DEF Time, Tick
  <2> SUFFICES ASSUME (client[c].state = "calling" \/ client[c].told = "gave_up")'
               PROVE  /\ conn'[c].frame = "cmd" => conn'[c].due <= client'[c].wait
                      /\ \A r \in queue' : r.conn = c /\ r.timed => r.due <= client'[c].wait
                      /\ client'[c].told = "gave_up" => client'[c].wait = 0
    BY DEF Outwaits
  <2>6. /\ conn[c].frame = "cmd" => conn[c].due <= client[c].wait
        /\ \A r \in queue : r.conn = c /\ r.timed => r.due <= client[c].wait
        /\ client[c].told = "gave_up" => client[c].wait = 0
    BY <1>t, <2>1 DEF Outwaits
  <2>7. conn'[c].frame = "cmd" => conn'[c].due <= client'[c].wait
    BY <1>t, <2>1, <2>2, <2>3, <2>6
  <2>8. ASSUME NEW r \in queue, TickRequest(r).conn = c, TickRequest(r).timed
        PROVE  TickRequest(r).due <= client'[c].wait
    BY <1>t, <2>1, <2>4, <2>6, <2>8
  <2>9. client'[c].told = "gave_up" => client'[c].wait = 0 BY <2>1, <2>6
  <2> QED BY <2>5, <2>7, <2>8, <2>9
<1>3. CASE Open(c) /\ client'[c] = [client[c] EXCEPT !.state = "connected"]
  <2>1. client'[c].state = "connected" /\ client'[c].told = "none"
    BY <1>3, <1>t DEF Open, Calling
  <2> QED BY <2>1 DEF Outwaits
<1>4. ASSUME NEW f \in Sent, NEW d \in SuppliedTtl, client[c].state = "connected", Send(c, f, d),
             client'[c] = [client[c] EXCEPT !.state = "calling", !.wait = d]
      PROVE  Outwaits(c)'
  <2>1. client'[c].told = "none" /\ client'[c].wait = d BY <1>4, <1>t DEF Calling
  <2>2. ~Queued(c) /\ queue' = queue BY <1>4, <1>t DEF Send, IInv, HistoryInv, History
  <2>3. conn'[c].frame = "cmd" => conn'[c].due = d
    BY <1>4, <1>t DEF Send, ConnectionState
  <2>4. d \in Nat BY TtlAssumption
  <2> QED BY <2>1, <2>2, <2>3, <2>4 DEF Outwaits, Queued
<1>5. ASSUME NEW how \in Told, queue' = queue,
             conn'[c].frame = conn[c].frame, conn'[c].due = conn[c].due,
             client'[c] = [NotCalled EXCEPT !.state = "done", !.told = how],
             how = "gave_up" => client[c].state = "calling" /\ client[c].wait = 0
      PROVE  Outwaits(c)'
  <2>1. client'[c].state = "done" /\ client'[c].told = how /\ client'[c].wait = 0
    BY <1>5 DEF NotCalled
  <2> QED BY <1>5, <1>t, <2>1 DEF Outwaits
<1>6. CASE client'[c] = client[c] \/ (Bridge /\ client'[c] = [client[c] EXCEPT !.line = conn[c].reply])
  <2>1. client'[c].state = client[c].state /\ client'[c].told = client[c].told
        /\ client'[c].wait = client[c].wait
    BY <1>6, <1>t DEF Calling
  <2>2. CASE Bridge BY <1>1, <1>t, <2>1, <2>2, BridgeDeadlines DEF Bridge
  <2>3. CASE Time
    <3>1. client'[c] = [client[c] EXCEPT !.wait = IF @ > 0 THEN @ - 1 ELSE 0] BY <2>3 DEF Time
    <3> QED BY <1>2, <2>3, <3>1
  <2>4. ASSUME NEW x \in Conn, OwnStep(x) \/ CallerDies(x) PROVE Outwaits(c)'
    <3>1. queue' = queue
      BY <2>4 DEF OwnStep, CallerDies, Open, Connect, Unreachable, SendRequest, Send, ReadLine,
                  ConnectionClosed, GiveUp, vars
    <3>2. CASE SendRequest(x)
      <4>1. x # c BY <3>2, <2>1, <1>t DEF SendRequest, SInv, SysTypeOK
      <4>2. conn'[c] = conn[c] BY <3>2, <4>1, <1>t DEF SendRequest, Send
      <4> QED BY <1>1, <2>1, <3>1, <4>2
    <3>3. CASE Open(x)
      <4>1. conn'[c].frame = "cmd" => conn'[c] = conn[c]
        BY <3>3, <1>t DEF Open, Connect, Fresh
      <4> QED BY <1>1, <2>1, <3>1, <4>1
    <3>4. CASE ~SendRequest(x) /\ ~Open(x)
      <4>1. conn' = conn \/ Leave(x)
        BY <2>4, <3>4 DEF OwnStep, CallerDies, Unreachable, ReadLine, ConnectionClosed, GiveUp, vars
      <4>2. conn'[c].frame = conn[c].frame /\ conn'[c].due = conn[c].due
        BY <4>1, <1>t DEF Leave, ConnectionState
      <4> QED BY <1>1, <2>1, <3>1, <4>2
    <3> QED BY <3>2, <3>3, <3>4
  <2>5. CASE UNCHANGED sysVars
    BY <1>1, <2>1, <2>5 DEF sysVars, vars
  <2> QED BY <2>2, <2>3, <2>4, <2>5 DEF SysNext
<1> QED BY <1>2, <1>3, <1>4, <1>5, <1>6, ClientStep

LEMMA SysInitInv == SysInit => SInv
<1> SUFFICES ASSUME SysInit PROVE SInv OBVIOUS
<1>1. IInv BY InvInit DEF SysInit
<1>2. NotCalled \in Calling BY DEF NotCalled, Calling, State, Told
<1>3. SysTypeOK BY <1>1, <1>2 DEF SysInit, SysTypeOK, IInv
<1>4. \A c \in Conn : Knows(c) /\ Outwaits(c)
  BY DEF SysInit, NotCalled, Knows, Truth, Outwaits
<1> QED BY <1>1, <1>3, <1>4 DEF SInv

LEMMA SysInductive == SInv /\ [SysNext]_sysVars => SInv' /\ [Next]_vars
<1> SUFFICES ASSUME SInv, [SysNext]_sysVars PROVE SInv' /\ [Next]_vars OBVIOUS
<1>1. [Next]_vars BY SystemStep DEF SInv, SysTypeOK
<1>2. IInv' BY <1>1, Inductive DEF SInv
<1>3. client' \in [Conn -> Calling]
  <2>1. \A c \in Conn : client'[c] \in Calling BY ClientStep
  <2>2. client \in [Conn -> Calling] BY DEF SInv, SysTypeOK
  <2>3. CASE Bridge \/ Time BY <2>1, <2>3 DEF Bridge, Time
  <2>4. ASSUME NEW c \in Conn, OwnStep(c) \/ CallerDies(c) PROVE client' \in [Conn -> Calling]
    <3>1. CASE Open(c) BY <2>1, <2>2, <3>1 DEF Open
    <3>2. CASE SendRequest(c) BY <2>1, <2>2, <3>2 DEF SendRequest
    <3>3. CASE ~Open(c) /\ ~SendRequest(c)
      BY <2>1, <2>2, <2>4, <3>3
         DEF OwnStep, CallerDies, Unreachable, ReadLine, ConnectionClosed, GiveUp, Ended
    <3> QED BY <3>1, <3>2, <3>3
  <2>5. CASE UNCHANGED sysVars BY <2>2, <2>5 DEF sysVars
  <2> QED BY <2>3, <2>4, <2>5 DEF SysNext
<1>4. \A c \in Conn : (Knows(c) /\ Outwaits(c))'
  BY <1>1, KnowsStep, OutwaitsStep
<1> QED BY <1>1, <1>2, <1>3, <1>4 DEF SInv, SysTypeOK, IInv

LEMMA SysInvariance == SysSpec => []SInv /\ [][Next]_vars
BY SysInitInv, SysInductive, PTL DEF SysSpec

-----------------------------------------------------------------------------
(* The bridge keeps its type invariant with clients attached, and what     *)
(* they hold is well formed.                                               *)
THEOREM SystemTypeCorrect == SysSpec => []SysTypeOK
<1>1. SInv => SysTypeOK BY DEF SInv
<1> QED BY <1>1, SysInvariance, PTL

LEMMA PromiseInit == SysInit => Promise!Init
<1> SUFFICES ASSUME SysInit PROVE Promise!Init OBVIOUS
<1>1. ran = [c \in Conn |-> 0] BY DEF SysInit, Init
<1>2. \A c \in Conn : Learned(client[c].told) = "none" BY DEF SysInit, NotCalled, Learned
<1> QED BY <1>1, <1>2 DEF Promise!Init

LEMMA PromiseStep == SInv /\ [SysNext]_sysVars => [Promise!Next]_Promise!vars
<1> DEFINE learned == [c \in Conn |-> Learned(client[c].told)]
<1> SUFFICES ASSUME SInv, [SysNext]_sysVars PROVE [Promise!Next]_Promise!vars OBVIOUS
<1>t. client \in [Conn -> Calling] /\ ran \in [Conn -> Nat] /\ IInv /\ [Next]_vars
      /\ \A c \in Conn : Knows(c)
  BY SystemStep DEF SInv, SysTypeOK, IInv, TypeOK
<1>1. CASE Bridge \/ Time \/ UNCHANGED sysVars
  <2>1. \A c \in Conn : client'[c].told = client[c].told
    BY <1>1, <1>t DEF Bridge, Time, sysVars, Calling
  <2>2. learned' = learned BY <2>1
  <2>3. ASSUME NEW r \in queue, r.conn \in Conn, ran[r.conn] = 0,
               ran' = [ran EXCEPT ![r.conn] = 1]
        PROVE  Promise!Next
    <3> DEFINE c == r.conn
    <3>1. Queued(c) BY DEF Queued
    <3>2. client[c].told \notin {"run", "refused", "over"}
      BY <1>t, <2>3, <3>1 DEF Knows, Truth
    <3>3. Learned(client[c].told) \in {"none", "unknown"}
      BY <1>t, <2>3, <3>2 DEF Learned, Calling, Told
    <3>4. learned[c] \in {"none", "unknown"} BY <2>3, <3>3
    <3>5. Promise!Run(c) BY <2>2, <2>3, <3>4 DEF Promise!Run
    <3> QED BY <2>3, <3>5 DEF Promise!Next
  <2>4. CASE ran' = ran BY <2>2, <2>4 DEF Promise!vars
  <2> QED BY <1>t, <2>3, <2>4, RanStep
<1>2. ASSUME NEW c \in Conn, OwnStep(c) \/ CallerDies(c) PROVE [Promise!Next]_Promise!vars
  <2>1. ran' = ran
    BY <1>2 DEF OwnStep, CallerDies, Open, Connect, Unreachable, SendRequest, Send, ReadLine,
                ConnectionClosed, GiveUp, vars
  <2>2. CASE Open(c) \/ SendRequest(c)
    <3>1. \A x \in Conn : client'[x].told = client[x].told
      BY <1>t, <2>2 DEF Open, SendRequest, Calling
    <3>2. learned' = learned BY <3>1
    <3> QED BY <2>1, <3>2 DEF Promise!vars
  <2>3. ASSUME NEW how \in Told \ {"none"}, Ended(c, how), client[c].state # "done",
               how \in {"run", "refused", "over"} => Truth(c, how)
        PROVE  Promise!Next
    <3>1. client[c].told = "none" BY <1>t, <2>3 DEF Knows
    <3>2. learned[c] = "none" BY <3>1 DEF Learned
    <3>3. Learned(how) \in {"run", "refused", "over", "unknown"} /\ (Learned(how) = "run" => how = "run")
          /\ (Learned(how) = "refused" => how = "refused")
          /\ Learned(how) \in Promise!Outcome
      BY DEF Learned, Told, Promise!Outcome
    <3>4. client'[c].told = how /\ \A x \in Conn \ {c} : client'[x] = client[x]
      BY <2>3, EndedClient DEF SInv
    <3>5. learned' = [learned EXCEPT ![c] = Learned(how)] BY <3>4
    <3>6. Promise!Tell(c, Learned(how))
      BY <2>1, <2>3, <3>2, <3>3, <3>5 DEF Promise!Tell, Truth
    <3> QED BY <3>3, <3>6 DEF Promise!Next
  <2>4. CASE Unreachable(c) \/ ConnectionClosed(c) \/ CallerDies(c)
    BY <2>3, <2>4 DEF Unreachable, ConnectionClosed, CallerDies, Told
  <2>5. CASE GiveUp(c) BY <2>3, <2>5 DEF GiveUp, Told
  <2>6. CASE ReadLine(c)
    <3>1. Meaning(client[c].line) \in Told \ {"none"} BY DEF Meaning, Told
    <3>2. Truth(c, Meaning(client[c].line)) BY <1>t, <2>6 DEF ReadLine, Knows
    <3> QED BY <2>3, <2>6, <3>1, <3>2 DEF ReadLine
  <2> QED BY <1>2, <2>2, <2>4, <2>5, <2>6 DEF OwnStep
<1> QED BY <1>1, <1>2 DEF SysNext

(* bridge.py and runtime.rb together implement CommandCalls: "run",        *)
(* "refused" and "over" are true when a caller learns them and stay true.  *)
THEOREM CallsKeepTheirPromise == SysSpec => KeepsItsPromise
<1>1. SysSpec => Promise!Init BY PromiseInit DEF SysSpec
<1> QED BY <1>1, PromiseStep, SysInvariance, PTL DEF SysSpec, KeepsItsPromise, Promise!Spec

(* Whoever gave up waiting meets a late start in the deadline's own        *)
(* millisecond only.                                                       *)
THEOREM GivingUpIsSafe == SysSpec => NoStartAfterGivingUp
<1> DEFINE A == \A r \in queue :
                  r.timed /\ ran'[r.conn] # ran[r.conn] /\ client[r.conn].told = "gave_up"
                    => r.due = 0
<1>1. SInv /\ [SysNext]_sysVars => [A]_sysVars
  <2> SUFFICES ASSUME SInv, [SysNext]_sysVars, NEW r \in queue, r.timed,
                      ran'[r.conn] # ran[r.conn], client[r.conn].told = "gave_up"
               PROVE  r.due = 0
    OBVIOUS
  <2>1. [Next]_vars /\ IInv BY SystemStep DEF SInv, SysTypeOK
  <2>2. r.conn \in Conn /\ r.due \in Nat \cup {-1} /\ (\A q \in queue : q = r)
    BY DEF SInv, IInv, TypeOK, Request
  <2>3. ~Refused(r) BY <2>1, <2>2, RanStep
  <2>4. r.due >= 0 BY <2>2, <2>3 DEF Refused
  <2>5. r.due <= 0 BY <2>2 DEF SInv, Outwaits
  <2> QED BY <2>2, <2>4, <2>5
<1> QED BY <1>1, SysInvariance, PTL DEF SysSpec, NoStartAfterGivingUp
=============================================================================
