---------------------------- MODULE TcpDispatch ----------------------------
(***************************************************************************)
(* rb_rg_tcp_sink_thread and the threads that open its socket.  The thread *)
(* that sets the sink up connects once, the timer thread connects whenever *)
(* it finds no socket, a failed write forgets the socket.  A connect and a *)
(* write give up the GVL; what they return is assigned afterwards, over    *)
(* whatever sock holds by then.                                            *)
(***************************************************************************)
EXTENDS Dispatch, FiniteSets

CONSTANT MaxConnections   \* bound: sockets opened in a run

ASSUME MaxConnectionsAssumption == MaxConnections \in Nat

VARIABLES
  sock,      \* sink_data.sock: a socket (1, 2, ... as opened) or NoSocket
  opened,    \* history: number of sockets opened
  broken,    \* history: sockets a write on which failed
  writing,   \* the socket the sink thread is writing to
  setup      \* pc of the thread in rb_rg_tracer_tcp_sink_set

socketVars == <<sock, opened, broken, writing, setup>>
tcpVars == <<sinkVars, threadVars, socketVars>>

NoSocket == 0   \* Qnil

(* The sink's type is set and both threads run; the setup thread connects. *)
TcpInit ==
  /\ InitThreads
  /\ sock = NoSocket
  /\ opened = 0
  /\ broken = {}
  /\ writing = NoSocket
  /\ setup = "connecting"

(* rb_protect around TCPSocket.new: a socket, or Qnil when it raised.      *)
ConnectReturns ==
  /\ \/ opened < MaxConnections /\ opened' = opened + 1 /\ sock' = opened + 1
     \/ sock' = NoSocket /\ UNCHANGED opened
  /\ UNCHANGED <<broken, writing>>

(* The tail of rb_rg_tracer_tcp_sink_set.  The program traces nothing      *)
(* before it has returned.                                                 *)
SetupConnects ==
  /\ setup = "connecting"
  /\ ConnectReturns
  /\ setup' = "done"
  /\ UNCHANGED <<sinkVars, threadVars>>

Traces == setup = "done" /\ ApplicationEncodes /\ UNCHANGED socketVars

(* rb_rg_timer_thread, from the flush on: it may lose the GVL in between.  *)
TimerMoves(from, to) ==
  /\ Alive
  /\ timer = from
  /\ timer' = to
  /\ UNCHANGED <<sinkVars, running, sink, payload, main, sends, ended>>

AlwaysReconnect == TRUE
NeverReconnect == FALSE
MayReconnect == sock = NoSocket

TimerFindsSocket ==
  /\ ~MayReconnect
  /\ TimerMoves("flushed", "check")
  /\ UNCHANGED socketVars

TimerFindsNoSocket ==
  /\ MayReconnect
  /\ TimerMoves("flushed", "connecting")
  /\ UNCHANGED socketVars

TimerConnects ==
  /\ TimerMoves("connecting", "check")
  /\ ConnectReturns
  /\ UNCHANGED setup

TcpTimer ==
  \/ TimerCheck /\ UNCHANGED socketVars
  \/ TimerTick("flushed") /\ UNCHANGED socketVars
  \/ TimerFindsSocket \/ TimerFindsNoSocket
-----------------------------------------------------------------------------
(* Without a socket a message is taken from the ring and not written; the  *)
(* send still returns without an exception.                                *)
PollWithoutSocket ==
  /\ sock = NoSocket
  /\ PollMessage
  /\ SinkSteps("awake", "awake")
  /\ payload' = NextMessage
  /\ DoneWith(NextMessage, FALSE)
  /\ UNCHANGED socketVars

PollThenWrite ==
  /\ sock # NoSocket
  /\ PollMessage
  /\ SinkSteps("awake", "sending")
  /\ payload' = NextMessage
  /\ writing' = sock
  /\ UNCHANGED <<sends, sock, opened, broken, setup>>

WriteSucceeds ==
  /\ SinkSteps("sending", "awake")
  /\ DoneWith(payload, TRUE)
  /\ writing' = NoSocket
  /\ UNCHANGED <<sinkVars, payload, sock, opened, broken, setup>>

WriteFailsAndRetries ==
  /\ SinkSteps("sending", "sending")
  /\ DoneWith(payload, FALSE)
  /\ UNCHANGED <<sinkVars, payload, socketVars>>

WriteFails ==
  /\ SinkSteps("sending", "awake")
  /\ DoneWith(payload, FALSE)
  /\ sock' = NoSocket
  /\ broken' = broken \cup {writing}
  /\ writing' = NoSocket
  /\ UNCHANGED <<sinkVars, payload, opened, setup>>

SinkRuns ==
  \/ (SinkRests \/ SinkWakes \/ SinkExits) /\ UNCHANGED socketVars
  \/ PollWithoutSocket \/ PollThenWrite

TcpMain ==
  /\ EncodeProcessEnded \/ StopRunning \/ Joined \/ JoinTimesOut \/ ProcessExits
  /\ UNCHANGED socketVars

ProcessEnds == setup = "done" /\ ShutdownFlush /\ UNCHANGED socketVars

TcpNext ==
  \/ Traces
  \/ SetupConnects
  \/ TcpTimer \/ TimerConnects
  \/ SinkRuns \/ WriteSucceeds \/ WriteFails
  \/ ProcessEnds \/ TcpMain
  \/ Exited /\ UNCHANGED socketVars

(* A connect or a write may block for good when the Agent does not answer; *)
(* everything else the threads do goes on.                                 *)
TcpSpec ==
  /\ TcpInit
  /\ [][TcpNext]_tcpVars
  /\ WF_tcpVars(SinkRuns)
  /\ WF_tcpVars(TcpTimer)
  /\ WF_tcpVars(TcpMain)
-----------------------------------------------------------------------------
(* Each message polled, but the one in hand, was written once, whole, or   *)
(* counted as failed, or met no socket; none is written again.             *)
PolledIsWritten == HandledOnce

(* What the Agent is sent over TCP, over all connections and reconnects:   *)
(* commands in the order they were encoded, none twice, none altered.      *)
Written(s) == IF s.sent THEN Packet(s.msg) ELSE <<>>

WireChannel == INSTANCE LossyChannel WITH
  pipe <- (IF sink.pc = "sending" THEN Ids(payload) ELSE {}) \cup InFlight,
  delivered <- [i \in 1..Len(sends) |-> Written(sends[i])]

WireInOrder == WireChannel!Spec

(* The connects of the setup and of the timer thread race, and the later   *)
(* assignment wins; still at most one working socket is ever abandoned.    *)
AtMostOneStraySocket == Cardinality((1..opened) \ (broken \cup {sock})) <= 1

(* While the process runs, a missing socket is noticed: the timer thread   *)
(* starts a connect, or the setup's own one is still on its way.           *)
DisconnectIsNoticed ==
  sock = NoSocket ~> (sock # NoSocket \/ "connecting" \in {timer, setup} \/ ~running)
=============================================================================
