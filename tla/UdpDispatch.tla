---------------------------- MODULE UdpDispatch ----------------------------
(***************************************************************************)
(* rb_rg_udp_sink_thread: messages are polled and sent one by one.  When   *)
(* the bytes taken since the last wait reach the Agent's receive buffer    *)
(* and the ring is at most half full, the thread waits a tick between      *)
(* polling a message and copying it out of the ring.                       *)
(***************************************************************************)
EXTENDS Dispatch

CONSTANT ReceiveBuffer   \* sink_data.receive_buffer_size

ASSUME ReceiveBufferAssumption == ReceiveBuffer \in Nat

udpVars == <<sinkVars, threadVars>>

SinkTakes(to) ==
  /\ Alive
  /\ sink.pc = "awake"
  /\ sink' = [sink EXCEPT !.pc = to, !.bytes = @ + NextMessage.length,
                          !.at = ring.a_start, !.size = NextMessage.length]
  /\ UNCHANGED <<running, timer, main, sends, ended>>

JitterDue ==
  /\ sink.bytes + NextMessage.length >= ReceiveBuffer
  /\ bipbuf_used(ring') <= Size \div 2

PollThenCopy ==
  /\ PollMessage
  /\ ~JitterDue
  /\ SinkTakes("sending")
  /\ payload' = NextMessage

(* The polled bytes stay where they are, in memory the ring may reuse.     *)
PollThenWait ==
  /\ PollFrom(ring)
  /\ JitterDue
  /\ SinkTakes("jitter")
  /\ UNCHANGED payload

CopyAfterWait ==
  /\ Alive
  /\ sink.pc = "jitter"
  /\ sink' = [sink EXCEPT !.pc = "sending", !.bytes = 0, !.jittered_sends = @ + 1]
  /\ payload' = BytesAt(ring, sink.at, sink.size)
  /\ UNCHANGED <<sinkVars, running, timer, main, sends, ended>>

SendSucceeds ==
  /\ SinkSteps("sending", "awake")
  /\ DoneWith(payload, TRUE)
  /\ UNCHANGED <<sinkVars, payload>>

SendFailsAndRetries ==
  /\ SinkSteps("sending", "sending")
  /\ DoneWith(payload, FALSE)
  /\ UNCHANGED <<sinkVars, payload>>

(* The exception is swallowed and counted; the message is not sent again.  *)
SendFails ==
  /\ SinkSteps("sending", "awake")
  /\ DoneWith(payload, FALSE)
  /\ UNCHANGED <<sinkVars, payload>>

SinkThread ==
  \/ SinkRests \/ SinkWakes \/ SinkExits
  \/ PollThenCopy \/ PollThenWait \/ CopyAfterWait
  \/ SendSucceeds \/ SendFails

UdpTimer == TimerCheck \/ TimerTick("check")

UdpMain == EncodeProcessEnded \/ StopRunning \/ Joined \/ ProcessExits

UdpNext ==
  \/ ApplicationEncodes
  \/ SinkThread
  \/ UdpTimer
  \/ ShutdownFlush \/ UdpMain \/ JoinTimesOut
  \/ Exited

(* Ruby runs every runnable thread in turn, waits end, and a send to a     *)
(* datagram socket returns.  Nothing makes the process end, and once it is *)
(* asked to, nothing relies on the join timing out.                        *)
UdpSpec ==
  /\ InitThreads
  /\ [][UdpNext]_udpVars
  /\ WF_udpVars(SinkThread)
  /\ WF_udpVars(UdpTimer)
  /\ WF_udpVars(UdpMain)
-----------------------------------------------------------------------------
(* Whatever encoders and timer do between its steps, the sink thread finds *)
(* the length of the oldest unread message at the read cursor and can poll *)
(* it whole, so it never takes the branches that end the thread.           *)
PollSucceeds ==
  ~Empty => /\ ring.a_start \in DOMAIN ring.data
            /\ NextMessage = Head(queued)
            /\ CanPoll(ring, NextMessage.length)

(* Every message polled, but the one in hand, had one send, that succeeded *)
(* or was counted as failed, in order and unaltered, unless the thread has *)
(* waited between a poll and the copy.                                     *)
PolledIsSent == sink.jittered_sends = 0 => HandledOnce

(* While the process runs, every command leaves the batch and the ring: it *)
(* is polled or dropped, however seldom the application encodes another.   *)
EveryCommandMovesOn ==
  \A id \in 1..MaxEvents :
    encoded >= id ~> (~running \/ id \notin InFlight)

(* The wait that slows the dispatch down does not change what is sent.     *)
JitterKeepsPayload == sink.pc = "sending" => payload = polled[Len(polled)]
=============================================================================
