------------------------------ MODULE Dispatch ------------------------------
(***************************************************************************)
(* The threads around a batched sink, in the parts the UDP and the TCP     *)
(* transport share: application threads encode commands, the timer thread  *)
(* flushes the partial batch on every tick, the sink thread empties the    *)
(* ring, and the thread that ends the process flushes, encodes a last      *)
(* command, clears "running" and waits for the sink thread.                *)
(*                                                                         *)
(* Ruby threads switch only where C code gives up the GVL, so a step runs  *)
(* from one such place to the next: a wait, a send, the rb_thread_schedule *)
(* at the end of the sink function.                                        *)
(***************************************************************************)
EXTENDS BatchedSink

CONSTANT ProcessEndedSize   \* encoded length of PROCESS_ENDED

ASSUME ProcessEndedAssumption == ProcessEndedSize \in EventSizes

VARIABLES
  running,   \* sink_data.running
  sink,      \* the sink thread: pc, and what it carries over a wait
  payload,   \* sink_data.payload, the string being sent
  timer,     \* pc of the timer thread
  main,      \* pc of the thread that calls process_ended
  sends,     \* history: what became of each payload, in order
  ended      \* history: commands encoded when process_ended flushed

threadVars == <<running, sink, payload, timer, main, sends, ended>>

Alive == main # "exited"
Empty == bipbuf_is_empty(ring)

InitThreads ==
  /\ InitBatchedSink
  /\ running = TRUE
  /\ sink = [pc |-> "awake", bytes |-> 0, at |-> 0, size |-> 0, jittered_sends |-> 0]
  /\ payload = Torn
  /\ timer = "check"
  /\ main = "tracing"
  /\ sends = <<>>
  /\ ended = 0

(* A thread of the application, inside the tracing hook or emit.           *)
ApplicationEncodes ==
  /\ Alive
  /\ encoded < MaxEvents
  /\ \E e \in NextEvents : Encode(e)
  /\ UNCHANGED threadVars
-----------------------------------------------------------------------------
(* rb_rg_timer_thread                                                      *)
TimerCheck ==
  /\ Alive
  /\ timer = "check"
  /\ timer' = IF running THEN "wait" ELSE "done"
  /\ UNCHANGED <<sinkVars, running, sink, payload, main, sends, ended>>

TimerTick(to) ==
  /\ Alive
  /\ timer = "wait"
  /\ FlushBatch
  /\ timer' = to
  /\ UNCHANGED <<running, sink, payload, main, sends, ended>>
-----------------------------------------------------------------------------
(* rb_rg_process_ended                                                     *)
MainSteps(from, to) ==
  /\ main = from
  /\ main' = to
  /\ UNCHANGED <<sink, payload, timer, sends>>

ShutdownFlush ==
  /\ MainSteps("tracing", "flushed")
  /\ FlushBatch
  /\ ended' = encoded
  /\ UNCHANGED running

EncodeProcessEnded ==
  /\ MainSteps("flushed", "ended")
  /\ Encode(Event(encoded + 1, ProcessEndedSize))
  /\ UNCHANGED <<running, ended>>

StopRunning ==
  /\ MainSteps("ended", "joining")
  /\ running' = FALSE
  /\ UNCHANGED <<sinkVars, ended>>

(* The join returns because the sink thread ended, or after                *)
(* RG_SHUTDOWN_GRACE_SECONDS; then the process exits.                      *)
Joined ==
  /\ sink.pc = "done"
  /\ MainSteps("joining", "joined")
  /\ UNCHANGED <<sinkVars, running, ended>>

JoinTimesOut ==
  /\ sink.pc # "done"
  /\ MainSteps("joining", "abandoned")
  /\ UNCHANGED <<sinkVars, running, ended>>

ProcessExits ==
  /\ \/ MainSteps("joined", "exited")
     \/ MainSteps("abandoned", "exited")
  /\ UNCHANGED <<sinkVars, running, ended>>

Exited == ~Alive /\ UNCHANGED <<sinkVars, threadVars>>
-----------------------------------------------------------------------------
(* The loop both sink threads share.  Lengths are positive and messages    *)
(* are polled whole (PollSucceeds), so the two branches that clear running *)
(* on a bad length or a NULL poll are never taken.                         *)
SinkSteps(from, to) ==
  /\ Alive
  /\ sink.pc = from
  /\ sink' = [sink EXCEPT !.pc = to]
  /\ UNCHANGED <<running, timer, main, ended>>

ExitEarly == ~running
ExitOnceBatchIsEmpty == ~running /\ Empty /\ batch.events = <<>>

MayExit == ~running /\ Empty

SinkRests ==
  /\ Empty
  /\ running
  /\ SinkSteps("awake", "asleep")
  /\ UNCHANGED <<sinkVars, payload, sends>>

SinkWakes ==
  /\ Alive
  /\ sink.pc = "asleep"
  /\ sink' = [sink EXCEPT !.pc = "awake", !.bytes = 0]
  /\ UNCHANGED <<sinkVars, running, payload, timer, main, sends, ended>>

SinkExits ==
  /\ MayExit
  /\ SinkSteps("awake", "done")
  /\ UNCHANGED <<sinkVars, payload, sends>>

(* The sink thread lets go of a payload: the socket took it, or did not.   *)
DoneWith(m, sent) == sends' = Append(sends, [msg |-> m, sent |-> sent])
-----------------------------------------------------------------------------
(* A message polled and not yet sent.                                      *)
InHand == IF sink.pc \in {"jitter", "sending"} THEN 1 ELSE 0

(* Every message polled, but the one in hand, was dealt with once, in the  *)
(* order of the polls and unaltered.                                       *)
HandledOnce ==
  /\ Len(sends) + InHand = Len(polled)
  /\ \A i \in 1..Len(sends) : sends[i].msg = polled[i]

(* When process_ended returns because the sink thread has ended, nothing   *)
(* encoded before it was called is still in the batch, in the ring or in   *)
(* the sink thread's hands (rb_rg_process_ended).                          *)
ShutdownDrains ==
  main = "joined" =>
    /\ sink.pc = "done"
    /\ \A id \in InFlight : id > ended

(* process_ended returns.  Over UDP it does not need the timeout of the    *)
(* join: with running cleared the sink thread empties the ring and ends.   *)
(* Over TCP it does, for a write may never return.                         *)
ShutdownReturns == main = "flushed" ~> main = "exited"
=============================================================================
