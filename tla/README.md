# Raygun APM for Ruby: a TLA+ model of the native profiler

The gem `raygun-apm` is a C extension (`ext/raygun`) with a thin Ruby layer
(`lib/raygun/apm`). A trace point of the Ruby VM reports calls, returns and
exceptions; the extension turns them into wire protocol commands, packs the
commands into batches, puts the batches into a ring buffer, and a dispatch
thread sends them to the Agent over UDP or TCP. None of this may block or
corrupt the traced program, and loss must show up in the batch numbers.

This directory models that path from the hook to the socket, and what decides
about it: threads and traces, the method table, the filter rules. TLC checks the
modules on small instances. TLAPS proves, for all values of the constants, every
safety property and every refinement that a passing run checks: those of the
path from the encoder to the socket, of the shadow stack, the method table and
the trace contexts, and of the radix trees and the filter rules kept in them.
What is left to TLC alone is liveness.

## 1. Inventory

Paths are relative to `ext/raygun` unless they start with `lib`.

| Component | State | Operations | Modelled in |
|---|---|---|---|
| Bip buffer, `Ringbuf` (`bipbuffer.c`, `raygun_ringbuf.c`) | `a_start`, `a_end`, `b_end`, `b_inuse`, the bytes | offer, peek, poll; push, shift | `BipBuffer`, `RingBuffer`, `MessageQueue` |
| Batched sink (`rb_rg_batched_sink`) | `batch` (buffer, count, length, sequence) and the ring | encode one command, flush | `BatchedSink`, `LossyChannel` |
| UDP dispatch (`rb_rg_udp_sink_thread`) | `running`, byte count since the last wait, payload string | poll, jitter wait, send, exit | `Dispatch`, `UdpDispatch` |
| TCP dispatch (`rb_rg_tcp_sink_thread`, `rb_rg_tcp_connect`) | the same, and `sock` | poll, write, forget a socket, connect | `Dispatch`, `TcpDispatch` |
| Timer thread, shutdown (`rb_rg_timer_thread`, `rb_rg_process_ended`) | tick count; `running` | flush, reconnect, re-sync methods; flush, PROCESS_ENDED, stop, join | `Dispatch`, both transports, `MethodTable` |
| Tracing hook (`rb_rg_tracing_hook_i`) | `rg_thread_t`: `vm_top`, `shadow_top`, `shadow_stack`, library level | CALL, RETURN, RAISE, thread begin and end | `ShadowStack`, `TraceContexts` |
| Threads, trace contexts (`start_trace`, `end_trace`, `rb_rg_thread`) | thread table, the trace contexts by thread group, `parent_thread` | start and end a trace, register, start and end a thread | `TraceContexts` |
| Method table (`rb_rg_methodinfo`, `rb_rg_async_emit_methodinfos`) | `methodinfo`, next function id | look up, discover, repeat METHODINFO, empty | `MethodTable` |
| Filter rules (`rb_rg_blacklisted_method_p`, `add_blacklist`, `rax.c`) | five radix trees, decisions in the method table | add a rule, add libraries, look a method up | `Rax`, `Blacklist`, `RuleTable` |
| Encoder, events, coercion (`raygun_encoder.c`, `raygun_event.c`, `raygun_coercion.c`) | scratch buffer, event objects | set an attribute, measure, encode, emit | `WireFormat`, `Events` |
| Library hooks (`lib/raygun/apm/hooks`) | one event object for each client | wrap a call, fill the event in, emit | `Events` |
| Callback sink | none | call a proc with each event | no |
| Blacklist parser, configuration, diagnostics (`lib`) | none | translate text, read environment | no |

**Interactions.** The VM calls the hook on the traced thread. The hook updates
the thread's record and calls the encoder, which calls the sink function of the
tracer. The sink function writes the batch and the ring directly. The dispatch
thread and the sink function share the ring and `running`; the timer thread
calls the same sink function with a NULL event, repeats the method table through
it and, for TCP, writes `sock`. Every trace has a trace point that reports the
events of all Ruby threads, and its hook keeps those of its thread group.
There is no lock of the gem's own: it relies on the GVL, so what matters is
where C code gives it up.

**What is hard.** Where the GVL is released decides which interleavings exist:
`rb_thread_wait_for` and `rb_thread_schedule`, the socket send, the connect, the
join, and the `rb_thread_schedule` at the end of the sink function. State read
before such a place and used after it is a hazard (the polled bytes over the
jitter wait, `sock` over a connect, a table that is walked, a trace context
between its END_TRANSACTION and its removal, an event object that a hook fills
in). The limits come next: packet sizes, ring
capacity, shadow stack depth, library level. Then partial failure (a refused
batch, a raised send, no socket) and shutdown. PROJECT.json lists the hazards at
their lines.

## 2. Modules and how they correspond to the code

**`BipBuffer`** holds the functions of `bipbuffer.c` as operators on a buffer
value. Memory is kept per message: `data` maps an offset to the message copied
there, and a copy that touches a byte of an older message removes that message.
Overwriting unread bytes is thus visible. A region is a sequence of messages,
each with its offset (`Placed`); `LaidOut` says that two regions lie back to back
between the cursors of a buffer, with their bytes in place. `RingBuffer` adds the
two Ruby methods; `regionA` and `regionB` are history variables that list the messages
of each region. The length passed to shift is that of the next message, as all
callers pass it; `Ringbuf#shift` itself does not enforce it (see the hazards).
`MessageQueue` is the abstract promise: first in, first out, whole messages, and
a refusal only when the message would leave the array more than half full.

**`BatchedSink`** is `rb_rg_batched_sink`. A command is an id and an encoded
length, and lies in its batch at an offset; each branch of the function is an action in the order of the code
(`AppendToBatch`, `DispatchThenAppend`, `OfferRaw`, `DispatchLarge`,
`FlushBatch`). A call is one step because the function keeps the GVL until its
last statement. History variables record what was queued, polled, refused and
discarded; `Offered` and `OfferBoth` put one message, or two, into a ring that may
refuse each. `LossyChannel` is the abstract promise: commands may be lost, in the
pipe or as they are sent, never reordered, repeated or altered.

**`Dispatch`** adds the threads: application threads that encode, the timer's
loop, the shutting-down thread, and the parts the two sink threads share. A
thread's program counter stands at the places where the GVL is released. `sends`
records what became of each payload, in order: `HandledOnce` compares it with what
was polled. **`UdpDispatch`** adds the jitter wait, between the poll and the copy as in the
code, and the send. **`TcpDispatch`** adds sockets: the connect of
`rb_rg_tracer_tcp_sink_set`, the reconnect of the timer thread, writes that
fail, and the assignment of `sock` after a connect returns, over whatever it
holds by then.

**`ShadowStack`** is the tracing hook on the thread of a trace. `frames` is
Ruby's own stack since the trace started, with a note of the record at each
call. `Enter` and `Leave` are what CALL and RETURN do to the record. The
environment calls, returns, raises, returns from frames that are older than the
trace (`OuterReturns`), runs into a `SystemStackError`, which unwinds frames
without return events, and ends a trace and starts another. A method is its
function id and its source: `user` (any the hook treats as ordinary),
`library`, `synchronization`, `blacklisted` (also what stands for a method of
the tracer itself, at which the hook returns too). `FoundInTable` models the
unchecked lookup of a return: when the call found the shadow stack full and so
never looked its method up, the entry may be uninitialised, and any method is
considered, except that reading through a wild pointer is not modelled.

**`TraceContexts`** has Ruby's threads and groups as its environment (`Create`,
`ThreadBegin`, `ThreadEnd`) and the tracer's two tables as its state. `Keeps` is
the filter of the hook, `Register` is `rb_rg_thread`, `ThreadBegin` is
RUBY_EVENT_THREAD_BEGIN with the two registrations it causes. `start_trace` and
`end_trace` are several actions, split where a command is sent; `freed` records
the contexts that were freed, `ancestors` the threads each thread descends from.
A group is numbered by the trace that made it. A
thread is taken to end the trace it has started before it ends itself (an owner
that does not leaves the context's `rg_thread` dangling), and the tracer not to
be in `noop` mode.

**`MethodTable`** discovers methods in the threads that call them: one step up to
METHODINFO, in whose sink the thread yields, and `Resume` for the BEGIN. The
timer thread's sync yields after each command. `AddRule` empties the table; the
library adds rules between calls, so no thread holds an entry then. The Agent
may restart and know nothing. `named`, `resent` and `kept` are history.

**`Rax`** is the radix tree as far as the tracer calls it: `raxLowWalk` with its
stack, `raxInsert` with each of its cases (overwrite, split a compressed node at
its start, inside, at its end; cut it where a word ends; extend), `raxSeek` for
`<=` with the steps back it takes, and `raxNext`. The address of a node is the
word that the edges from the head to it spell: a tree is a function from
addresses to nodes, and the pointer to a child is the address of its parent
followed by the edge. When the code writes a pointer into a parent, the node it
leads to appears at that address; a reallocated node keeps its own. A loop of
the code is `Iterate`: its turn as a function, applied as often as the loop can
go round, where a turn that finds the loop ended changes nothing. The iterator's
stack is the nodes above the one it stands on, so `Parent` pops it.
**`Blacklist`** adds the rules of each kind to the trees and looks methods up in
the order of `rb_rg_blacklisted_method_p`, including the walk along the stack of
nodes and the scan for namespace rules; the decision about a method stays in
`decided` until a rule is added. `RuleTable` is the abstract promise: a rule sets
one entry of a table and disturbs no other. Characters are numbers in the order
of the bytes they stand for, of which only `#` and `:` have a meaning. A library
that is registered has a path of at least one character, as those the gem passes
have; a rule with neither path nor method is turned away by the code itself.

**`WireFormat`** has, for each type of event, the fields of its struct, the size
function and the bytes written, as the encoder has them, apart from each other.
What one memcpy writes is a cell: an offset, a width and a value; of a string its
length and whose it is. What a function writes is its cells and the length it
returns, and `a ++ b` is one after the other. **`Events`** is what happens to an event object: the hooks of
the clients set its attributes one statement at a time, each `[]=` measures it
again, `emit` copies as many bytes as were measured. Threads may share a client
and so its event. `EmitNative` is the path of the encoder's own functions, which
write the payload first and take its size. Lengths are taken modulo 2^16.

Left out on purpose: telemetry counters other than those a property needs,
logging, allocation failure, the wording of names.

## 3. Runs

| Run | Question | Bounds |
|---|---|---|
| `ringbuf` | Are messages whole, in place and in order through each switch between regions? | array of 8, lengths 1, 2, 3, 5, two ids: fill, wrap, B in use, refusals all occur |
| `batch` | Packet limits, numbering, accounting for each command, order | the real sizes 13, 1400, 4096; command sizes on both sides of each comparison; ring of 7000 so that batches are refused; 5 commands |
| `udp` | All threads interleaved: whole polls, no loss after the poll, drain at shutdown, progress | sizes scaled to packet 4, header 1; ring 10, 2 commands and PROCESS_ENDED; receive buffer 6, so the jitter wait occurs |
| `udp_jitter` | Is the payload sent the one polled? *violated* | 3 commands |
| `tcp` | Connects racing, writes failing or blocking, order on the wire, shutdown | as `udp`, at most 3 sockets opened |
| `stack` | Do returns undo calls, does the shadow stack match Ruby's, and which exceptions are sent, on which call? | limit 3, depth 5, one method per source, one outer frame |
| `stack_sync` | Does each BEGIN get its END? *violated* | a library and a synchronisation method |
| `traces` | Thread ids, parents, the table of traces, and whose trace an event goes to | main thread and two others, 2 traces, 5 ids: both threads of one trace, one of each, one of none |
| `methods` | Function ids, METHODINFO before BEGIN, the periodic walk, an Agent that restarts | 2 threads, 2 methods, 3 ids (so a method is discovered again after a flush), 2 ticks to a sync, 1 restart |
| `blacklist` | Form of the trees, lookups, iteration, verdicts, stale decisions | 6 rules in every order and with both verdicts, over words that begin one another, part inside an edge, and end in `#` or `::`; 5 methods |
| `blacklist_namespace` | Do namespace rules apply? *violated* | the same |
| `wire` | Measured and written sizes, buffers, parsing, one call in a command | lengths nil, 0, 127, 4095, 4096, 9000; two threads with one HTTP client, one with a database client; 2 calls |

The bounds suffice because the code compares only against the constants that
are scaled: a ring that holds three or four messages goes through all
combinations of region A, region B and refusal; two commands before and one
during shutdown reach every interleaving of timer, sink and shutdown with a
pending batch and a queued one; three sockets allow both racing connects to
succeed and a loss after that; depth 5 with limit 3 has calls below, at and
above the limit. `MaxStrained` bounds depth and level once a run has left the
region about which the `stack` properties say anything. The counters of threads
and methods (`MaxTids`, `MaxMethods`) end a run when they are spent. `EmitNative`
reads nothing that calls change and is explored before the first call.
`CHECK_DEADLOCK FALSE` stands in `MCTraceContexts` and `MCEvents`, where a run
ends with its ids, traces or calls, and the system has nothing left to do.

### What the passing runs show

* A command is in exactly one place at any time (`LossAccounting`), and each
  batch number below the current one was given to exactly one batch, sent,
  waiting or refused (`SequenceAccounting`), so the Agent can count lost
  batches. Commands reset ahead of a raw one are counted as discarded: the
  numbers do not show them.
* Encoders and timer never make the sink thread read a wrong length
  (`PollSucceeds`), so the branches that clear `running` on a bad poll are dead.
* When `process_ended` returns from a completed join, all commands encoded
  before it have left (`ShutdownDrains`), and it returns (`ShutdownReturns`).
* Racing connects abandon at most one working socket, and a lost one is
  noticed (`AtMostOneStraySocket`, `DisconnectIsNoticed`).
* Except after a *strained* call a return restores the thread's record and
  sends END exactly when its call sent BEGIN (`ReturnUndoesCall`).
  `Strains` names the calls the hook treats unlike their return.
* Until then the hook drops an exception exactly when a library frame is on the
  stack or the innermost open call is the entrypoint, and sends any other while
  the top of the shadow stack is that call, on which the Agent pins it
  (`ExceptionsPinned`). Two limits are part of the statement: the hook does not
  see library frames called when the shadow stack is full, so an exception inside
  one is sent; and with no call open, as in a blacklisted method at the bottom of
  a trace, an exception is sent that belongs to no call.
* A new thread is registered twice, under two ids; still no id is given to two
  threads, the Agent is told the one that is used, and a parent's id is older
  than its child's (`TidsAreNeverReused`, `EventsUseTheIdTold`,
  `ParentsComeFirst`). The parent may be one the Agent was not told of, or a
  thread of another trace; see below.
* The events of a thread go to the trace it, or a thread it descends from, has
  started (`EventsStayInTheirTrace`), also while a trace ends; the table of
  traces never leads to a freed one (`TableHasLiveTraces`).
* A function id means one method through every flush of the table, is announced
  before BEGIN uses it, and the walk of the table misses nothing that stays in
  it (`IdsNameOneMethod`, `BeginsAreAnnounced`, `WalkMissesNothing`); an Agent
  that restarted learns every method again (`AgentCatchesUp`).
* Insertions in any order keep each tree well formed and change no other rule
  (`TreesKeepTheirForm`, `RulesAreATable`); lookups and the iterator agree with
  the set of words (`WalkFindsTheRules`, `IterationIsInOrder`); a verdict comes
  from a rule that covers the method (`VerdictHasItsRule`), though not every rule
  that covers it is applied.
* The size an event was last measured at is the number of bytes its encoding
  writes, whoever set what in between (`SizesAgree`); it fits the scratch buffer
  and 16 bits (`FitsScratchBuffer`); a command can be taken apart
  (`CommandsParse`); and from a client of one thread it tells of one call only
  (`CommandsTellOneCall`). From a shared client it may mix two calls.

### What the violation runs show

* `udp_jitter`: the poll releases the bytes, the thread waits, and only then
  copies them. Encoders may overwrite them in between.
* `stack_sync`: BEGIN of a synchronisation method is suppressed above level 1,
  END above level 0.
* `blacklist_namespace`: the scan for namespace rules starts at the last path
  that is not after the method's path. A rule that ends with `#` sorts after it:
  when no path sorts before, the seek is at its end and nothing is scanned. And a
  seek that ends inside a compressed node which is a key leaves its data unread.

### Seen while modelling, without a run of their own

* A command of 4084 to 4093 bytes gets a batch of its own (`raygun_tracer.c:593`), and
  with the 13 bytes of a header overruns the static batch buffer of 4096 by up
  to 10; the limit at 577 leaves 2.
* A large command that finds the pending batch empty dispatches an empty batch
  (588), which takes a number; the comment at 523 says otherwise.
* PROCESS_ENDED is encoded after the last flush (1541, 1540), so it is sent only
  when the timer ticks once more before the process exits.
* CALL compares `shadow_top` with the limit (1654), RETURN `vm_top` (1738);
  blacklisted frames make the two differ, and a BEGIN near the limit may lack its
  END. `ReturnUndoesCall` counts such calls as strained.
* Two threads of a group that end its trace at once both free the context
  (2679-2700): the first is off the table only after its END_TRANSACTION.
* Every hook notes its thread as `parent_thread` before its filter (1622-1625),
  so a thread of another trace can be named as the parent of a new one; and a
  new thread whose trace had no event yet is named as its own parent, under an id
  that the Agent was not told (1300, 2822).

### Fairness

UDP: weak fairness on the sink thread, on the timer thread and on the thread in
`process_ended`. Ruby schedules every runnable thread, waits have a timeout, and
a datagram send returns. Nothing makes the process end, and the join's timeout
is not relied on. TCP: a connect and a write may block for ever, so neither has
fairness; `ShutdownReturns` then rests on the five seconds of
`RG_SHUTDOWN_GRACE_SECONDS`, and a timer thread or a setup in a connect counts
as having noticed a missing socket. No strong fairness is used, and none is put
on the application.

Method table: weak fairness on the timer thread, whose wait ends after a second,
and on each thread that has yielded inside `rb_rg_methodinfo`. That an Agent which
restarted catches up needs nothing of the threads that call methods.

## 4. Proofs

TLAPS checks the theorems below; the modules have the suffix `_proofs`. For each
there is an inductive invariant, shown for the initial states and kept by every
action, one lemma per action. All hold for any values of the constants that
satisfy the assumptions: any sizes of array, packet and command, any sets of
threads, methods, rules, clients and lengths, any bounds on counters.

**The ring buffer** (`Delivery_proofs`, parts 1 and 2). The lemmas about the
operators come first and hold for whoever owns a ring: `OfferEffect` and
`PollEffect` derive the cursors after each operation, and `OfferLays` and
`PollLays` that the two regions stay laid out.

* `Layout`: `Spec => [](TypeOK /\ LayoutOK)`. The invariant is inductive because
  `PointersOK` carries two facts the code never states: while B is in use A ends
  in the second half of the array, and while it is not there is at least as much
  room behind A as in front.
* `RingBufferImplementsQueue`: the bip buffer refines `MessageQueue`, with the
  queue read off the two regions. The two facts give the bound on refusals.

**The batched sink** (`Delivery_proofs`, part 3), which has no regions among its
variables: `Holds` says that there are two which lie in the ring and whose
messages are those queued.

* `SinkTypeCorrect`, `MessagesArePacked`, `EachNumberIsOneBatch`,
  `NothingVanishes`: the four invariants of the run `batch`. `SinkInv` takes them
  together (`Good`), for a sink with any pending batch, so that the steps inside
  one call (header, offer, reset, append) each have their own lemma and the
  branches compose them. `NothingVanishes` needs more than it says: what is
  pending was encoded after all that was queued, polled or refused.
* `SinkIsALossyChannel`: `BatchedSinkSpec => DeliversInOrder`, the refinement of
  `LossyChannel`; an encode, a flush or a refusal maps to `Encode` or `Lose`, a
  poll to `Deliver`.

**The dispatch threads** (`Delivery_proofs`, part 4), over UDP and TCP.
`ThreadInv` is what they share: `SinkInv`, kept because their steps on the sink are those of
`BatchedSink`, and `Draining`, which follows the shutdown: what is pending
after the last flush is younger than it, and once the sink thread has ended so
is what the ring still takes.

* `ReaderSucceeds`: the sink thread always finds a whole message.
* `UdpKeepsAccounts`, `TcpKeepsAccounts`: packet limits, numbering and the account
  of every command hold also with all threads interleaved, for any sizes.
* `UdpShutdownDrains`, `TcpShutdownDrains`: a completed join leaves nothing behind.
* `EachPolledIsSentOnce`, `EachPolledIsWrittenOnce`: the log of the sends is in
  step with the polls. `InStep` adds that the payload in hand is the last message
  polled, which over UDP holds only until the first jitter wait: the run
  `udp_jitter` shows why, so the theorem says so too.
* `OneStraySocket`: the count alone is not inductive. `OneRace` says why a second
  socket is never abandoned: while the setup connects nothing is stray and the
  timer connects only where there is no socket; a timer thread that is connecting
  beside a working socket got there before the setup was done; and while the sink
  thread writes to a socket that `sock` has left, that one is the stray one, so
  that its failure frees the place the forgotten socket takes.
* `WireIsALossyChannel`: what is written to the sockets, over all connections,
  refines `LossyChannel`. `InHandFirst` says that what the thread is writing
  comes before all that waits.

**The shadow stack** (`ShadowStack_proofs`).

* `TypeCorrect`, `ShadowStackMatchesFrames`, `ReturnsUndoCalls`: the heart is the
  lemma `LeaveUndoesEnter`: a call that does not strain is undone by its return.
  The invariant `Linked`, which holds while nothing is strained, says that each
  frame's note of the record is what `Enter` made of the note of the frame under
  it, that the record is what `Enter` makes of the innermost note, and that the
  calls begun below a frame fill the slots up to the `shadow_top` of its note:
  that is what shows two begun calls never share a slot. It also keeps each note
  sane: a level above zero implies a function on the shadow stack. Without that a
  return could find the shadow stack empty inside a library and leave the level
  as it is.
* `ExceptionsFindTheOpenCall`: `LevelTells` says that the level, of the record
  and of each note, is above zero if and only if a library frame is below. And by
  `Linked` the slots rise from frame to frame, so the top of the shadow stack is
  the slot of the innermost open call (`OpenIsTop`), however many returns and
  calls that were not begun came after it; with no call open the stack is empty,
  and the level that is read in place of a function is 0 (`OpenIsPeeked`).

**The method table** (`MethodTable_proofs`).

* `IdsAreSound`, `BeginsFollowMethodInfo`, `WalksAreComplete`, `TypeCorrect`.
  `IdsAreAnnounced` adds that every id in the table or in the hands of a waiting
  thread was announced, none beyond the counter: so the next one is new although
  the table may have been emptied. `WalkIsOnItsWay` says that what a walk has
  still to send lies ahead of it, which insertions at the end keep.

**The trace contexts** (`TraceContexts_proofs`).

* `ThreadIdsAreUnique`, `IdsAreTheOnesTold`, `ParentsAreKnown`, `TypeCorrect`:
  `TidsAreCounted` bounds every id by the counter; `ToldIsTrue` says that a thread
  the Agent was told of is registered under that id while it runs, so no hook
  registers it again.
* `TableIsLive`: `TracesHaveThreads` says that a context which is in the table,
  being ended or freed has a thread, so `start_trace` never takes up a freed one.
* `EventsGoHome`: `TracesAreRooted` says that a thread is in the group of a trace
  that it, or a thread it descends from, has started; `TracesRunInTheirGroup` that
  the thread which started a trace stays in its group while its tracepoint is
  enabled, so the two ways a hook can keep an event agree on the trace.

**Events** (`Events_proofs`).

* `SizesAgreeAlways`, `EventsFit`, `AgentCanParse`: for each type of event one
  lemma shows that what its function writes has the length its size function
  computes, that every string follows its own length, and that neither exceeds
  16 bits. `WritesNext` composes two writes into one. `EventsTyped` keeps each
  event object that of its client, measured once anything was set;
  `CommandsAreEvents` says that a command is the encoding of such an event.
* `OneCallPerCommand`: `ToldSoFar` says that what the hook of a thread with a
  client to itself has set so far is still in the event.

**The radix tree** (`Rax_proofs`), for every tree that insertions can make and
every word.

* `Sound` is what all else rests on. `Form`: the domain is a finite set of words,
  an edge leads from each node to every node whose address it begins, and the
  edges of a node part at their first character. `Tight`: no node is one that an
  insertion could have saved. And the two counters are right.
* The walk (`TurnIs`, `WalkPasses`, `WalkIs`): after each turn what was matched is
  the address of a node, and every node that begins the word has been passed. It
  is an induction over the turns, from `NaturalInduction`, a lemma about sets of
  numbers that follows from the well-foundedness of their order; `IterateDef`
  shows that a loop is the function its turns define.
* `InsertIs`: an insertion keeps a tree sound, adds its word, sets its data and
  changes the data of no other word. `CutIs` puts a node into an edge, `ExtendIs`
  hangs the characters that are left under a node, by one node or two; `CutAtIs`,
  `SplitAtRoot`, `SplitAtMiddle` and `SplitAtEnd` show that the cases of the code
  are compositions of the two. A split leaves a node with one edge, which is not
  tight: `StillTightIs` allows for it, and the extension mends it.

**The iterator** (`RaxIterator_proofs`).

* `Before` orders words by their bytes (`PartOnce`, `ApartOnce`, `OneIsBefore`).
  The node before another in that order is its parent or the greatest below an
  earlier edge of its parent (`BackIsPred`); the node after is its first child or
  the later edge of the nearest node above that has one (`FirstIsSucc`,
  `OverIsSucc`). Each loop that goes up or down has a measure, bounded by the
  depth of the tree (`Descends`, `Climbs`, `Advances`, `Retreats`).
* `NextStepIs`, `PrevStepIs`: a step stands on the next key, or on the one before.
  `SeekIs`: for each place where a walk can stop, the seek and one `raxNext`
  stand on the last word that is not after the one sought. The data is that of
  the word or null, which is what `raxSeek` leaves inside a compressed node.

**The filter rules** (`Blacklist_proofs`).

* `TreesStayKept`: the inductive invariant: each of the five trees is sound, has
  no empty word, and a verdict for each word. `TreesKeep` and `WalkFinds`
  (`TreesKeepTheirForm`, `WalkFindsTheRules`) follow: the stack of a walk holds
  the rules that begin a name and no other, so going up it finds the verdict.
* `RulesAreKept`: `Spec => RulesAreATable`, the refinement of `RuleTable`. An
  insertion maps to setting one entry, the registration of libraries to an
  extension of their table.
* `InOrder`: `IterationIsInOrder`. `VerdictRuled`: `VerdictHasItsRule`, where the
  scan for namespace rules, however far it goes, has its verdict from a rule that
  begins the name, or none: the data left unread is the verdict of no rule.
* `Current`: `DecisionsAreCurrent`, as every insertion of a rule empties the
  method table and the libraries decide nothing.

Assumptions are those on the constants, stated as ASSUME where the constants are
declared: sizes are natural and ordered as the code's are, lengths positive,
PROCESS_ENDED has one of the sizes of commands, methods have one of four sources,
the main thread is a thread and the mark for none is not, clients have an event
type of theirs, strings have a natural length or are nil, rules and calls are
pairs of words, and the libraries lists of words that are not empty.

### Only model-checked

Liveness: `EveryCommandMovesOn` and `ShutdownReturns` over UDP and TCP,
`DisconnectIsNoticed`, `AgentCatchesUp`. Fairness and ENABLED are out of the
prover's reach. Every other property of a passing run is a theorem.

## 5. Not modelled

* The callback sink, which tests use: it calls a proc in the thread of the event
  and keeps no state. With it `process_ended` leaves the timer thread running.
* The blacklist parser, configuration, version check and the opening of the UDP
  socket: no state that a step of another component could disturb.
* `rax.c` beyond what the tracer calls: removal, the other seeks, stepping back
  outside a seek, exhausted memory.
* Arguments and return values (`RB_RG_EMIT_ARGUMENTS`), which the build leaves
  out and whose coercions do not add the size of booleans and floats; the HTTP_IN
  hook, which is in another gem; an attribute set on an event of another type,
  and `encoded` before any attribute is set, which only tests do.
* Names: how a class or module gets the name that the rules are matched with.
* Object lifetimes under the garbage collector, exhausted memory.
* Thread switches inside `rb_funcall` from the extension other than those named.
  Between two commands a thread holds Ruby's lock, except where a hook in Ruby
  fills in an event, statement by statement.
* Filters added while a thread waits inside `rb_rg_methodinfo`: the library adds
  them before it traces. Its entry would be freed under it.

## 6. What could follow

1. The composition of `MethodTable` or `TraceContexts` with `BatchedSink`: the
   order of commands across threads on the wire, and what a refused batch with a
   METHODINFO in it means until the next walk.
2. One `ShadowStack` record per thread in `TraceContexts`, so that a thread that
   ends inside calls, or a trace that ends under them, is covered.
