------------------------------- MODULE Events -------------------------------
(***************************************************************************)
(* From a call to a command: the hooks of the HTTP and database clients,   *)
(* which fill in an event object and emit it, and the encoder's own        *)
(* functions for the other commands.  A client keeps one event object for  *)
(* all of its calls, so threads that share a client fill in the same one.  *)
(* Ruby may run another thread between two statements of a hook.           *)
(***************************************************************************)
EXTENDS WireFormat

CONSTANTS Threads, Clients,
          EventType,  \* client -> the type of its events
          Uses,       \* thread -> its client
          Lengths,    \* the byte lengths of the strings of a call
          MaxCalls    \* bound: calls made

ASSUME EventsAssumption ==
  /\ EventType \in [Clients -> {"SQL_INFORMATION", "HTTP_OUTGOING_INFORMATION"}]
  /\ Uses \in [Threads -> Clients]
  /\ Lengths \subseteq Nat \union {Nil}

VARIABLES
  events,   \* client -> its event object, or none yet
  hook,     \* thread -> its call, and the statements of the hook it has run
  calls,    \* history: calls made
  command   \* the last command the sink was given

vars == <<events, hook, calls, command>>

NoEventYet == [type |-> "none", length |-> 0]
NotInHook == [at |-> 0, call |-> 0, length |-> 0]
NoCommand == [bytes |-> Nothing, size |-> 0, event |-> NoEventYet, by |-> "none", made |-> NotInHook]

Init ==
  /\ events = [c \in Clients |-> NoEventYet]
  /\ hook = [t \in Threads |-> NotInHook]
  /\ calls = 0
  /\ command = NoCommand

(* rb_rg_event_aset: whatever is set, the length is computed again.        *)
MeasuredOnce(e) == IF e.length # 0 THEN e ELSE [e EXCEPT !.length = rg_encode_size(e.type, e.data)]
Measured(e) == [e EXCEPT !.length = rg_encode_size(e.type, e.data)]

rb_rg_event_aset(e, attr, val) ==
  Measured(CASE attr \in Header -> [e EXCEPT ![attr] = val.of]
             [] attr = "verb" -> [e EXCEPT !.data.verb = rb_rg_encode_short_string(@, val)]
             [] attr \in Strings(e.type) \ {"verb"} -> [e EXCEPT !.data[attr] = rb_rg_encode_string(@, val)]
             [] OTHER -> [e EXCEPT !.data[attr] = val.of])

(* The attributes in the order the hooks set them.                         *)
HttpStatements == <<"pid", "url", "verb", "status", "duration", "timestamp", "tid">>
NoDatabase == <<"pid", "query", "provider", "host", "duration", "timestamp", "tid">>
SqlStatements == <<"pid", "query", "provider", "host", "database", "duration", "timestamp", "tid">>

Statements(c) == IF EventType[c] = "SQL_INFORMATION" THEN SqlStatements ELSE HttpStatements

(* The call returns, with strings of one length; the client has its event. *)
Responds(t, n) ==
  /\ hook[t] = NotInHook /\ calls < MaxCalls
  /\ calls' = calls + 1
  /\ hook' = [hook EXCEPT ![t] = [at |-> 1, call |-> calls + 1, length |-> n]]
  /\ events' = [events EXCEPT ![Uses[t]] = IF @ = NoEventYet THEN rb_rg_event_alloc(EventType[Uses[t]]) ELSE @]
  /\ command' = NoCommand

SetAttribute(t) ==
  LET c == Uses[t]
  IN  /\ hook[t].at \in DOMAIN Statements(c)
      /\ events' = [events EXCEPT ![c] =
           rb_rg_event_aset(@, Statements(c)[hook[t].at], [length |-> hook[t].length, of |-> hook[t].call])]
      /\ hook' = [hook EXCEPT ![t].at = @ + 1]
      /\ command' = NoCommand
      /\ UNCHANGED calls

(* rb_rg_tracer_emit, of what rb_rg_event_encoded writes for the types     *)
(* that the hooks emit.                                                    *)
rb_rg_event_encoded(e) == rg_encode_header_impl(e) ++ Payload(e.type, e.data)

EmitEvent(t) ==
  LET e == events[Uses[t]]
  IN  /\ hook[t].at = Len(Statements(Uses[t])) + 1
      /\ command' = [bytes |-> rb_rg_event_encoded(e), size |-> e.length, event |-> e, by |-> t,
                      made |-> hook[t]]
      /\ hook' = [hook EXCEPT ![t] = NotInHook]
      /\ UNCHANGED <<events, calls>>

(* rg_begin, rg_end and their like: the payload first, whose size gives    *)
(* the header its length.  It reads nothing that calls change, and is      *)
(* explored before the first of them.                                      *)
CommandSize(payload) == Short(RG_MIN_PAYLOAD + payload.length)

NativeTypes == EventTypes \ {"SQL_INFORMATION", "HTTP_INCOMING_INFORMATION", "HTTP_OUTGOING_INFORMATION"}

FilledIn(type, n) ==
  [f \in DOMAIN EventStruct[type] |->
     IF f \in Strings(type) THEN rb_rg_encode_string(EmptyString, [length |-> n, of |-> 1]) ELSE 1]

EmitNative(t, type, n) ==
  LET data == FilledIn(type, n)
      payload == Payload(type, data)
      size == CommandSize(payload)
      e == [rb_rg_event_alloc(type) EXCEPT !.length = size, !.data = data]
  IN  /\ hook[t] = NotInHook /\ calls = 0
      /\ command' = [bytes |-> rg_encode_header_impl(e) ++ payload, size |-> size, event |-> e, by |-> t,
                      made |-> NotInHook]
      /\ UNCHANGED <<events, hook, calls>>

Next ==
  \E t \in Threads :
    \/ \E n \in Lengths : Responds(t, n)
    \/ SetAttribute(t)
    \/ EmitEvent(t)
    \/ \E type \in NativeTypes, n \in Lengths : EmitNative(t, type, n)

Spec == Init /\ [][Next]_vars
-----------------------------------------------------------------------------
Commands == {command} \ {NoCommand}

(* The size computed for an event is the number of bytes its encoding      *)
(* writes, as RG_DEBUG asserts, whatever was set and by whom: emit copies  *)
(* so many bytes, from a string allocated for so many.                     *)
SizesAgree ==
  /\ \A c \in Clients : events[c].length # 0 => events[c].length = rb_rg_event_encoded(events[c]).length
  /\ \A m \in Commands : m.size = m.bytes.length /\ m.size = rg_encode_size(m.event.type, m.event.data)

(* No event outgrows the scratch buffer, and its length stays positive in  *)
(* the 16 bits it has.                                                     *)
FitsScratchBuffer ==
  \A e \in {events[c] : c \in Clients} \union {m.event : m \in Commands} :
    e.length # 0 => e.length \in RG_MIN_PAYLOAD..INT16_MAX /\ e.length <= RG_ENCODER_SCRATCH_BUFFER_SIZE

(* The length that a prefix of so many bytes can hold.                     *)
LongestAfter(width) == IF width = 1 THEN UINT8_MAX ELSE INT16_MAX

(* The Agent can take a command apart: it starts with its length, every    *)
(* string in it follows its own length, which fits the bytes it has, and   *)
(* ends within the command, and the strings of the event are all there.    *)
Prefixed(bytes) ==
  \A c \in bytes.cells :
    /\ c.at + c.width <= bytes.length
    /\ c.kind = "text" =>
         \E p \in bytes.cells :
           /\ p.kind = "number" /\ p.at + p.width = c.at
           /\ p.value = c.width /\ p.value <= LongestAfter(p.width)

Holds(bytes, string) ==
  \E c \in bytes.cells : c.kind = "text" /\ c.width = string.length /\ c.value = string.of

CommandsParse ==
  \A m \in Commands :
    /\ \E c \in m.bytes.cells : c.at = 0 /\ c.width = 2 /\ c.kind = "number" /\ c.value = m.size
    /\ Prefixed(m.bytes)
    /\ \A f \in Strings(m.event.type) : Holds(m.bytes, m.event.data[f])

(* A command tells of one call of its thread, and nothing of a call before *)
(* it, when the thread has the client to itself: the hook sets all that    *)
(* the event holds.                                                        *)
Shared(c) == \E t, u \in Threads : t # u /\ Uses[t] = c /\ Uses[u] = c

CommandsTellOneCall ==
  \A m \in Commands :
    m.made.at # 0 /\ ~Shared(Uses[m.by]) =>
      /\ \A f \in Header : m.event[f] = m.made.call
      /\ \A f \in DOMAIN m.event.data :
            IF f \notin Strings(m.event.type) THEN m.event.data[f] = m.made.call
            ELSE /\ m.event.data[f].length = 0 <=> m.made.length \in {Nil, 0}
                 /\ m.event.data[f].length # 0 => m.event.data[f].of = m.made.call
=============================================================================
