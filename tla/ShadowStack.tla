---------------------------- MODULE ShadowStack ----------------------------
(***************************************************************************)
(* rb_rg_tracing_hook_i on the thread of a trace: the Ruby VM reports each *)
(* call, return and raise; the tracer sends BEGIN and END for the methods  *)
(* it follows and keeps, per thread, the depth of the VM's stack (vm_top), *)
(* the stack of the functions it has begun (shadow_stack, shadow_top) and  *)
(* how many library frames it is inside of.                                *)
(*                                                                         *)
(* frames is the stack Ruby keeps anyway: the calls of the trace that have *)
(* not returned, each with a note of the thread's state at the call and of *)
(* whether its BEGIN was sent.                                             *)
(***************************************************************************)
EXTENDS Integers, Sequences

CONSTANTS RG_SHADOW_STACK_LIMIT,
          Methods,      \* records: id, the function id, and source
          MaxFrames,    \* bound: the depth at which Ruby's own stack is full
          OuterFrames,  \* bound: frames under the trace that return during it
          MaxStrained   \* bound: depth and level of calls in a strained trace

RG_TRACE_ENTRYPOINT_FRAME_ID == 1
RG_THREAD_FRAMELESS == -1

Sources == {"user", "library", "synchronization", "blacklisted"}

ASSUME ShadowStackAssumption ==
  /\ RG_SHADOW_STACK_LIMIT \in Nat \ {0}
  /\ MaxFrames \in Nat /\ OuterFrames \in Nat /\ MaxStrained \in Nat
  /\ \A m \in Methods : m.source \in Sources /\ m.id \in Nat

VARIABLES
  thread,        \* rg_thread_t: vm_top, shadow_top, level_deep_into_third_party_lib
  shadow_stack,  \* rg_thread_t.shadow_stack
  frames,        \* Ruby's stack of calls since the trace started
  outer,         \* frames entered before the trace that may still return
  event,         \* the command sent by the last step
  strained       \* history: a call was made that its return may not undo

stackVars == <<thread, shadow_stack, frames, outer, event, strained>>

State(vm_top, shadow_top, level) ==
  [vm_top |-> vm_top, shadow_top |-> shadow_top, level |-> level]

Command(type, id) == [type |-> type, id |-> id]
NoCommand == Command("none", 0)

(* rb_rg_trace_context_alloc                                               *)
NewTrace == State(RG_THREAD_FRAMELESS, RG_THREAD_FRAMELESS, 0)
ZeroedStack == [i \in 0..(RG_SHADOW_STACK_LIMIT - 1) |-> 0]

(* RUBY_EVENT_CALL.  A full shadow stack and a blacklisted method stop the *)
(* hook before it looks at the source of the method.                       *)
ShadowFullOneLate(th) == th.shadow_top = RG_SHADOW_STACK_LIMIT
ShadowFull(th) == th.shadow_top = RG_SHADOW_STACK_LIMIT - 1

EntersLibrary(th, m) == ~ShadowFull(th) /\ m.source = "library"

Begins(th, m) ==
  /\ ~ShadowFull(th)
  /\ m.source # "blacklisted"
  /\ m.source = "library" => th.level + 1 <= 1
  /\ m.source = "synchronization" => th.level <= 1

Enter(th, m) ==
  State(th.vm_top + 1,
        IF Begins(th, m) THEN th.shadow_top + 1 ELSE th.shadow_top,
        IF EntersLibrary(th, m) THEN th.level + 1 ELSE th.level)

(* RUBY_EVENT_RETURN                                                       *)
FollowsAtLimit(th) == th.vm_top - 1 <= RG_SHADOW_STACK_LIMIT - 1 /\ th.shadow_top # -1
Follows(th) == th.vm_top - 1 < RG_SHADOW_STACK_LIMIT - 1 /\ th.shadow_top # -1

LeavesLibrary(th, m) == Follows(th) /\ m.source = "library"

EndsAlways(th, m) == Follows(th) /\ m.source # "blacklisted"
Ends(th, m) ==
  /\ Follows(th)
  /\ m.source # "blacklisted"
  /\ m.source = "library" => th.level - 1 <= 0
  /\ m.source = "synchronization" => th.level <= 0

Leave(th, m) ==
  State(th.vm_top - 1,
        IF Ends(th, m) THEN th.shadow_top - 1 ELSE th.shadow_top,
        IF LeavesLibrary(th, m) THEN th.level - 1 ELSE th.level)

(* The calls the hook does not treat as it treats their return: those that *)
(* find the shadow stack full and the VM's stack not yet as deep, or the   *)
(* other way round, and synchronisation called straight from a library.    *)
DeepInVM(th) == th.vm_top >= RG_SHADOW_STACK_LIMIT - 1

Strains(th, m) ==
  \/ ShadowFull(th) /\ ~DeepInVM(th)
  \/ ~ShadowFull(th) /\ DeepInVM(th) /\ m.source # "blacklisted"
  \/ ~ShadowFull(th) /\ m.source = "synchronization" /\ th.level = 1

Frame(th, m) == [method |-> m, before |-> th, begun |-> Begins(th, m)]
Innermost == frames[Len(frames)]

(* The method the return of f finds in the table.  A call that found the   *)
(* shadow stack full did not enter its method there: if it is missing, the *)
(* lookup leaves the entry uninitialised, and it may be any.               *)
FoundInTable(f) == IF ShadowFull(f.before) THEN Methods ELSE {f.method}
-----------------------------------------------------------------------------
Init ==
  /\ thread = NewTrace
  /\ shadow_stack = ZeroedStack
  /\ frames = <<>>
  /\ outer \in 0..OuterFrames
  /\ event = NoCommand
  /\ strained = FALSE

Call(m) ==
  /\ Len(frames) < MaxFrames
  /\ strained => Len(frames) < MaxStrained /\ thread.level \in 0..MaxStrained
  /\ thread' = Enter(thread, m)
  /\ frames' = Append(frames, Frame(thread, m))
  /\ IF Begins(thread, m)
     THEN /\ shadow_stack' = [shadow_stack EXCEPT ![thread.shadow_top + 1] = m.id]
          /\ event' = Command("BEGIN", m.id)
     ELSE UNCHANGED shadow_stack /\ event' = NoCommand
  /\ strained' = (strained \/ Strains(thread, m))
  /\ UNCHANGED outer

Ending(m) == IF Ends(thread, m) THEN Command("END", m.id) ELSE NoCommand

(* Calls return in order, by an exception or not.                          *)
Return ==
  /\ frames # <<>>
  /\ \E m \in FoundInTable(Innermost) : thread' = Leave(thread, m) /\ event' = Ending(m)
  /\ frames' = SubSeq(frames, 1, Len(frames) - 1)
  /\ UNCHANGED <<shadow_stack, outer, strained>>

(* A frame under the trace returns: a call the hook has not seen.          *)
OuterReturns(m) ==
  /\ frames = <<>>
  /\ outer > 0
  /\ outer' = outer - 1
  /\ thread' = Leave(thread, m)
  /\ event' = Ending(m)
  /\ UNCHANGED <<shadow_stack, frames, strained>>

(* RUBY_EVENT_RAISE.  Without any frame the word in front of the array is  *)
(* read, which is the level.  The id in EXCEPTION_THROWN is the top that   *)
(* was tested: the command itself carries no function.                     *)
PeekNextSlot(th) ==
  IF th.shadow_top = RG_SHADOW_STACK_LIMIT - 1 THEN 0 ELSE shadow_stack[th.shadow_top + 1]
rb_rg_stack_peek(th) ==
  IF th.shadow_top = -1 THEN th.level ELSE shadow_stack[th.shadow_top]

Thrown(th) == rb_rg_stack_peek(th) # RG_TRACE_ENTRYPOINT_FRAME_ID /\ th.level <= 0

Raise ==
  /\ event' = IF Thrown(thread)
              THEN Command("EXCEPTION_THROWN", rb_rg_stack_peek(thread))
              ELSE NoCommand
  /\ UNCHANGED <<thread, shadow_stack, frames, outer, strained>>

(* A SystemStackError unwinds frames without return events.                *)
StackOverflow ==
  /\ Len(frames) = MaxFrames
  /\ ~strained
  /\ \E n \in 0..(MaxFrames - 1) : frames' = SubSeq(frames, 1, n)
  /\ strained' = TRUE
  /\ event' = NoCommand
  /\ UNCHANGED <<thread, shadow_stack, outer>>

(* end_trace, and later start_trace on the same thread.                    *)
Restart ==
  /\ thread' = NewTrace
  /\ shadow_stack' = ZeroedStack
  /\ frames' = <<>>
  /\ outer' \in 0..OuterFrames
  /\ event' = NoCommand
  /\ strained' = FALSE

Next ==
  \/ \E m \in Methods : Call(m) \/ OuterReturns(m)
  \/ Return
  \/ Raise
  \/ StackOverflow
  \/ Restart

Spec == Init /\ [][Next]_stackVars
-----------------------------------------------------------------------------
ThreadState == [vm_top : Int, shadow_top : -1..(RG_SHADOW_STACK_LIMIT - 1), level : Int]

(* The depths, the stack and the frames have their types; in particular    *)
(* the shadow stack is never written outside of its array.                 *)
TypeOK ==
  /\ thread \in ThreadState
  /\ shadow_stack \in [0..(RG_SHADOW_STACK_LIMIT - 1) -> Int]
  /\ frames \in Seq([method : Methods, before : ThreadState, begun : BOOLEAN])
  /\ outer \in Nat
  /\ strained \in BOOLEAN

(* Unless a call of the trace was strained, a return leaves the thread's   *)
(* record as it was when the call was made, at any depth, and sends an END *)
(* exactly when the call sent a BEGIN.                                     *)
ReturnUndoesCall ==
  [][Return /\ ~strained =>
       /\ thread' = Innermost.before
       /\ event' = IF Innermost.begun THEN Command("END", Innermost.method.id)
                   ELSE NoCommand]_stackVars

(* Unless a call of the trace was strained, the shadow stack holds the     *)
(* functions of the calls begun and not ended, innermost on top.           *)
Slot(f) == f.before.shadow_top + 1

ShadowMatchesFrames ==
  ~strained =>
    /\ \A i \in 1..Len(frames) : frames[i].begun =>
         shadow_stack[Slot(frames[i])] = frames[i].method.id
    /\ {Slot(frames[i]) : i \in {j \in 1..Len(frames) : frames[j].begun}} = 0..thread.shadow_top

(* The function of the innermost call that has begun and not ended: the    *)
(* Agent pins an exception on it, the command names no function.           *)
NoFunction == 0
Open(i) == frames[i].begun /\ \A j \in (i + 1)..Len(frames) : ~frames[j].begun
OpenFunction ==
  IF \E i \in 1..Len(frames) : Open(i)
  THEN frames[CHOOSE i \in 1..Len(frames) : Open(i)].method.id
  ELSE NoFunction

(* A library frame is on the stack, at any depth, other than those called  *)
(* when the shadow stack was full: the hook does not see their source.     *)
InsideLibrary ==
  \E i \in 1..Len(frames) :
    frames[i].method.source = "library" /\ ~ShadowFull(frames[i].before)

(* Unless a call of the trace was strained, the hook drops an exception    *)
(* exactly when it is inside of a library or the innermost open call is    *)
(* the entrypoint.  Any other is sent, with that call, and no other, on    *)
(* top of the shadow stack; with no call open it is sent as well, and the  *)
(* word read in front of the array is then 0, the id of no function.       *)
ExceptionsPinned ==
  [][Raise /\ ~strained =>
       event' = IF InsideLibrary \/ OpenFunction = RG_TRACE_ENTRYPOINT_FRAME_ID
                THEN NoCommand
                ELSE Command("EXCEPTION_THROWN", OpenFunction)]_stackVars

(* Every call the Agent saw begin is seen to end when it returns.          *)
EveryBeginEnds ==
  [][Return /\ Innermost.begun => event' = Command("END", Innermost.method.id)]_stackVars
=============================================================================
