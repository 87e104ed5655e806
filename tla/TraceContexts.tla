---------------------------- MODULE TraceContexts ----------------------------
(***************************************************************************)
(* The threads a tracer knows and the traces that are under way.  A trace  *)
(* belongs to a thread group: the thread that starts it joins a new group, *)
(* and the threads it creates inherit the group.  Each trace has a         *)
(* tracepoint that reports the events of every Ruby thread; the hook keeps *)
(* those of the group of its trace.                                        *)
(*                                                                         *)
(* Ruby's lock lets one thread run at a time.  A thread gives it up only   *)
(* at the end of the sink, after its command is queued: what lies between  *)
(* two commands is one step.                                               *)
(***************************************************************************)
EXTENDS Integers, FiniteSets

CONSTANTS Threads,
          Main,      \* the thread that is there from the start
          MaxTraces, \* bound: traces started, which number their groups
          MaxTids    \* bound: thread ids given out

None == "none"

ASSUME TraceContextsAssumption ==
  /\ Main \in Threads /\ None \notin Threads
  /\ MaxTraces \in Nat /\ MaxTids \in Nat

VARIABLES
  ruby,           \* Ruby's threads: "none", "new" (not run yet), "runs", "ended"
  thgroup,        \* the group of each
  ancestors,      \* history: itself, the thread that created it, and so on
  threads,        \* the counter of thread ids
  threadsinfo,    \* thread -> its shadow thread
  tracecontexts,  \* the groups with a trace in the table
  contexts,       \* every trace context there was, by its group
  at,             \* where a thread is in start_trace or end_trace
  freed,          \* the contexts that were freed
  told,           \* history: the thread ids the Agent was told of, with their parent
  event           \* the last command a hook sent, of which thread and for which trace

rubyVars == <<ruby, thgroup, ancestors>>
threadVars == <<threads, threadsinfo>>
contextVars == <<tracecontexts, contexts, at, freed>>
vars == <<rubyVars, threadVars, contextVars, told, event>>

DefaultThreadGroup == 0
RG_THREAD_ORPHANED == 0
Groups == 1..MaxTraces

Unknown == [tid |-> 0, parent_tid |-> RG_THREAD_ORPHANED]
NotAllocated == [thread |-> None, parent_thread |-> None, enabled |-> FALSE]
InUserCode == [op |-> "user", trace |-> 0]
NoEvent == [type |-> "none", thread |-> None, tid |-> 0, trace |-> 0]

Init ==
  /\ ruby = [t \in Threads |-> IF t = Main THEN "runs" ELSE "none"]
  /\ thgroup = [t \in Threads |-> DefaultThreadGroup]
  /\ ancestors = [t \in Threads |-> {t}]
  /\ threads = 0
  /\ threadsinfo = [t \in Threads |-> Unknown]
  /\ tracecontexts = {}
  /\ contexts = [g \in Groups |-> NotAllocated]
  /\ at = [t \in Threads |-> InUserCode]
  /\ freed = {}
  /\ told = {}
  /\ event = NoEvent

IsKnown(t) == threadsinfo[t].tid # 0

Runs(t) == ruby[t] = "runs" /\ at[t].op = "user"

(* A Ruby thread creates another, which inherits its group.                *)
Create(t, u) ==
  /\ Runs(t) /\ ruby[u] = "none"
  /\ ruby' = [ruby EXCEPT ![u] = "new"]
  /\ thgroup' = [thgroup EXCEPT ![u] = thgroup[t]]
  /\ ancestors' = [ancestors EXCEPT ![u] = {u} \union ancestors[t]]
  /\ event' = NoEvent
  /\ UNCHANGED <<threadVars, contextVars, told>>

(* The traces whose tracepoint is enabled, and those of them whose hook    *)
(* does not return at its filter for an event of t.                        *)
Enabled == {g \in Groups : contexts[g].enabled}

KeepsAll(t, g) == TRUE
Keeps(t, g) ==
  \/ t = contexts[g].thread
  \/ thgroup[t] # DefaultThreadGroup /\ thgroup[t] = g

Keeping(t) == {g \in Enabled : Keeps(t, g)}

(* Every hook notes the thread it runs on, before its filter.              *)
ParentThreadIs(t) ==
  contexts' = [g \in Groups |-> IF g \in Enabled THEN [contexts[g] EXCEPT !.parent_thread = t] ELSE contexts[g]]

TidFromTable(known) == Cardinality({t \in Threads : IsKnown(t)}) + (IF known THEN 1 ELSE 2)
NextTid(known) == threads + (IF known THEN 1 ELSE 2)

InsertedOnce(table, t, tid, parent_tid) ==
  IF table[t].tid # 0 THEN table ELSE [table EXCEPT ![t] = [tid |-> tid, parent_tid |-> parent_tid]]
Inserted(table, t, tid, parent_tid) ==
  [table EXCEPT ![t] = [tid |-> tid, parent_tid |-> parent_tid]]

(* rb_rg_thread: the shadow thread, registered as an orphan if need be.    *)
Seen(t) == IF IsKnown(t) THEN threadsinfo ELSE Inserted(threadsinfo, t, NextTid(TRUE), RG_THREAD_ORPHANED)

Register(t) ==
  /\ IsKnown(t) \/ NextTid(TRUE) <= MaxTids
  /\ threads' = IF IsKnown(t) THEN threads ELSE NextTid(TRUE)
  /\ threadsinfo' = Seen(t)

(* RUBY_EVENT_THREAD_BEGIN, on the new thread.  The hook that keeps it has *)
(* registered it before rb_rg_thread_started gives it another id.  Where   *)
(* no event came before, its parent is taken to be the thread that runs,   *)
(* itself, under the first of its ids.                                     *)
StartedByLast(t, g) ==
  LET p == contexts[g].parent_thread
  IN  IF p = None THEN NextTid(IsKnown(t)) ELSE Seen(t)[p].tid

StartedBy(t, g) ==
  LET p == contexts[g].parent_thread
  IN  Seen(t)[IF p = None THEN t ELSE p].tid

ThreadBegin(t) ==
  LET tid == NextTid(IsKnown(t))
  IN  /\ ruby[t] = "new"
      /\ ruby' = [ruby EXCEPT ![t] = "runs"]
      /\ IF Keeping(t) = {} THEN UNCHANGED <<threadVars, told>> /\ event' = NoEvent
         ELSE \E g \in Keeping(t) :
                /\ tid <= MaxTids
                /\ threads' = tid
                /\ threadsinfo' = Inserted(Seen(t), t, tid, StartedBy(t, g))
                /\ told' = told \union {[thread |-> t, tid |-> tid, parent_tid |-> StartedBy(t, g)]}
                /\ event' = [type |-> "THREAD_STARTED", thread |-> t, tid |-> tid, trace |-> g]
      /\ UNCHANGED <<thgroup, ancestors, contextVars>>

(* A call, a return or a raise: commands under the thread's id.            *)
Event(t) ==
  /\ Runs(t) /\ Enabled # {}
  /\ ParentThreadIs(t)
  /\ IF Keeping(t) = {} THEN UNCHANGED threadVars /\ event' = NoEvent
     ELSE \E g \in Keeping(t) :
            /\ Register(t)
            /\ event' = [type |-> "BEGIN", thread |-> t, tid |-> threadsinfo'[t].tid, trace |-> g]
  /\ UNCHANGED <<rubyVars, tracecontexts, at, freed, told>>

(* RUBY_EVENT_THREAD_END: THREAD_ENDED, then the shadow thread is freed.   *)
(* A thread ends the trace it has started before it ends.                  *)
ThreadEnd(t) ==
  /\ Runs(t) /\ t # Main
  /\ \A g \in Enabled : contexts[g].thread # t
  /\ ruby' = [ruby EXCEPT ![t] = "ended"]
  /\ ParentThreadIs(t)
  /\ IF Keeping(t) = {} THEN UNCHANGED <<threadVars, at>> /\ event' = NoEvent
     ELSE \E g \in Keeping(t) :
            /\ Register(t)
            /\ event' = [type |-> "THREAD_ENDED", thread |-> t, tid |-> threadsinfo'[t].tid, trace |-> g]
            /\ at' = [at EXCEPT ![t] = [op |-> "thread_ended", trace |-> g]]
  /\ UNCHANGED <<thgroup, ancestors, tracecontexts, freed, told>>

ForgetThread(t) ==
  /\ at[t].op = "thread_ended"
  /\ threadsinfo' = [threadsinfo EXCEPT ![t] = Unknown]
  /\ at' = [at EXCEPT ![t] = InUserCode]
  /\ event' = NoEvent
  /\ UNCHANGED <<rubyVars, threads, tracecontexts, contexts, freed, told>>

(* rb_rg_get_thread_id, from the hooks of the libraries.                   *)
GetThreadId(t) ==
  /\ Runs(t)
  /\ Register(t)
  /\ event' = NoEvent
  /\ UNCHANGED <<rubyVars, contextVars, told>>

(* start_trace: with a trace for the thread's group nothing happens; or    *)
(* else a new trace and group, PROCESS_FREQUENCY, BEGIN_TRANSACTION, and   *)
(* last the tracepoint.                                                    *)
StartTrace(t, g) ==
  /\ Runs(t)
  /\ thgroup[t] \notin tracecontexts
  /\ contexts[g] = NotAllocated /\ \A h \in 1..(g - 1) : contexts[h] # NotAllocated
  /\ Register(t)
  /\ contexts' = [contexts EXCEPT ![g].thread = t]
  /\ thgroup' = [thgroup EXCEPT ![t] = g]
  /\ tracecontexts' = tracecontexts \union {g}
  /\ at' = [at EXCEPT ![t] = [op |-> "start", trace |-> g]]
  /\ event' = NoEvent
  /\ UNCHANGED <<ruby, ancestors, freed, told>>

BeginTransaction(t) ==
  /\ at[t].op = "start"
  /\ event' = [type |-> "BEGIN_TRANSACTION", thread |-> t, tid |-> threadsinfo[t].tid, trace |-> at[t].trace]
  /\ at' = [at EXCEPT ![t].op = "begin"]
  /\ UNCHANGED <<rubyVars, threadVars, tracecontexts, contexts, freed, told>>

EnableTracepoint(t) ==
  /\ at[t].op = "begin"
  /\ contexts' = [contexts EXCEPT ![at[t].trace].enabled = TRUE]
  /\ at' = [at EXCEPT ![t] = InUserCode]
  /\ event' = NoEvent
  /\ UNCHANGED <<rubyVars, threadVars, tracecontexts, freed, told>>

(* end_trace: the trace of the thread's group, whoever started it.         *)
(* END_TRANSACTION; then off the table, its tracepoint disabled, and freed.*)
EndTrace(t) ==
  /\ Runs(t)
  /\ thgroup[t] \in tracecontexts
  /\ at' = [at EXCEPT ![t] = [op |-> "end", trace |-> thgroup[t]]]
  /\ event' = [type |-> "END_TRANSACTION", thread |-> contexts[thgroup[t]].thread, trace |-> thgroup[t],
               tid |-> threadsinfo[contexts[thgroup[t]].thread].tid]
  /\ UNCHANGED <<rubyVars, threadVars, tracecontexts, contexts, freed, told>>

LeaveInTable(g) == tracecontexts' = tracecontexts
TakeOffTable(g) == tracecontexts' = tracecontexts \ {g}

FreeTrace(t) ==
  /\ at[t].op = "end"
  /\ TakeOffTable(at[t].trace)
  /\ contexts' = [contexts EXCEPT ![at[t].trace].enabled = FALSE]
  /\ freed' = freed \union {at[t].trace}
  /\ at' = [at EXCEPT ![t] = InUserCode]
  /\ event' = NoEvent
  /\ UNCHANGED <<rubyVars, threadVars, told>>

Next ==
  \E t \in Threads :
    \/ \E u \in Threads : Create(t, u)
    \/ ThreadBegin(t) \/ Event(t) \/ ThreadEnd(t) \/ ForgetThread(t) \/ GetThreadId(t)
    \/ \E g \in Groups : StartTrace(t, g)
    \/ BeginTransaction(t) \/ EnableTracepoint(t) \/ EndTrace(t) \/ FreeTrace(t)

Spec == Init /\ [][Next]_vars
-----------------------------------------------------------------------------
TypeOK ==
  /\ ruby \in [Threads -> {"none", "new", "runs", "ended"}]
  /\ thgroup \in [Threads -> {DefaultThreadGroup} \union Groups]
  /\ ancestors \in [Threads -> SUBSET Threads]
  /\ threads \in 0..MaxTids
  /\ threadsinfo \in [Threads -> [tid : 0..MaxTids, parent_tid : 0..MaxTids]]
  /\ tracecontexts \subseteq Groups
  /\ contexts \in [Groups -> [thread : Threads \union {None}, parent_thread : Threads \union {None},
                              enabled : BOOLEAN]]
  /\ at \in [Threads -> [op : {"user", "start", "begin", "end", "thread_ended"}, trace : {0} \union Groups]]
  /\ freed \subseteq Groups

(* "we never reuse numeric TID mappings" (raygun_tracer.c:1285): two       *)
(* threads never have one id, also of those the Agent was told of and that *)
(* have ended, though hooks register threads as they come across them.     *)
TidsAreNeverReused ==
  /\ \A t, u \in Threads : IsKnown(t) /\ threadsinfo[t].tid = threadsinfo[u].tid => t = u
  /\ \A p, q \in told : p.tid = q.tid => p = q
  /\ \A p \in told, t \in Threads : threadsinfo[t].tid = p.tid => t = p.thread

(* A thread the Agent was told of sends its events under the id it was     *)
(* told, although the hook had registered it under another before.         *)
EventsUseTheIdTold ==
  event.type \in {"BEGIN", "THREAD_ENDED"} =>
    \A p \in told : p.thread = event.thread => p.tid = event.tid

(* A parent was known before its child.                                    *)
ParentsComeFirst ==
  \A p \in told : p.parent_tid < p.tid

(* A trace in the table has not been freed: "delete before free on purpose *)
(* to avoid races on st_lookup" (raygun_tracer.c:2687).                    *)
TableHasLiveTraces == \A g \in tracecontexts : g \notin freed /\ contexts[g] # NotAllocated

(* The events of a thread go into the trace it was created in, directly or *)
(* through other threads, or has started; into that one and no other.      *)
EventsStayInTheirTrace ==
  /\ \A t \in Threads : Cardinality(Keeping(t)) <= 1
  /\ event.type # "none" =>
       contexts[event.trace].thread \in ancestors[event.thread]
=============================================================================
