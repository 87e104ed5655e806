----------------------------- MODULE MethodTable -----------------------------
(***************************************************************************)
(* The method table of a tracer: a method gets its function id, and is     *)
(* announced to the Agent, when it is first called; every so many ticks    *)
(* the timer thread sends all of them again, in case the Agent restarted.  *)
(*                                                                         *)
(* Ruby's lock lets one thread run at a time.  A thread gives it up only   *)
(* at the end of the sink, after its command is queued: what lies between  *)
(* two commands is one step.                                               *)
(***************************************************************************)
EXTENDS Integers, Sequences

CONSTANTS Threads, Methods,
          RG_TIMER_THREAD_METHODINFO_TICK,
          MaxMethods,  \* bound: function ids handed out
          MaxRestarts  \* bound: restarts of the Agent

ASSUME MethodTableAssumption ==
  /\ RG_TIMER_THREAD_METHODINFO_TICK \in Nat \ {0}
  /\ MaxMethods \in Nat /\ MaxRestarts \in Nat

VARIABLES
  methodinfo,  \* the table, in the order of insertion
  methods,     \* the counter of function ids
  left_out,    \* the methods the filter rules leave out
  held,        \* per thread, the entry in use while its METHODINFO is sent
  timer,       \* where the timer thread is, its ticks, entries it has walked
  event,       \* the last command sent by a thread: what it says of which id
  named,       \* history: every function id announced, with its method
  resent,      \* history: the ids sent by the last walk
  kept,        \* history: the ids in the table all through the last walk
  agent,       \* the ids the Agent knows
  restarts

tableVars == <<methodinfo, methods, left_out, held>>
agentVars == <<named, agent, restarts>>
syncVars == <<timer, resent, kept>>
vars == <<tableVars, syncVars, agentVars, event>>

(* A method that is left out has an entry without a function id, the       *)
(* scalar RG_BLACKLIST_BLACKLISTED.                                        *)
BLACKLISTED == 0
Entry(m, id) == [method |-> m, id |-> id]
NoEntry == [method |-> "none", id |-> BLACKLISTED]

Entries == {methodinfo[k] : k \in DOMAIN methodinfo}
Known == {e.method : e \in Entries}
Traced(entries) == {e \in entries : e.id # BLACKLISTED}
Ids(entries) == {e.id : e \in Traced(entries)}

Command(type, m, id) == [type |-> type, method |-> m, id |-> id]
NoCommand == Command("none", "none", 0)

Init ==
  /\ methodinfo = <<>> /\ methods = 0 /\ left_out = {}
  /\ held = [t \in Threads |-> NoEntry]
  /\ timer = [at |-> "wait", ticks |-> 0, walked |-> 0]
  /\ event = NoCommand
  /\ named = {} /\ agent = {} /\ restarts = 0
  /\ resent = {} /\ kept = {}

(* METHODINFO, for an id the first time or again.                          *)
AnnouncedByName(id, m) ==
  IF \E p \in named : p[2] = m THEN named ELSE named \union {<<id, m>>}
Announced(id, m) == named \union {<<id, m>>}

Begin(m, id) == event' = Command("BEGIN", m, id)

(* RUBY_EVENT_CALL of a method that is in the table.                       *)
CallKnown(t, m) ==
  /\ held[t] = NoEntry
  /\ \E e \in Entries :
       /\ e.method = m
       /\ IF e.id = BLACKLISTED THEN event' = NoCommand ELSE Begin(m, e.id)
  /\ UNCHANGED <<tableVars, syncVars, agentVars>>

(* rb_rg_methodinfo: the verdict, the function id, the entry, METHODINFO.  *)
NextIdAfterFlush == Len(methodinfo) + 1
NextId == methods + 1

Discover(t, m) ==
  /\ held[t] = NoEntry
  /\ m \notin Known /\ m \notin left_out
  /\ methods < MaxMethods
  /\ methods' = NextId
  /\ methodinfo' = Append(methodinfo, Entry(m, NextId))
  /\ held' = [held EXCEPT ![t] = Entry(m, NextId)]
  /\ named' = Announced(NextId, m)
  /\ agent' = agent \union {NextId}
  /\ event' = Command("METHODINFO", m, NextId)
  /\ UNCHANGED <<left_out, syncVars, restarts>>

DiscoverLeftOut(t, m) ==
  /\ held[t] = NoEntry
  /\ m \notin Known /\ m \in left_out
  /\ methodinfo' = Append(methodinfo, Entry(m, BLACKLISTED))
  /\ event' = NoCommand
  /\ UNCHANGED <<methods, left_out, held, syncVars, agentVars>>

(* Back in the hook with the entry, for the BEGIN.                         *)
Resume(t) ==
  /\ held[t] # NoEntry
  /\ Begin(held[t].method, held[t].id)
  /\ held' = [held EXCEPT ![t] = NoEntry]
  /\ UNCHANGED <<methodinfo, methods, left_out, syncVars, agentVars>>

(* add_blacklist and add_whitelist free and delete every entry.  Filters   *)
(* change between calls, not while a thread discovers a method.            *)
AddRule(m, leaves_out) ==
  /\ \A t \in Threads : held[t] = NoEntry
  /\ left_out' = IF leaves_out THEN left_out \union {m} ELSE left_out \ {m}
  /\ methodinfo' = <<>>
  /\ timer' = [timer EXCEPT !.walked = 0]
  /\ kept' = {}
  /\ event' = NoCommand
  /\ UNCHANGED <<methods, held, resent, agentVars>>
-----------------------------------------------------------------------------
(* rb_rg_timer_thread.  The ticks are compared before they are counted, so *)
(* the first walk comes one tick later than the others.                    *)
TickAgain(ticks) == [timer EXCEPT !.at = "wait", !.ticks = 1]
TickOver(ticks) == [timer EXCEPT !.at = "wait", !.ticks = ticks + 1]

IsSyncTick == timer.ticks = RG_TIMER_THREAD_METHODINFO_TICK

(* The wait, then the flush of the pending batch.                          *)
Flush ==
  /\ timer.at = "wait"
  /\ timer' = [timer EXCEPT !.at = "flushed"]
  /\ UNCHANGED <<tableVars, resent, kept, agentVars, event>>

NoSync ==
  /\ timer.at = "flushed" /\ ~IsSyncTick
  /\ timer' = TickOver(timer.ticks)
  /\ UNCHANGED <<tableVars, resent, kept, agentVars, event>>

NothingToSync ==
  /\ timer.at = "flushed" /\ IsSyncTick /\ methodinfo = <<>>
  /\ timer' = TickOver(0)
  /\ UNCHANGED <<tableVars, resent, kept, agentVars, event>>

(* PROCESS_FREQUENCY, PROCESS_TYPE, then the walk, with a turn for other   *)
(* threads after each command.                                             *)
SendFrequency ==
  /\ timer.at = "flushed" /\ IsSyncTick /\ methodinfo # <<>>
  /\ timer' = [timer EXCEPT !.at = "frequency"]
  /\ UNCHANGED <<tableVars, resent, kept, agentVars, event>>

SendProcessType ==
  /\ timer.at = "frequency"
  /\ timer' = [timer EXCEPT !.at = "walk", !.walked = 0]
  /\ resent' = {}
  /\ kept' = Ids(Entries)
  /\ UNCHANGED <<tableVars, agentVars, event>>

(* rb_rg_async_emit_methodinfo_i on the next entry that is not left out.   *)
StopAtLeftOut ==
  {k \in DOMAIN methodinfo : k = timer.walked + 1 /\ methodinfo[k].id # BLACKLISTED}
ToResend == {k \in DOMAIN methodinfo : k > timer.walked /\ methodinfo[k].id # BLACKLISTED}

EmitMethodinfo ==
  /\ timer.at = "walk"
  /\ \E k \in ToResend :
       /\ \A j \in ToResend : k <= j
       /\ timer' = [timer EXCEPT !.walked = k]
       /\ resent' = resent \union {methodinfo[k].id}
       /\ named' = Announced(methodinfo[k].id, methodinfo[k].method)
       /\ agent' = agent \union {methodinfo[k].id}
  /\ UNCHANGED <<tableVars, kept, restarts, event>>

EndSync ==
  /\ timer.at = "walk" /\ ToResend = {}
  /\ timer' = TickOver(0)
  /\ UNCHANGED <<tableVars, resent, kept, agentVars, event>>

(* The Agent restarts and knows no method.                                 *)
AgentRestart ==
  /\ restarts < MaxRestarts
  /\ restarts' = restarts + 1
  /\ agent' = {}
  /\ UNCHANGED <<tableVars, syncVars, named, event>>

Hook(t) == Resume(t) \/ \E m \in Methods : CallKnown(t, m) \/ Discover(t, m) \/ DiscoverLeftOut(t, m)
TimerThread ==
  Flush \/ NoSync \/ NothingToSync \/ SendFrequency \/ SendProcessType \/ EmitMethodinfo \/ EndSync

Next ==
  \/ \E t \in Threads : Hook(t)
  \/ \E m \in Methods, leaves_out \in BOOLEAN : AddRule(m, leaves_out)
  \/ TimerThread
  \/ AgentRestart

(* A Ruby thread that can run gets its turn, the timer thread included.    *)
Fairness == WF_vars(TimerThread) /\ \A t \in Threads : WF_vars(Resume(t))

Spec == Init /\ [][Next]_vars /\ Fairness
-----------------------------------------------------------------------------
EntryType == [method : Methods, id : 0..MaxMethods]

TypeOK ==
  /\ methodinfo \in Seq(EntryType)
  /\ methods \in 0..MaxMethods
  /\ left_out \subseteq Methods
  /\ held \in [Threads -> EntryType \union {NoEntry}]
  /\ timer \in [at : {"wait", "flushed", "frequency", "walk"},
                ticks : 0..RG_TIMER_THREAD_METHODINFO_TICK, walked : 0..Len(methodinfo)]
  /\ named \subseteq (1..MaxMethods) \X Methods
  /\ agent \subseteq 1..MaxMethods /\ restarts \in 0..MaxRestarts
  /\ resent \subseteq 1..MaxMethods /\ kept \subseteq 1..MaxMethods

(* A function id stands for one method for the life of the process, in the *)
(* table and in all that was ever announced, through every flush of the    *)
(* table: "monotonic counter", raygun_tracer.c:1424.                       *)
IdsNameOneMethod ==
  /\ \A p, q \in named : p[1] = q[1] => p[2] = q[2]
  /\ \A j, k \in DOMAIN methodinfo :
       methodinfo[j].id = methodinfo[k].id /\ methodinfo[j].id # BLACKLISTED => j = k

(* BEGIN follows the METHODINFO of its function id and means its method.   *)
BeginsAreAnnounced ==
  event.type = "BEGIN" => <<event.id, event.method>> \in named

(* A walk of the table sends every method that was there all along, though *)
(* threads add methods and filters empty the table between its commands.   *)
WalkMissesNothing == timer.at # "walk" => kept \subseteq resent

(* After a restart the Agent comes to know every method still in the       *)
(* table: the purpose of the sync, raygun_tracer.c:651-652.                *)
AgentCatchesUp ==
  \A id \in 1..MaxMethods : (id \in Ids(Entries)) ~> (id \in agent \/ id \notin Ids(Entries))
=============================================================================
