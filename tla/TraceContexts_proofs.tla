------------------------- MODULE TraceContexts_proofs -------------------------
(***************************************************************************)
(* Thread ids and trace contexts, for every set of threads and every       *)
(* number of traces: types, ids that are never reused and are the ones the *)
(* Agent was told, parents before children, live traces in the table.      *)
(***************************************************************************)
EXTENDS TraceContexts, FiniteSetTheorems, TLAPS

ShadowThread == [tid : 0..MaxTids, parent_tid : 0..MaxTids]

(* Ids come from the counter.                                              *)
TidsAreCounted ==
  /\ threads \in 0..MaxTids
  /\ threadsinfo \in [Threads -> ShadowThread]
  /\ \A t \in Threads : threadsinfo[t].tid <= threads
  /\ told \subseteq [thread : Threads, tid : Nat \ {0}, parent_tid : Nat]
  /\ \A p \in told : p.tid <= threads

(* The Agent was told of threads that have begun, and of each its id.      *)
ToldIsTrue ==
  /\ \A p \in told : ruby[p.thread] \in {"runs", "ended"}
  /\ \A p \in told : ruby[p.thread] = "runs" => threadsinfo[p.thread].tid = p.tid
  /\ \A t \in Threads : at[t].op = "thread_ended" => ruby[t] = "ended"

(* A trace that is in the table, being started or ended, or freed has a    *)
(* thread that started it.                                                 *)
TracesHaveThreads ==
  /\ \A g \in tracecontexts \union freed : contexts[g].thread \in Threads
  /\ \A t \in Threads : at[t].op \in {"start", "begin", "end"} =>
       at[t].trace \in Groups /\ contexts[at[t].trace].thread \in Threads
  /\ tracecontexts \intersect freed = {}

Tids == TidsAreCounted /\ TidsAreNeverReused /\ ParentsComeFirst
IInv == TypeOK /\ Tids /\ ToldIsTrue /\ EventsUseTheIdTold /\ TracesHaveThreads
-----------------------------------------------------------------------------
LEMMA Constants == Main \in Threads /\ None \notin Threads /\ MaxTraces \in Nat /\ MaxTids \in Nat
BY TraceContextsAssumption

LEMMA Zero == \A n \in Nat : 0 \in 0..n
OBVIOUS

LEMMA InitIInv == Init => IInv
<1> SUFFICES ASSUME Init PROVE IInv OBVIOUS
<1>0. 0 \in 0..MaxTids BY Zero, Constants
<1>1. threadsinfo = [t \in Threads |-> [tid |-> 0, parent_tid |-> 0]] /\ threads = 0 /\ told = {}
  BY DEF Init, Unknown, RG_THREAD_ORPHANED
<1>2. TidsAreCounted BY <1>0, <1>1 DEF TidsAreCounted, ShadowThread
<1>3. TidsAreNeverReused /\ ParentsComeFirst
  BY <1>1 DEF TidsAreNeverReused, ParentsComeFirst, IsKnown
<1>4. TypeOK
  BY <1>0, <1>1, Constants DEF Init, TypeOK, InUserCode, NotAllocated, DefaultThreadGroup
<1>5. ToldIsTrue BY <1>1 DEF Init, ToldIsTrue, InUserCode
<1>6. EventsUseTheIdTold BY <1>1 DEF EventsUseTheIdTold
<1>7. TracesHaveThreads BY DEF Init, TracesHaveThreads, InUserCode
<1> QED BY <1>2, <1>3, <1>4, <1>5, <1>6, <1>7 DEF IInv, Tids

(* A thread gets an id beyond the counter, and the Agent may be told.      *)
LEMMA Numbered ==
  ASSUME Tids, NEW t \in Threads, NEW n \in 1..MaxTids, NEW par \in 0..MaxTids,
         n > threads, par < n, threads' = n,
         threadsinfo' = [threadsinfo EXCEPT ![t] = [tid |-> n, parent_tid |-> par]],
         told' \in {told, told \union {[thread |-> t, tid |-> n, parent_tid |-> par]}}
  PROVE  Tids'
<1> DEFINE r == [thread |-> t, tid |-> n, parent_tid |-> par]
<1>0. n \in Nat \ {0} /\ par \in Nat /\ n \in 0..MaxTids BY Constants
<1>1. /\ threads \in Nat /\ threadsinfo \in [Threads -> ShadowThread]
      /\ \A u \in Threads : threadsinfo[u].tid \in Nat /\ threadsinfo[u].tid <= threads
      /\ told \subseteq [thread : Threads, tid : Nat \ {0}, parent_tid : Nat]
      /\ \A p \in told : p.tid \in Nat /\ p.tid <= threads
  BY Constants DEF Tids, TidsAreCounted, ShadowThread
<1>2. threadsinfo'[t].tid = n BY <1>1
<1>3. \A u \in Threads : u # t => threadsinfo'[u] = threadsinfo[u] BY <1>1
<1>4. [tid |-> n, parent_tid |-> par] \in ShadowThread BY <1>0 DEF ShadowThread
<1>5. threadsinfo' \in [Threads -> ShadowThread] BY <1>1, <1>4
<1>6. \A u \in Threads : u # t => threadsinfo'[u].tid < n BY <1>0, <1>1, <1>3
<1>7. \A p \in told : p.tid < n BY <1>0, <1>1
<1>8. \A p \in told' : p \in told \/ p = r OBVIOUS
<1>9. r \in [thread : Threads, tid : Nat \ {0}, parent_tid : Nat] BY <1>0
<1>10. TidsAreCounted'
  <2>1. \A u \in Threads : threadsinfo'[u].tid <= threads' BY <1>0, <1>1, <1>2, <1>3
  <2>2. told' \subseteq [thread : Threads, tid : Nat \ {0}, parent_tid : Nat] BY <1>1, <1>8, <1>9
  <2>3. \A p \in told' : p.tid <= threads' BY <1>0, <1>1, <1>8
  <2> QED BY <1>0, <1>5, <2>1, <2>2, <2>3 DEF TidsAreCounted
<1>11. TidsAreNeverReused'
  <2>1. ASSUME NEW u \in Threads, NEW v \in Threads, threadsinfo'[u].tid # 0,
               threadsinfo'[u].tid = threadsinfo'[v].tid
        PROVE  u = v
    <3>1. CASE u = t \/ v = t BY <1>0, <1>1, <1>2, <1>6, <2>1, <3>1
    <3>2. CASE u # t /\ v # t BY <1>3, <2>1, <3>2 DEF Tids, TidsAreNeverReused, IsKnown
    <3> QED BY <3>1, <3>2
  <2>2. ASSUME NEW p \in told', NEW q \in told', p.tid = q.tid PROVE p = q
    BY <1>0, <1>1, <1>7, <1>8, <2>2 DEF Tids, TidsAreNeverReused
  <2>3. ASSUME NEW p \in told', NEW u \in Threads, threadsinfo'[u].tid = p.tid PROVE u = p.thread
    <3>1. CASE p = r BY <1>0, <1>6, <2>3, <3>1
    <3>2. CASE p \in told /\ u = t BY <1>0, <1>1, <1>2, <1>7, <2>3, <3>2
    <3>3. CASE p \in told /\ u # t BY <1>3, <2>3, <3>3 DEF Tids, TidsAreNeverReused
    <3> QED BY <1>8, <3>1, <3>2, <3>3
  <2> QED BY <2>1, <2>2, <2>3 DEF TidsAreNeverReused, IsKnown
<1>12. ParentsComeFirst' BY <1>8 DEF Tids, ParentsComeFirst
<1> QED BY <1>10, <1>11, <1>12 DEF Tids

(* What rb_rg_thread does to the table.                                    *)
LEMMA Registered ==
  ASSUME Tids, NEW t \in Threads, Register(t)
  PROVE  /\ \A u \in Threads : IsKnown(u) => threadsinfo'[u] = threadsinfo[u]
         /\ told' = told => Tids'
<1>1. CASE IsKnown(t) BY <1>1 DEF Register, Seen, Tids, TidsAreCounted, TidsAreNeverReused, ParentsComeFirst, IsKnown
<1>2. CASE ~IsKnown(t)
  <2>1. /\ threads' = threads + 1 /\ threads + 1 <= MaxTids
        /\ threadsinfo' = [threadsinfo EXCEPT ![t] = [tid |-> threads + 1, parent_tid |-> 0]]
    BY <1>2 DEF Register, Seen, NextTid, Inserted, RG_THREAD_ORPHANED
  <2>2. threads \in Nat /\ threadsinfo \in [Threads -> ShadowThread] BY Constants DEF Tids, TidsAreCounted
  <2>3. threads + 1 \in 1..MaxTids /\ 0 \in 0..MaxTids /\ threads + 1 > threads /\ 0 < threads + 1
    BY <2>1, <2>2, Constants
  <2>4. told' = told => Tids' BY <2>1, <2>3, Numbered
  <2> QED BY <1>2, <2>1, <2>2, <2>4
<1> QED BY <1>1, <1>2

LEMMA SameTids == ASSUME Tids, UNCHANGED <<threadVars, told>> PROVE Tids'
BY DEF threadVars, Tids, TidsAreCounted, TidsAreNeverReused, ParentsComeFirst, IsKnown
-----------------------------------------------------------------------------
(* The traces whose hook sees the event note its thread and change in      *)
(* nothing else.                                                           *)
Context == [thread : Threads \union {None}, parent_thread : Threads \union {None}, enabled : BOOLEAN]

LEMMA ParentNoted ==
  ASSUME TypeOK, NEW t \in Threads, ParentThreadIs(t)
  PROVE  /\ contexts' \in [Groups -> Context]
         /\ \A g \in Groups : contexts'[g].thread = contexts[g].thread /\ contexts'[g].enabled = contexts[g].enabled
<1>1. contexts \in [Groups -> Context] BY DEF TypeOK, Context
<1>2. \A g \in Groups : /\ [contexts[g] EXCEPT !.parent_thread = t] \in Context
                        /\ [contexts[g] EXCEPT !.parent_thread = t].thread = contexts[g].thread
                        /\ [contexts[g] EXCEPT !.parent_thread = t].enabled = contexts[g].enabled
  BY <1>1 DEF Context
<1>3. /\ DOMAIN contexts' = Groups
      /\ contexts' = [g \in Groups |-> IF g \in Enabled THEN [contexts[g] EXCEPT !.parent_thread = t] ELSE contexts[g]]
  BY DEF ParentThreadIs
<1> HIDE DEF Context
<1>4. ASSUME NEW g \in Groups
      PROVE  /\ contexts'[g] \in Context
             /\ contexts'[g].thread = contexts[g].thread /\ contexts'[g].enabled = contexts[g].enabled
  BY <1>1, <1>2, <1>3
<1> QED BY <1>3, <1>4

LEMMA SameTraces ==
  ASSUME TypeOK, TracesHaveThreads, UNCHANGED <<tracecontexts, freed>>,
         \A g \in Groups : contexts'[g].thread = contexts[g].thread,
         \A t \in Threads : at'[t] = at[t] \/ at'[t].op \in {"user", "thread_ended"}
  PROVE  TracesHaveThreads'
<1>1. tracecontexts \subseteq Groups /\ freed \subseteq Groups BY DEF TypeOK
<1>2. \A g \in tracecontexts' \union freed' : contexts'[g].thread \in Threads
  BY <1>1 DEF TracesHaveThreads
<1>3. ASSUME NEW t \in Threads, at'[t].op \in {"start", "begin", "end"}
      PROVE  at'[t].trace \in Groups /\ contexts'[at'[t].trace].thread \in Threads
  BY <1>3 DEF TracesHaveThreads
<1> QED BY <1>2, <1>3 DEF TracesHaveThreads

LEMMA IdsAreNumbers ==
  ASSUME Tids
  PROVE  /\ threads \in Nat
         /\ \A t \in Threads : threadsinfo[t].tid \in Nat /\ threadsinfo[t].tid <= threads
         /\ \A p \in told : p.tid # 0 /\ p.thread \in Threads
BY Constants DEF Tids, TidsAreCounted, ShadowThread

(* A thread that is told of is known while it runs.                        *)
LEMMA ToldAreKnown ==
  ASSUME Tids, ToldIsTrue, NEW p \in told, ruby[p.thread] = "runs"
  PROVE  IsKnown(p.thread) /\ threadsinfo[p.thread].tid = p.tid
BY IdsAreNumbers DEF ToldIsTrue, IsKnown

LEMMA RegisteredTold ==
  ASSUME Tids, ToldIsTrue, NEW t \in Threads, Register(t), UNCHANGED <<told, ruby, at>>
  PROVE  ToldIsTrue'
BY Registered, ToldAreKnown, IdsAreNumbers DEF ToldIsTrue

LEMMA CreateKeeps == ASSUME IInv, NEW t \in Threads, NEW u \in Threads, Create(t, u) PROVE IInv'
<1> USE DEF Create, contextVars, threadVars
<1>1. TypeOK' BY DEF IInv, TypeOK
<1>2. Tids' BY SameTids DEF IInv
<1>3. ToldIsTrue' BY DEF IInv, ToldIsTrue, TypeOK
<1>4. EventsUseTheIdTold' BY DEF EventsUseTheIdTold, NoEvent
<1>5. TracesHaveThreads' BY DEF IInv, TracesHaveThreads
<1> QED BY <1>1, <1>2, <1>3, <1>4, <1>5 DEF IInv

LEMMA ThreadBeginKeeps == ASSUME IInv, NEW t \in Threads, ThreadBegin(t) PROVE IInv'
<1> DEFINE tid == NextTid(IsKnown(t))
<1>1. /\ ruby[t] = "new" /\ ruby' = [ruby EXCEPT ![t] = "runs"] /\ UNCHANGED <<thgroup, ancestors, contextVars>>
  BY DEF ThreadBegin
<1>2. UNCHANGED <<tracecontexts, contexts, at, freed>> BY <1>1 DEF contextVars
<1>3. TracesHaveThreads' BY <1>2 DEF IInv, TracesHaveThreads
<1>4. ruby' \in [Threads -> {"none", "new", "runs", "ended"}] /\ ruby'[t] = "runs"
      /\ \A u \in Threads : u # t => ruby'[u] = ruby[u]
  BY <1>1 DEF IInv, TypeOK
<1>5. \A p \in told : p.thread # t BY <1>1 DEF IInv, ToldIsTrue
<1>6. \A u \in Threads : at'[u].op = "thread_ended" => ruby'[u] = "ended"
  BY <1>1, <1>2, <1>4 DEF IInv, ToldIsTrue
<1>7. CASE Keeping(t) = {}
  <2>1. UNCHANGED <<threadVars, told>> /\ event' = NoEvent BY <1>7 DEF ThreadBegin
  <2>2. Tids' BY <2>1, SameTids DEF IInv
  <2>3. TypeOK' BY <1>1, <1>2, <1>4, <2>1 DEF IInv, TypeOK, threadVars
  <2>4. ToldIsTrue'
    BY <1>4, <1>5, <1>6, <2>1, IdsAreNumbers DEF IInv, ToldIsTrue, threadVars
  <2>5. EventsUseTheIdTold' BY <2>1 DEF EventsUseTheIdTold, NoEvent
  <2> QED BY <1>3, <2>2, <2>3, <2>4, <2>5 DEF IInv
<1>8. CASE Keeping(t) # {}
  <2>1. PICK g \in Keeping(t) :
          /\ tid <= MaxTids /\ threads' = tid
          /\ threadsinfo' = Inserted(Seen(t), t, tid, StartedBy(t, g))
          /\ told' = told \union {[thread |-> t, tid |-> tid, parent_tid |-> StartedBy(t, g)]}
          /\ event' = [type |-> "THREAD_STARTED", thread |-> t, tid |-> tid, trace |-> g]
    BY <1>8 DEF ThreadBegin
  <2>2. PICK p \in Threads : StartedBy(t, g) = Seen(t)[p].tid
    <3>1. g \in Groups BY DEF Keeping, Enabled
    <3>2. contexts[g].parent_thread \in Threads \union {None} BY <3>1 DEF IInv, TypeOK
    <3> QED BY <3>2 DEF StartedBy
  <2>3. threadsinfo \in [Threads -> ShadowThread] /\ threads \in Nat
    BY Constants DEF IInv, Tids, TidsAreCounted
  <2>4. tid = IF IsKnown(t) THEN threads + 1 ELSE threads + 2 BY DEF NextTid
  <2>5. Seen(t)[p].tid \in Nat /\ Seen(t)[p].tid < tid
    <3>1. CASE IsKnown(t) BY <2>3, <2>4, <3>1, IdsAreNumbers DEF Seen, IInv
    <3>2. CASE ~IsKnown(t)
      <4>1. Seen(t) = [threadsinfo EXCEPT ![t] = [tid |-> threads + 1, parent_tid |-> 0]]
        BY <3>2 DEF Seen, Inserted, NextTid, RG_THREAD_ORPHANED
      <4>2. threadsinfo[p].tid \in Nat /\ threadsinfo[p].tid <= threads BY IdsAreNumbers DEF IInv
      <4>3. Seen(t)[p].tid = IF p = t THEN threads + 1 ELSE threadsinfo[p].tid BY <2>3, <4>1
      <4> QED BY <2>3, <2>4, <3>2, <4>2, <4>3
    <3> QED BY <3>1, <3>2
  <2>6. threadsinfo' = [threadsinfo EXCEPT ![t] = [tid |-> tid, parent_tid |-> StartedBy(t, g)]]
    <3>1. threadsinfo' = [Seen(t) EXCEPT ![t] = [tid |-> tid, parent_tid |-> StartedBy(t, g)]]
      BY <2>1 DEF Inserted
    <3>2. CASE IsKnown(t) BY <3>1, <3>2 DEF Seen
    <3>3. CASE ~IsKnown(t)
      <4>1. PICK e : Seen(t) = [threadsinfo EXCEPT ![t] = e] BY <3>3 DEF Seen, Inserted
      <4> HIDE DEF tid
      <4> QED BY <2>3, <3>1, <4>1
    <3> QED BY <3>2, <3>3
  <2>7. tid \in 1..MaxTids /\ tid > threads BY <2>1, <2>3, <2>4, Constants
  <2> HIDE DEF tid
  <2>8. StartedBy(t, g) \in 0..MaxTids /\ StartedBy(t, g) < tid BY <2>2, <2>5, <2>7, Constants
  <2>9. Tids' BY <2>1, <2>6, <2>7, <2>8, Numbered DEF IInv
  <2>10. TypeOK'
    BY <1>1, <1>2, <1>4, <2>9 DEF IInv, TypeOK, Tids, TidsAreCounted, ShadowThread
  <2>11. threadsinfo'[t].tid = tid /\ \A u \in Threads : u # t => threadsinfo'[u] = threadsinfo[u]
    BY <2>3, <2>6
  <2>12. ToldIsTrue'
    <3>1. ASSUME NEW q \in told'
          PROVE  ruby'[q.thread] \in {"runs", "ended"} /\ (ruby'[q.thread] = "runs" => threadsinfo'[q.thread].tid = q.tid)
      <4>1. CASE q \in told
        <5>1. q.thread \in Threads /\ q.thread # t BY <1>5, <4>1, IdsAreNumbers DEF IInv
        <5> QED BY <1>4, <2>11, <4>1, <5>1 DEF IInv, ToldIsTrue
      <4>2. CASE q = [thread |-> t, tid |-> tid, parent_tid |-> StartedBy(t, g)]
        BY <1>4, <2>11, <4>2
      <4> QED BY <2>1, <4>1, <4>2
    <3> QED BY <1>6, <3>1 DEF ToldIsTrue
  <2>13. EventsUseTheIdTold' BY <2>1 DEF EventsUseTheIdTold
  <2> QED BY <1>3, <2>9, <2>10, <2>12, <2>13 DEF IInv
<1> QED BY <1>7, <1>8

LEMMA EventKeeps == ASSUME IInv, NEW t \in Threads, Event(t) PROVE IInv'
<1>1. ruby[t] = "runs" /\ ParentThreadIs(t) /\ UNCHANGED <<ruby, thgroup, ancestors, tracecontexts, at, freed, told>>
  BY DEF Event, Runs, rubyVars
<1>2. contexts' \in [Groups -> Context] /\ TracesHaveThreads'
  BY <1>1, ParentNoted, SameTraces DEF IInv
<1>3. CASE Keeping(t) = {}
  <2>1. UNCHANGED threadVars /\ event' = NoEvent BY <1>3 DEF Event
  <2>2. Tids' BY <1>1, <2>1, SameTids DEF IInv
  <2>3. TypeOK' BY <1>1, <1>2, <2>1 DEF IInv, TypeOK, threadVars, Context
  <2>4. ToldIsTrue' BY <1>1, <2>1 DEF IInv, ToldIsTrue, threadVars
  <2>5. EventsUseTheIdTold' BY <2>1 DEF EventsUseTheIdTold, NoEvent
  <2> QED BY <1>2, <2>2, <2>3, <2>4, <2>5 DEF IInv
<1>4. CASE Keeping(t) # {}
  <2>1. Register(t) /\ event'.thread = t /\ event'.tid = threadsinfo'[t].tid BY <1>4 DEF Event
  <2>2. Tids' BY <1>1, <2>1, Registered DEF IInv
  <2>3. TypeOK' BY <1>1, <1>2, <2>2 DEF IInv, TypeOK, Tids, TidsAreCounted, ShadowThread, Context
  <2>4. ToldIsTrue' BY <1>1, <2>1, RegisteredTold DEF IInv
  <2>5. EventsUseTheIdTold' BY <1>1, <2>1, <2>4 DEF EventsUseTheIdTold, ToldIsTrue
  <2> QED BY <1>2, <2>2, <2>3, <2>4, <2>5 DEF IInv
<1> QED BY <1>3, <1>4

LEMMA ThreadEndKeeps == ASSUME IInv, NEW t \in Threads, ThreadEnd(t) PROVE IInv'
<1>1. /\ ruby[t] = "runs" /\ at[t].op = "user" /\ ParentThreadIs(t)
      /\ ruby' = [ruby EXCEPT ![t] = "ended"]
      /\ UNCHANGED <<thgroup, ancestors, tracecontexts, freed, told>>
  BY DEF ThreadEnd, Runs
<1>2. contexts' \in [Groups -> Context] /\ \A g \in Groups : contexts'[g].thread = contexts[g].thread
  BY <1>1, ParentNoted DEF IInv
<1>3. ruby' \in [Threads -> {"none", "new", "runs", "ended"}] /\ ruby'[t] = "ended"
      /\ \A u \in Threads : u # t => ruby'[u] = ruby[u]
  BY <1>1 DEF IInv, TypeOK
<1>4. CASE Keeping(t) = {}
  <2>1. UNCHANGED <<threadVars, at>> /\ event' = NoEvent BY <1>4 DEF ThreadEnd
  <2>2. Tids' BY <1>1, <2>1, SameTids DEF IInv
  <2>3. TypeOK' BY <1>1, <1>2, <1>3, <2>1 DEF IInv, TypeOK, threadVars, Context
  <2>4. ToldIsTrue' BY <1>1, <1>3, <2>1, IdsAreNumbers DEF IInv, ToldIsTrue, threadVars
  <2>5. EventsUseTheIdTold' BY <2>1 DEF EventsUseTheIdTold, NoEvent
  <2>6. TracesHaveThreads' BY <1>1, <1>2, <2>1, SameTraces DEF IInv
  <2> QED BY <2>2, <2>3, <2>4, <2>5, <2>6 DEF IInv
<1>5. CASE Keeping(t) # {}
  <2>1. PICK g \in Keeping(t) :
          /\ Register(t) /\ event'.thread = t /\ event'.tid = threadsinfo'[t].tid
          /\ at' = [at EXCEPT ![t] = [op |-> "thread_ended", trace |-> g]]
    BY <1>5 DEF ThreadEnd
  <2>2. g \in Groups BY DEF Keeping, Enabled
  <2>3. Tids' BY <1>1, <2>1, Registered DEF IInv
  <2>4. /\ at' \in [Threads -> [op : {"user", "start", "begin", "end", "thread_ended"}, trace : {0} \union Groups]]
        /\ at'[t].op = "thread_ended" /\ \A u \in Threads : u # t => at'[u] = at[u]
    BY <2>1, <2>2 DEF IInv, TypeOK
  <2>5. TypeOK' BY <1>1, <1>2, <1>3, <2>3, <2>4 DEF IInv, TypeOK, Tids, TidsAreCounted, ShadowThread, Context
  <2>6. \A p \in told : ruby[p.thread] = "runs" => threadsinfo'[p.thread].tid = p.tid
    BY <2>1, Registered, ToldAreKnown, IdsAreNumbers DEF IInv
  <2>7. ToldIsTrue' BY <1>1, <1>3, <2>4, <2>6, IdsAreNumbers DEF IInv, ToldIsTrue
  <2>8. EventsUseTheIdTold' BY <1>1, <2>1, <2>6 DEF EventsUseTheIdTold
  <2>9. TracesHaveThreads' BY <1>1, <1>2, <2>4, SameTraces DEF IInv
  <2> QED BY <2>3, <2>5, <2>7, <2>8, <2>9 DEF IInv
<1> QED BY <1>4, <1>5

LEMMA ForgetThreadKeeps == ASSUME IInv, NEW t \in Threads, ForgetThread(t) PROVE IInv'
<1>1. /\ at[t].op = "thread_ended" /\ threadsinfo' = [threadsinfo EXCEPT ![t] = [tid |-> 0, parent_tid |-> 0]]
      /\ at' = [at EXCEPT ![t] = InUserCode] /\ event' = NoEvent
      /\ UNCHANGED <<ruby, thgroup, ancestors, threads, tracecontexts, contexts, freed, told>>
  BY DEF ForgetThread, Unknown, RG_THREAD_ORPHANED, rubyVars
<1>2. /\ at' \in [Threads -> [op : {"user", "start", "begin", "end", "thread_ended"}, trace : {0} \union Groups]]
      /\ at'[t].op = "user" /\ \A u \in Threads : u # t => at'[u] = at[u]
  BY <1>1 DEF IInv, TypeOK, InUserCode
<1>3. threadsinfo \in [Threads -> ShadowThread] /\ threads \in 0..MaxTids /\ 0 \in 0..MaxTids
  BY Zero, Constants DEF IInv, Tids, TidsAreCounted
<1>4. threadsinfo' \in [Threads -> ShadowThread] /\ threadsinfo'[t].tid = 0
      /\ \A u \in Threads : u # t => threadsinfo'[u] = threadsinfo[u]
  <2>1. [tid |-> 0, parent_tid |-> 0] \in ShadowThread BY <1>3 DEF ShadowThread
  <2> QED BY <1>1, <1>3, <2>1
<1>5. Tids'
  <2>1. TidsAreCounted' BY <1>1, <1>3, <1>4, IdsAreNumbers DEF IInv, Tids, TidsAreCounted
  <2>2. TidsAreNeverReused'
    BY <1>1, <1>4, IdsAreNumbers DEF IInv, Tids, TidsAreNeverReused, IsKnown
  <2>3. ParentsComeFirst' BY <1>1 DEF IInv, Tids, ParentsComeFirst
  <2> QED BY <2>1, <2>2, <2>3 DEF Tids
<1>6. TypeOK' BY <1>1, <1>2, <1>3, <1>4 DEF IInv, TypeOK, ShadowThread
<1>7. ToldIsTrue' BY <1>1, <1>2, <1>4, IdsAreNumbers DEF IInv, ToldIsTrue
<1>8. EventsUseTheIdTold' BY <1>1 DEF EventsUseTheIdTold, NoEvent
<1>9. TracesHaveThreads' BY <1>1, <1>2, SameTraces DEF IInv
<1> QED BY <1>5, <1>6, <1>7, <1>8, <1>9 DEF IInv

LEMMA GetThreadIdKeeps == ASSUME IInv, NEW t \in Threads, GetThreadId(t) PROVE IInv'
<1>1. Register(t) /\ event' = NoEvent
      /\ UNCHANGED <<ruby, thgroup, ancestors, tracecontexts, contexts, at, freed, told>>
  BY DEF GetThreadId, rubyVars, contextVars
<1>2. Tids' BY <1>1, Registered DEF IInv
<1>3. TypeOK' BY <1>1, <1>2 DEF IInv, TypeOK, Tids, TidsAreCounted, ShadowThread
<1>4. ToldIsTrue' BY <1>1, RegisteredTold DEF IInv
<1>5. EventsUseTheIdTold' BY <1>1 DEF EventsUseTheIdTold, NoEvent
<1>6. TracesHaveThreads' BY <1>1 DEF IInv, TracesHaveThreads
<1> QED BY <1>2, <1>3, <1>4, <1>5, <1>6 DEF IInv

(* start_trace takes a group without a context, which was never freed.     *)
LEMMA StartTraceKeeps == ASSUME IInv, NEW t \in Threads, NEW g \in Groups, StartTrace(t, g) PROVE IInv'
<1>1. /\ ruby[t] = "runs" /\ contexts[g] = NotAllocated /\ Register(t)
      /\ contexts' = [contexts EXCEPT ![g].thread = t]
      /\ thgroup' = [thgroup EXCEPT ![t] = g]
      /\ tracecontexts' = tracecontexts \union {g}
      /\ at' = [at EXCEPT ![t] = [op |-> "start", trace |-> g]]
      /\ event' = NoEvent /\ UNCHANGED <<ruby, ancestors, freed, told>>
  BY DEF StartTrace, Runs
<1>2. contexts \in [Groups -> Context] /\ tracecontexts \subseteq Groups /\ freed \subseteq Groups
  BY DEF IInv, TypeOK, Context
<1>3. contexts' \in [Groups -> Context] /\ contexts'[g].thread = t
      /\ \A h \in Groups : h # g => contexts'[h].thread = contexts[h].thread
  BY <1>1, <1>2 DEF Context
<1>4. /\ at' \in [Threads -> [op : {"user", "start", "begin", "end", "thread_ended"}, trace : {0} \union Groups]]
      /\ at'[t].op = "start" /\ at'[t].trace = g /\ \A u \in Threads : u # t => at'[u] = at[u]
  BY <1>1 DEF IInv, TypeOK
<1>5. thgroup' \in [Threads -> {DefaultThreadGroup} \union Groups] BY <1>1 DEF IInv, TypeOK
<1>6. Tids' BY <1>1, Registered DEF IInv
<1>7. TypeOK'
  BY <1>1, <1>2, <1>3, <1>4, <1>5, <1>6 DEF IInv, TypeOK, Tids, TidsAreCounted, ShadowThread, Context
<1>8. \A p \in told : ruby[p.thread] = "runs" => threadsinfo'[p.thread].tid = p.tid
  BY <1>1, Registered, ToldAreKnown, IdsAreNumbers DEF IInv
<1>9. ToldIsTrue' BY <1>1, <1>4, <1>8 DEF IInv, ToldIsTrue
<1>10. EventsUseTheIdTold' BY <1>1 DEF EventsUseTheIdTold, NoEvent
<1>11. g \notin freed BY <1>1, Constants DEF IInv, TracesHaveThreads, NotAllocated
<1>12. TracesHaveThreads'
  <2>1. \A h \in tracecontexts' \union freed' : contexts'[h].thread \in Threads
    BY <1>1, <1>2, <1>3 DEF IInv, TracesHaveThreads
  <2>2. ASSUME NEW u \in Threads, at'[u].op \in {"start", "begin", "end"}
        PROVE  at'[u].trace \in Groups /\ contexts'[at'[u].trace].thread \in Threads
    BY <1>3, <1>4, <2>2 DEF IInv, TracesHaveThreads
  <2>3. tracecontexts' \intersect freed' = {} BY <1>1, <1>11 DEF IInv, TracesHaveThreads
  <2> QED BY <2>1, <2>2, <2>3 DEF TracesHaveThreads
<1> QED BY <1>6, <1>7, <1>9, <1>10, <1>12 DEF IInv

(* The steps that only move a thread through start_trace or end_trace.     *)
LEMMA MovesKeep ==
  ASSUME IInv, NEW t \in Threads, NEW op \in {"user", "begin", "end"}, NEW g \in {0} \union Groups,
         at' = [at EXCEPT ![t] = [op |-> op, trace |-> g]],
         op # "user" => g \in Groups /\ contexts[g].thread \in Threads,
         contexts' \in [Groups -> Context], \A h \in Groups : contexts'[h].thread = contexts[h].thread,
         tracecontexts' \subseteq tracecontexts,
         \A h \in freed' : h \in freed \/ (h \in Groups \ tracecontexts' /\ contexts[h].thread \in Threads),
         event'.type \notin {"BEGIN", "THREAD_ENDED"}, UNCHANGED <<rubyVars, threadVars, told>>
  PROVE  IInv'
<1>1. /\ at' \in [Threads -> [op : {"user", "start", "begin", "end", "thread_ended"}, trace : {0} \union Groups]]
      /\ at'[t].op = op /\ at'[t].trace = g /\ \A u \in Threads : u # t => at'[u] = at[u]
  BY DEF IInv, TypeOK
<1>2. UNCHANGED <<ruby, thgroup, ancestors>> BY DEF rubyVars
<1>3. tracecontexts \subseteq Groups /\ freed \subseteq Groups BY DEF IInv, TypeOK
<1>4. Tids' BY SameTids DEF IInv
<1>5. TypeOK' BY <1>1, <1>2, <1>3 DEF IInv, TypeOK, threadVars, Context
<1>6. ToldIsTrue' BY <1>1, <1>2 DEF IInv, ToldIsTrue, threadVars
<1>7. EventsUseTheIdTold' BY DEF EventsUseTheIdTold
<1>8. TracesHaveThreads'
  <2>1. \A h \in tracecontexts' \union freed' : contexts'[h].thread \in Threads
    BY <1>3 DEF IInv, TracesHaveThreads
  <2>2. ASSUME NEW u \in Threads, at'[u].op \in {"start", "begin", "end"}
        PROVE  at'[u].trace \in Groups /\ contexts'[at'[u].trace].thread \in Threads
    BY <1>1, <2>2 DEF IInv, TracesHaveThreads
  <2>3. tracecontexts' \intersect freed' = {} BY DEF IInv, TracesHaveThreads
  <2> QED BY <2>1, <2>2, <2>3 DEF TracesHaveThreads
<1> QED BY <1>4, <1>5, <1>6, <1>7, <1>8 DEF IInv

LEMMA TransactionKeeps ==
  ASSUME IInv, NEW t \in Threads, BeginTransaction(t) \/ EnableTracepoint(t) \/ EndTrace(t) \/ FreeTrace(t)
  PROVE  IInv'
<1>1. contexts \in [Groups -> Context] /\ tracecontexts \subseteq Groups BY DEF IInv, TypeOK, Context
<1>2. ASSUME NEW g \in Groups, NEW b \in BOOLEAN, contexts' = [contexts EXCEPT ![g].enabled = b]
      PROVE  contexts' \in [Groups -> Context] /\ \A h \in Groups : contexts'[h].thread = contexts[h].thread
  BY <1>1, <1>2 DEF Context
<1>3. at[t] \in [op : {"user", "start", "begin", "end", "thread_ended"}, trace : {0} \union Groups]
  BY DEF IInv, TypeOK
<1>4. at[t].op \in {"start", "begin", "end"} => at[t].trace \in Groups /\ contexts[at[t].trace].thread \in Threads
  BY DEF IInv, TracesHaveThreads
<1>5. CASE BeginTransaction(t)
  <2>1. /\ at[t].op = "start" /\ at' = [at EXCEPT ![t].op = "begin"] /\ event'.type = "BEGIN_TRANSACTION"
        /\ UNCHANGED <<rubyVars, threadVars, tracecontexts, contexts, freed, told>>
    BY <1>5 DEF BeginTransaction
  <2>2. at' = [at EXCEPT ![t] = [op |-> "begin", trace |-> at[t].trace]]
    <3>1. [at[t] EXCEPT !.op = "begin"] = [op |-> "begin", trace |-> at[t].trace]
      BY <1>3
    <3>2. at' = [at EXCEPT ![t] = [at[t] EXCEPT !.op = "begin"]]
      BY <2>1
    <3> QED BY <3>1, <3>2
  <2> QED BY <1>1, <1>3, <1>4, <2>1, <2>2, MovesKeep
<1>6. CASE EnableTracepoint(t)
  <2>1. /\ at[t].op = "begin" /\ contexts' = [contexts EXCEPT ![at[t].trace].enabled = TRUE]
        /\ at' = [at EXCEPT ![t] = [op |-> "user", trace |-> 0]] /\ event'.type = "none"
        /\ UNCHANGED <<rubyVars, threadVars, tracecontexts, freed, told>>
    BY <1>6 DEF EnableTracepoint, InUserCode, NoEvent
  <2>2. contexts' \in [Groups -> Context] /\ \A h \in Groups : contexts'[h].thread = contexts[h].thread
    BY <1>2, <1>4, <2>1
  <2> QED BY <2>1, <2>2, MovesKeep
<1>7. CASE EndTrace(t)
  <2>1. /\ thgroup[t] \in tracecontexts /\ at' = [at EXCEPT ![t] = [op |-> "end", trace |-> thgroup[t]]]
        /\ event'.type = "END_TRANSACTION"
        /\ UNCHANGED <<rubyVars, threadVars, tracecontexts, contexts, freed, told>>
    BY <1>7 DEF EndTrace
  <2>2. thgroup[t] \in Groups /\ contexts[thgroup[t]].thread \in Threads
    BY <1>1, <2>1 DEF IInv, TracesHaveThreads
  <2> QED BY <1>1, <2>1, <2>2, MovesKeep
<1>8. CASE FreeTrace(t)
  <2>1. /\ at[t].op = "end" /\ contexts' = [contexts EXCEPT ![at[t].trace].enabled = FALSE]
        /\ tracecontexts' = tracecontexts \ {at[t].trace} /\ freed' = freed \union {at[t].trace}
        /\ at' = [at EXCEPT ![t] = [op |-> "user", trace |-> 0]] /\ event'.type = "none"
        /\ UNCHANGED <<rubyVars, threadVars, told>>
    BY <1>8 DEF FreeTrace, TakeOffTable, InUserCode, NoEvent
  <2>2. contexts' \in [Groups -> Context] /\ \A h \in Groups : contexts'[h].thread = contexts[h].thread
    BY <1>2, <1>4, <2>1
  <2>3. \A h \in freed' : h \in freed \/ (h \in Groups \ tracecontexts' /\ contexts[h].thread \in Threads)
    BY <1>4, <2>1
  <2> QED BY <2>1, <2>2, <2>3, MovesKeep
<1> QED BY <1>5, <1>6, <1>7, <1>8
-----------------------------------------------------------------------------
LEMMA NextIInv == IInv /\ [Next]_vars => IInv'
<1> SUFFICES ASSUME IInv, [Next]_vars PROVE IInv' OBVIOUS
<1>1. ASSUME NEW t \in Threads, NEW u \in Threads, Create(t, u) PROVE IInv' BY <1>1, CreateKeeps
<1>2. ASSUME NEW t \in Threads, NEW g \in Groups, StartTrace(t, g) PROVE IInv' BY <1>2, StartTraceKeeps
<1>3. ASSUME NEW t \in Threads,
             ThreadBegin(t) \/ Event(t) \/ ThreadEnd(t) \/ ForgetThread(t) \/ GetThreadId(t)
      PROVE  IInv'
  BY <1>3, ThreadBeginKeeps, EventKeeps, ThreadEndKeeps, ForgetThreadKeeps, GetThreadIdKeeps
<1>4. ASSUME NEW t \in Threads, BeginTransaction(t) \/ EnableTracepoint(t) \/ EndTrace(t) \/ FreeTrace(t)
      PROVE  IInv'
  BY <1>4, TransactionKeeps
<1>5. CASE UNCHANGED vars
  <2>1. Tids' BY <1>5, SameTids DEF vars, threadVars, IInv
  <2>2. TypeOK' /\ ToldIsTrue' /\ EventsUseTheIdTold' /\ TracesHaveThreads'
    BY <1>5 DEF vars, rubyVars, threadVars, contextVars, IInv, TypeOK, ToldIsTrue, EventsUseTheIdTold, TracesHaveThreads
  <2> QED BY <2>1, <2>2 DEF IInv
<1> QED BY <1>1, <1>2, <1>3, <1>4, <1>5 DEF Next

LEMMA AlwaysIInv == Spec => []IInv
BY InitIInv, NextIInv, PTL DEF Spec

(* The threads, the contexts and the ids have the types of their           *)
(* declarations; no id goes beyond the counter.                            *)
THEOREM TypeCorrect == Spec => []TypeOK
<1>1. IInv => TypeOK BY DEF IInv
<1> QED BY <1>1, AlwaysIInv, PTL

(* Ids are not reused, also after a thread has ended, whichever hook       *)
(* registered it and however often.                                        *)
THEOREM ThreadIdsAreUnique == Spec => []TidsAreNeverReused
<1>1. IInv => TidsAreNeverReused BY DEF IInv, Tids
<1> QED BY <1>1, AlwaysIInv, PTL

(* A thread the Agent was told of sends its events under the id it was     *)
(* told, although its first hook registered it under another.              *)
THEOREM IdsAreTheOnesTold == Spec => []EventsUseTheIdTold
<1>1. IInv => EventsUseTheIdTold BY DEF IInv
<1> QED BY <1>1, AlwaysIInv, PTL

(* THREAD_STARTED names a parent with an id from before.                   *)
THEOREM ParentsAreKnown == Spec => []ParentsComeFirst
<1>1. IInv => ParentsComeFirst BY DEF IInv, Tids
<1> QED BY <1>1, AlwaysIInv, PTL

(* The table of trace contexts holds none that was freed, though threads   *)
(* run between the END_TRANSACTION of a trace and its removal.             *)
THEOREM TableIsLive == Spec => []TableHasLiveTraces
<1>1. IInv => TableHasLiveTraces
  <2> SUFFICES ASSUME IInv, NEW g \in tracecontexts PROVE g \notin freed /\ contexts[g] # NotAllocated
    BY DEF TableHasLiveTraces
  <2>1. g \notin freed /\ contexts[g].thread \in Threads BY DEF IInv, TracesHaveThreads
  <2> QED BY <2>1, Constants DEF NotAllocated
<1> QED BY <1>1, AlwaysIInv, PTL
-----------------------------------------------------------------------------
(* Which trace a thread's events go to.  A thread's group is that of a     *)
(* trace which it or one of the threads it descends from has started.      *)
TracesAreRooted ==
  /\ \A t \in Threads : t \in ancestors[t]
  /\ \A t \in Threads : thgroup[t] # DefaultThreadGroup => contexts[thgroup[t]].thread \in ancestors[t]
  /\ \A g \in Groups : contexts[g].thread # None => ruby[contexts[g].thread] \in {"runs", "ended"}

(* While its tracepoint is enabled a trace is in the table, so the thread  *)
(* that started it stays in its group; and no other thread is in the group *)
(* before the tracepoint is.                                               *)
StartsItsTrace(t) ==
  LET g == at[t].trace IN
  /\ g \in tracecontexts
  /\ contexts[g].thread = t
  /\ thgroup[t] = g
  /\ \A u \in Threads : u # t => thgroup[u] # g
  /\ \A u \in Threads : at[u].op = "end" => at[u].trace # g

TracesRunInTheirGroup ==
  /\ \A g \in Groups : contexts[g].enabled =>
       g \in tracecontexts /\ contexts[g].thread \in Threads /\ thgroup[contexts[g].thread] = g
  /\ \A t \in Threads : at[t].op \in {"start", "begin"} => StartsItsTrace(t)

EventIsAtHome ==
  event.type # "none" =>
    /\ event.thread \in Threads
    /\ contexts[event.trace].thread \in ancestors[event.thread]

Home == TracesAreRooted /\ TracesRunInTheirGroup
HomeInv == Home /\ EventIsAtHome

LEMMA InitHome == Init => HomeInv
<1> SUFFICES ASSUME Init PROVE HomeInv OBVIOUS
<1>1. TracesAreRooted
  BY Constants DEF Init, TracesAreRooted, NotAllocated
<1>2. TracesRunInTheirGroup BY DEF Init, TracesRunInTheirGroup, NotAllocated, InUserCode
<1>3. EventIsAtHome BY DEF Init, EventIsAtHome, NoEvent
<1> QED BY <1>1, <1>2, <1>3 DEF HomeInv, Home

(* A context is started by a thread, and a hook keeps the events of a      *)
(* thread for a trace of its own group only.                               *)
LEMMA KeptAtHome ==
  ASSUME IInv, Home, NEW t \in Threads, NEW g \in Keeping(t)
  PROVE  g \in Groups /\ g = thgroup[t] /\ contexts[g].thread \in ancestors[t]
<1>1. g \in Groups /\ contexts[g].enabled /\ Keeps(t, g) BY DEF Keeping, Enabled
<1>2. CASE t = contexts[g].thread BY <1>1, <1>2 DEF Home, TracesAreRooted, TracesRunInTheirGroup
<1>3. CASE thgroup[t] # DefaultThreadGroup /\ thgroup[t] = g BY <1>1, <1>3 DEF Home, TracesAreRooted
<1> QED BY <1>1, <1>2, <1>3 DEF Keeps

(* Steps that leave groups and traces alone and do not move a thread into  *)
(* start_trace or end_trace.                                               *)
LEMMA SameHome ==
  ASSUME IInv, Home, UNCHANGED <<thgroup, ancestors, tracecontexts>>,
         \A g \in Groups : contexts'[g].thread = contexts[g].thread /\ contexts'[g].enabled = contexts[g].enabled,
         \A t \in Threads : at'[t] = at[t] \/ at'[t].op \in {"user", "thread_ended"},
         \A t \in Threads : ruby[t] \in {"runs", "ended"} => ruby'[t] \in {"runs", "ended"}
  PROVE  Home'
<1>1. \A t \in Threads : thgroup[t] \in {DefaultThreadGroup} \union Groups BY DEF IInv, TypeOK
<1>2. \A g \in Groups : contexts[g].thread \in Threads \union {None} BY DEF IInv, TypeOK
<1>3. TracesAreRooted'
  BY <1>1, <1>2 DEF Home, TracesAreRooted
<1>4. ASSUME NEW t \in Threads, at'[t].op \in {"start", "begin"} PROVE StartsItsTrace(t)'
  <2>1. at'[t] = at[t] /\ StartsItsTrace(t) BY <1>4 DEF Home, TracesRunInTheirGroup
  <2>2. at[t].trace \in Groups BY <2>1 DEF IInv, TypeOK, StartsItsTrace
  <2> QED BY <2>1, <2>2 DEF StartsItsTrace
<1>5. TracesRunInTheirGroup' BY <1>4 DEF Home, TracesRunInTheirGroup
<1> QED BY <1>3, <1>5 DEF Home

LEMMA CreateAtHome == ASSUME IInv, HomeInv, NEW t \in Threads, NEW u \in Threads, Create(t, u) PROVE HomeInv'
<1>1. /\ ruby[t] = "runs" /\ ruby[u] = "none" /\ at[t].op = "user"
      /\ ruby' = [ruby EXCEPT ![u] = "new"] /\ thgroup' = [thgroup EXCEPT ![u] = thgroup[t]]
      /\ ancestors' = [ancestors EXCEPT ![u] = {u} \union ancestors[t]]
      /\ event' = NoEvent /\ UNCHANGED <<tracecontexts, contexts, at>>
  BY DEF Create, Runs, contextVars
<1>2. /\ ruby'[u] = "new" /\ thgroup'[u] = thgroup[t] /\ ancestors'[u] = {u} \union ancestors[t]
      /\ \A v \in Threads : v # u => ruby'[v] = ruby[v] /\ thgroup'[v] = thgroup[v] /\ ancestors'[v] = ancestors[v]
  BY <1>1 DEF IInv, TypeOK
<1>3. TracesAreRooted'
  <2>1. \A v \in Threads : v \in ancestors'[v] BY <1>2 DEF HomeInv, Home, TracesAreRooted
  <2>2. ASSUME NEW v \in Threads, thgroup'[v] # DefaultThreadGroup
        PROVE  contexts'[thgroup'[v]].thread \in ancestors'[v]
    BY <1>1, <1>2, <2>2 DEF HomeInv, Home, TracesAreRooted
  <2>3. ASSUME NEW g \in Groups, contexts'[g].thread # None PROVE ruby'[contexts'[g].thread] \in {"runs", "ended"}
    <3>1. contexts[g].thread \in Threads BY <1>1, <2>3 DEF IInv, TypeOK
    <3> QED BY <1>1, <1>2, <2>3, <3>1 DEF HomeInv, Home, TracesAreRooted
  <2> QED BY <2>1, <2>2, <2>3 DEF TracesAreRooted
<1>4. \A g \in Groups : contexts[g].thread # u
  BY <1>1, Constants DEF HomeInv, Home, TracesAreRooted
<1>5. ASSUME NEW v \in Threads, at'[v].op \in {"start", "begin"} PROVE StartsItsTrace(v)'
  <2>1. StartsItsTrace(v) /\ v # t BY <1>1, <1>5 DEF HomeInv, Home, TracesRunInTheirGroup
  <2>2. at[v].trace \in Groups BY <2>1 DEF IInv, TypeOK, StartsItsTrace
  <2>3. v # u BY <1>4, <2>1, <2>2 DEF StartsItsTrace
  <2> QED BY <1>1, <1>2, <2>1, <2>2, <2>3 DEF StartsItsTrace
<1>6. TracesRunInTheirGroup'
  BY <1>1, <1>2, <1>4, <1>5 DEF HomeInv, Home, TracesRunInTheirGroup
<1>7. EventIsAtHome' BY <1>1 DEF EventIsAtHome, NoEvent
<1> QED BY <1>3, <1>6, <1>7 DEF HomeInv, Home

(* The hook's own steps.                                                   *)
LEMMA HookAtHome ==
  ASSUME IInv, HomeInv, NEW t \in Threads,
         ThreadBegin(t) \/ Event(t) \/ ThreadEnd(t) \/ ForgetThread(t) \/ GetThreadId(t)
  PROVE  HomeInv'
<1>1. UNCHANGED <<thgroup, ancestors, tracecontexts>>
  BY DEF ThreadBegin, Event, ThreadEnd, ForgetThread, GetThreadId, rubyVars, contextVars
<1>2. \A g \in Groups : contexts'[g].thread = contexts[g].thread /\ contexts'[g].enabled = contexts[g].enabled
  BY ParentNoted DEF ThreadBegin, Event, ThreadEnd, ForgetThread, GetThreadId, contextVars, IInv
<1>3. \A u \in Threads : at'[u] = at[u] \/ at'[u].op \in {"user", "thread_ended"}
  <2>1. at \in [Threads -> [op : {"user", "start", "begin", "end", "thread_ended"}, trace : {0} \union Groups]]
    BY DEF IInv, TypeOK
  <2>2. CASE ThreadBegin(t) \/ Event(t) \/ GetThreadId(t)
    BY <2>2 DEF ThreadBegin, Event, GetThreadId, contextVars
  <2>3. CASE ForgetThread(t) BY <2>1, <2>3 DEF ForgetThread, InUserCode
  <2>4. CASE ThreadEnd(t)
    <3>1. at' = at \/ \E g \in Keeping(t) : at' = [at EXCEPT ![t] = [op |-> "thread_ended", trace |-> g]]
      BY <2>4 DEF ThreadEnd
    <3> QED BY <2>1, <3>1
  <2> QED BY <2>2, <2>3, <2>4
<1>4. \A u \in Threads : ruby[u] \in {"runs", "ended"} => ruby'[u] \in {"runs", "ended"}
  <2>1. ruby' = ruby \/ ruby' = [ruby EXCEPT ![t] = "runs"] \/ ruby' = [ruby EXCEPT ![t] = "ended"]
    BY DEF ThreadBegin, Event, ThreadEnd, ForgetThread, GetThreadId, rubyVars
  <2> QED BY <2>1 DEF IInv, TypeOK
<1>5. Home' BY <1>1, <1>2, <1>3, <1>4, SameHome DEF HomeInv
<1>6. event' = NoEvent \/ \E g \in Keeping(t) : event'.thread = t /\ event'.trace = g
  BY DEF ThreadBegin, Event, ThreadEnd, ForgetThread, GetThreadId
<1>7. EventIsAtHome'
  <2>1. CASE event' = NoEvent BY <2>1 DEF EventIsAtHome, NoEvent
  <2>2. CASE \E g \in Keeping(t) : event'.thread = t /\ event'.trace = g
    <3>1. PICK g \in Keeping(t) : event'.thread = t /\ event'.trace = g BY <2>2
    <3>2. g \in Groups /\ contexts[g].thread \in ancestors[t] BY KeptAtHome DEF HomeInv
    <3> QED BY <1>1, <1>2, <3>1, <3>2 DEF EventIsAtHome
  <2> QED BY <1>6, <2>1, <2>2
<1> QED BY <1>5, <1>7 DEF HomeInv

(* start_trace: nobody is in the new group, and the trace the thread had   *)
(* started before is no longer in the table.                               *)
LEMMA StartAtHome == ASSUME IInv, HomeInv, NEW t \in Threads, NEW g \in Groups, StartTrace(t, g) PROVE HomeInv'
<1>1. /\ ruby[t] = "runs" /\ at[t].op = "user" /\ thgroup[t] \notin tracecontexts /\ contexts[g] = NotAllocated
      /\ contexts' = [contexts EXCEPT ![g].thread = t]
      /\ thgroup' = [thgroup EXCEPT ![t] = g]
      /\ tracecontexts' = tracecontexts \union {g}
      /\ at' = [at EXCEPT ![t] = [op |-> "start", trace |-> g]]
      /\ event' = NoEvent /\ UNCHANGED <<ruby, ancestors>>
  BY DEF StartTrace, Runs
<1>2. contexts \in [Groups -> Context] /\ tracecontexts \subseteq Groups BY DEF IInv, TypeOK, Context
<1>3. /\ contexts'[g].thread = t /\ contexts'[g].enabled = contexts[g].enabled
      /\ \A h \in Groups : h # g => contexts'[h] = contexts[h]
  BY <1>1, <1>2 DEF Context
<1>4. at'[t].op = "start" /\ at'[t].trace = g /\ \A u \in Threads : u # t => at'[u] = at[u]
  BY <1>1 DEF IInv, TypeOK
<1>5. thgroup'[t] = g /\ \A u \in Threads : u # t => thgroup'[u] = thgroup[u] BY <1>1 DEF IInv, TypeOK
<1>6. contexts[g].thread = None /\ ~contexts[g].enabled BY <1>1 DEF NotAllocated
<1>7. \A u \in Threads : thgroup[u] # g
  <2> SUFFICES ASSUME NEW u \in Threads, thgroup[u] = g PROVE FALSE OBVIOUS
  <2>1. g # DefaultThreadGroup BY Constants DEF Groups, DefaultThreadGroup
  <2>2. None \in ancestors[u] BY <1>6, <2>1 DEF HomeInv, Home, TracesAreRooted
  <2> QED BY <2>2, Constants DEF IInv, TypeOK
<1>8. \A u \in Threads : at[u].op \in {"start", "begin", "end"} => at[u].trace \in Groups /\ at[u].trace # g
  BY <1>6, Constants DEF IInv, TracesHaveThreads
<1>9. TracesAreRooted'
  <2>1. ASSUME NEW u \in Threads, thgroup'[u] # DefaultThreadGroup PROVE contexts'[thgroup'[u]].thread \in ancestors'[u]
    <3>1. CASE u = t BY <1>1, <1>3, <1>5, <3>1 DEF HomeInv, Home, TracesAreRooted
    <3>2. CASE u # t
      <4>1. thgroup[u] \in Groups /\ thgroup[u] # g BY <1>5, <1>7, <2>1, <3>2 DEF IInv, TypeOK
      <4> QED BY <1>1, <1>3, <1>5, <2>1, <3>2, <4>1 DEF HomeInv, Home, TracesAreRooted
    <3> QED BY <3>1, <3>2
  <2>2. ASSUME NEW h \in Groups, contexts'[h].thread # None PROVE ruby'[contexts'[h].thread] \in {"runs", "ended"}
    BY <1>1, <1>3, <2>2 DEF HomeInv, Home, TracesAreRooted
  <2> QED BY <1>1, <2>1, <2>2 DEF HomeInv, Home, TracesAreRooted
<1>10. ASSUME NEW h \in Groups, contexts'[h].enabled
       PROVE  h \in tracecontexts' /\ contexts'[h].thread \in Threads /\ thgroup'[contexts'[h].thread] = h
  <2>1. h # g /\ contexts[h].enabled /\ contexts'[h].thread = contexts[h].thread BY <1>3, <1>6, <1>10
  <2>2. h \in tracecontexts /\ contexts[h].thread \in Threads /\ thgroup[contexts[h].thread] = h
    BY <2>1 DEF HomeInv, Home, TracesRunInTheirGroup
  <2>3. contexts[h].thread # t BY <1>1, <2>2
  <2> QED BY <1>1, <1>5, <2>1, <2>2, <2>3
<1>11. ASSUME NEW u \in Threads, at'[u].op \in {"start", "begin"} PROVE StartsItsTrace(u)'
  <2>1. \A v \in Threads : at'[v].op = "end" => v # t /\ at'[v].trace # g BY <1>4, <1>8
  <2>2. CASE u = t BY <1>1, <1>3, <1>4, <1>5, <1>7, <2>1, <2>2 DEF StartsItsTrace
  <2>3. CASE u # t
    <3>1. StartsItsTrace(u) /\ at'[u] = at[u] /\ at[u].trace \in Groups /\ at[u].trace # g
      BY <1>4, <1>8, <1>11, <2>3 DEF HomeInv, Home, TracesRunInTheirGroup
    <3> QED BY <1>1, <1>3, <1>4, <1>5, <2>1, <2>3, <3>1 DEF StartsItsTrace
  <2> QED BY <2>2, <2>3
<1>12. EventIsAtHome' BY <1>1 DEF EventIsAtHome, NoEvent
<1> QED BY <1>9, <1>10, <1>11, <1>12 DEF HomeInv, Home, TracesRunInTheirGroup

(* What the steps inside start_trace and end_trace need of each other.     *)
LEMMA MovesAtHome ==
  ASSUME IInv, HomeInv, NEW t \in Threads, NEW e,
         at' = [at EXCEPT ![t] = e],
         e.op \in {"start", "begin"} => StartsItsTrace(t) /\ e.trace = at[t].trace,
         e.op = "end" => \A u \in Threads : u # t /\ at[u].op \in {"start", "begin"} => at[u].trace # e.trace,
         \A g \in Groups : contexts'[g].thread = contexts[g].thread,
         \A g \in Groups : contexts'[g].enabled =>
           g \in tracecontexts' /\ contexts[g].thread \in Threads /\ thgroup[contexts[g].thread] = g,
         tracecontexts' \subseteq tracecontexts,
         \A u \in Threads : u # t /\ at[u].op \in {"start", "begin"} /\ at[u].trace \in tracecontexts
                              => at[u].trace \in tracecontexts',
         e.op \in {"start", "begin"} => tracecontexts' = tracecontexts,
         UNCHANGED rubyVars
  PROVE  Home'
<1>1. at'[t] = e /\ \A u \in Threads : u # t => at'[u] = at[u] BY DEF IInv, TypeOK
<1>2. UNCHANGED <<ruby, thgroup, ancestors>> BY DEF rubyVars
<1>3. TracesAreRooted'
  <2>1. \A u \in Threads : thgroup[u] # DefaultThreadGroup => thgroup[u] \in Groups BY DEF IInv, TypeOK
  <2> QED BY <1>2, <2>1 DEF HomeInv, Home, TracesAreRooted
<1>4. ASSUME NEW u \in Threads, at'[u].op \in {"start", "begin"} PROVE StartsItsTrace(u)'
  <2>1. StartsItsTrace(u) /\ at'[u].trace = at[u].trace
    BY <1>1, <1>4 DEF HomeInv, Home, TracesRunInTheirGroup
  <2>2. at[u].trace \in Groups BY <2>1 DEF IInv, TypeOK, StartsItsTrace
  <2>3. at[u].trace \in tracecontexts' BY <1>1, <1>4, <2>1 DEF StartsItsTrace
  <2>4. ASSUME NEW v \in Threads, at'[v].op = "end" PROVE at'[v].trace # at[u].trace
    BY <1>1, <1>4, <2>1, <2>4 DEF StartsItsTrace
  <2> QED BY <1>2, <2>1, <2>2, <2>3, <2>4 DEF StartsItsTrace
<1>5. TracesRunInTheirGroup' BY <1>2, <1>4 DEF TracesRunInTheirGroup
<1> QED BY <1>3, <1>5 DEF Home

LEMMA TransactionAtHome ==
  ASSUME IInv, HomeInv, NEW t \in Threads, BeginTransaction(t) \/ EnableTracepoint(t) \/ EndTrace(t) \/ FreeTrace(t)
  PROVE  HomeInv'
<1>0. /\ contexts \in [Groups -> Context] /\ tracecontexts \subseteq Groups
      /\ at[t] \in [op : {"user", "start", "begin", "end", "thread_ended"}, trace : {0} \union Groups]
      /\ at \in [Threads -> [op : {"user", "start", "begin", "end", "thread_ended"}, trace : {0} \union Groups]]
  BY DEF IInv, TypeOK, Context
<1>1. at[t].op \in {"start", "begin"} => StartsItsTrace(t) BY DEF HomeInv, Home, TracesRunInTheirGroup
<1>2. \A g \in Groups : contexts[g].enabled =>
        g \in tracecontexts /\ contexts[g].thread \in Threads /\ thgroup[contexts[g].thread] = g
  BY DEF HomeInv, Home, TracesRunInTheirGroup
<1>3. \A u \in Threads : at[u].op \in {"start", "begin"} => StartsItsTrace(u)
  BY DEF HomeInv, Home, TracesRunInTheirGroup
<1>4. ASSUME NEW g \in Groups, NEW b \in BOOLEAN, contexts' = [contexts EXCEPT ![g].enabled = b]
      PROVE  /\ \A h \in Groups : contexts'[h].thread = contexts[h].thread
             /\ \A h \in Groups : h # g => contexts'[h].enabled = contexts[h].enabled
             /\ contexts'[g].enabled = b
  BY <1>0, <1>4 DEF Context
<1>5. CASE BeginTransaction(t)
  <2>1. /\ at[t].op = "start" /\ at' = [at EXCEPT ![t].op = "begin"]
        /\ event'.thread = t /\ event'.trace = at[t].trace
        /\ UNCHANGED <<rubyVars, tracecontexts, contexts>>
    BY <1>5 DEF BeginTransaction
  <2>2. at' = [at EXCEPT ![t] = [op |-> "begin", trace |-> at[t].trace]]
    <3>1. [at[t] EXCEPT !.op = "begin"] = [op |-> "begin", trace |-> at[t].trace]
      BY <1>0
    <3>2. at' = [at EXCEPT ![t] = [at[t] EXCEPT !.op = "begin"]]
      BY <2>1
    <3> QED BY <3>1, <3>2
  <2> DEFINE e == [op |-> "begin", trace |-> at[t].trace]
  <2>5. e.op = "begin" /\ e.trace = at[t].trace /\ StartsItsTrace(t) BY <1>1, <2>1
  <2>6. at' = [at EXCEPT ![t] = e] BY <2>2
  <2>3. Home'
    <3> HIDE DEF e
    <3>1. UNCHANGED rubyVars /\ tracecontexts' = tracecontexts /\ contexts' = contexts BY <2>1
    <3>2. e.op # "end" BY <2>5
    <3>3. \A g \in Groups : contexts'[g].enabled =>
            g \in tracecontexts' /\ contexts[g].thread \in Threads /\ thgroup[contexts[g].thread] = g
      BY <1>2, <3>1
    <3> QED BY <2>5, <2>6, <3>1, <3>2, <3>3, MovesAtHome
  <2>4. contexts'[event'.trace].thread = t /\ t \in ancestors'[t]
    BY <1>1, <2>1 DEF StartsItsTrace, HomeInv, Home, TracesAreRooted, rubyVars
  <2> QED BY <2>1, <2>3, <2>4 DEF HomeInv, EventIsAtHome
<1>6. CASE EnableTracepoint(t)
  <2>1. /\ at[t].op = "begin" /\ contexts' = [contexts EXCEPT ![at[t].trace].enabled = TRUE]
        /\ at' = [at EXCEPT ![t] = InUserCode] /\ event' = NoEvent
        /\ UNCHANGED <<rubyVars, tracecontexts>>
    BY <1>6 DEF EnableTracepoint
  <2>2. StartsItsTrace(t) /\ at[t].trace \in Groups BY <1>0, <1>1, <2>1 DEF StartsItsTrace
  <2>3. \A h \in Groups : contexts'[h].thread = contexts[h].thread BY <1>4, <2>1, <2>2
  <2>4. ASSUME NEW h \in Groups, contexts'[h].enabled
        PROVE  h \in tracecontexts' /\ contexts[h].thread \in Threads /\ thgroup[contexts[h].thread] = h
    <3>1. CASE h = at[t].trace BY <2>1, <2>2, <3>1 DEF StartsItsTrace
    <3>2. CASE h # at[t].trace BY <1>2, <1>4, <2>1, <2>2, <2>4, <3>2
    <3> QED BY <3>1, <3>2
  <2>5. Home' BY <2>1, <2>3, <2>4, MovesAtHome DEF InUserCode
  <2> QED BY <2>1, <2>5 DEF HomeInv, EventIsAtHome, NoEvent
<1>7. CASE EndTrace(t)
  <2>1. /\ at[t].op = "user" /\ thgroup[t] \in tracecontexts
        /\ at' = [at EXCEPT ![t] = [op |-> "end", trace |-> thgroup[t]]]
        /\ event'.thread = contexts[thgroup[t]].thread /\ event'.trace = thgroup[t]
        /\ UNCHANGED <<rubyVars, tracecontexts, contexts>>
    BY <1>7 DEF EndTrace, Runs
  <2>2. \A u \in Threads : u # t /\ at[u].op \in {"start", "begin"} => at[u].trace # thgroup[t]
    BY <1>3 DEF StartsItsTrace
  <2>3. Home' BY <1>2, <2>1, <2>2, MovesAtHome
  <2>4. contexts[thgroup[t]].thread \in Threads BY <2>1 DEF IInv, TracesHaveThreads
  <2>5. EventIsAtHome' BY <2>1, <2>4 DEF EventIsAtHome, HomeInv, Home, TracesAreRooted, rubyVars
  <2> QED BY <2>3, <2>5 DEF HomeInv
<1>8. CASE FreeTrace(t)
  <2>1. /\ at[t].op = "end" /\ contexts' = [contexts EXCEPT ![at[t].trace].enabled = FALSE]
        /\ tracecontexts' = tracecontexts \ {at[t].trace}
        /\ at' = [at EXCEPT ![t] = InUserCode] /\ event' = NoEvent
        /\ UNCHANGED rubyVars
    BY <1>8 DEF FreeTrace, TakeOffTable
  <2>2. at[t].trace \in Groups BY <2>1 DEF IInv, TracesHaveThreads
  <2>3. /\ \A h \in Groups : contexts'[h].thread = contexts[h].thread
        /\ \A h \in Groups : h # at[t].trace => contexts'[h].enabled = contexts[h].enabled
        /\ contexts'[at[t].trace].enabled = FALSE
    BY <1>4, <2>1, <2>2
  <2>4. ASSUME NEW h \in Groups, contexts'[h].enabled
        PROVE  h \in tracecontexts' /\ contexts[h].thread \in Threads /\ thgroup[contexts[h].thread] = h
    BY <1>2, <2>1, <2>3, <2>4
  <2>5. \A u \in Threads : at[u].op \in {"start", "begin"} => at[u].trace # at[t].trace
    BY <1>3, <2>1 DEF StartsItsTrace
  <2>6. Home' BY <2>1, <2>3, <2>4, <2>5, MovesAtHome DEF InUserCode
  <2> QED BY <2>1, <2>6 DEF HomeInv, EventIsAtHome, NoEvent
<1> QED BY <1>5, <1>6, <1>7, <1>8

LEMMA NextHome == IInv /\ HomeInv /\ [Next]_vars => HomeInv'
<1> SUFFICES ASSUME IInv, HomeInv, [Next]_vars PROVE HomeInv' OBVIOUS
<1>1. ASSUME NEW t \in Threads, NEW u \in Threads, Create(t, u) PROVE HomeInv' BY <1>1, CreateAtHome
<1>2. ASSUME NEW t \in Threads, NEW g \in Groups, StartTrace(t, g) PROVE HomeInv' BY <1>2, StartAtHome
<1>3. ASSUME NEW t \in Threads,
             ThreadBegin(t) \/ Event(t) \/ ThreadEnd(t) \/ ForgetThread(t) \/ GetThreadId(t)
      PROVE  HomeInv'
  BY <1>3, HookAtHome
<1>4. ASSUME NEW t \in Threads, BeginTransaction(t) \/ EnableTracepoint(t) \/ EndTrace(t) \/ FreeTrace(t)
      PROVE  HomeInv'
  BY <1>4, TransactionAtHome
<1>5. CASE UNCHANGED vars
  BY <1>5 DEF vars, rubyVars, contextVars, HomeInv, Home, EventIsAtHome, TracesAreRooted, TracesRunInTheirGroup, StartsItsTrace
<1> QED BY <1>1, <1>2, <1>3, <1>4, <1>5 DEF Next

(* Every command goes into the trace that its thread, or a thread it       *)
(* descends from, has started; and no two hooks keep one event.            *)
THEOREM EventsGoHome == Spec => []EventsStayInTheirTrace
<1>1. ASSUME IInv, HomeInv, NEW t \in Threads PROVE Cardinality(Keeping(t)) <= 1
  <2>1. Keeping(t) \subseteq {thgroup[t]} BY <1>1, KeptAtHome DEF HomeInv
  <2>2. Keeping(t) = {} \/ Keeping(t) = {thgroup[t]} BY <2>1
  <2>3. Cardinality(Keeping(t)) \in {0, 1} BY <2>2, FS_EmptySet, FS_Singleton
  <2> QED BY <2>3
<1>2. IInv /\ HomeInv => EventsStayInTheirTrace BY <1>1 DEF HomeInv, EventIsAtHome, EventsStayInTheirTrace
<1> QED BY <1>2, AlwaysIInv, InitHome, NextHome, PTL DEF Spec

=============================================================================
