-------------------------- MODULE MethodTable_proofs --------------------------
(***************************************************************************)
(* Function ids: type correctness, one method per id, METHODINFO before    *)
(* BEGIN, and a walk of the table that misses nothing, for every number of *)
(* threads, methods, ticks and ids.                                        *)
(***************************************************************************)
EXTENDS MethodTable, TLAPS

(* Every id that is in use, by the table or by a thread that waits in      *)
(* rb_rg_methodinfo, was announced, and none was announced beyond the      *)
(* counter.                                                                *)
IdsAreAnnounced ==
  /\ \A p \in named : p[1] <= methods
  /\ \A k \in DOMAIN methodinfo :
       methodinfo[k].id # BLACKLISTED => <<methodinfo[k].id, methodinfo[k].method>> \in named
  /\ \A t \in Threads : held[t] # NoEntry => <<held[t].id, held[t].method>> \in named

(* What a walk has not sent of the ids it must send is ahead of it.        *)
AheadOfWalk == {methodinfo[k].id : k \in ToResend}
WalkIsOnItsWay ==
  /\ timer.at # "walk" => kept \subseteq resent
  /\ timer.at = "walk" => kept \subseteq resent \union AheadOfWalk

IInv == TypeOK /\ IdsAreAnnounced /\ IdsNameOneMethod /\ BeginsAreAnnounced /\ WalkIsOnItsWay

LEMMA Ticks == RG_TIMER_THREAD_METHODINFO_TICK \in Nat /\ 1 \in 0..RG_TIMER_THREAD_METHODINFO_TICK
BY MethodTableAssumption

LEMMA Counts == MaxMethods \in Nat /\ MaxRestarts \in Nat
BY MethodTableAssumption

LEMMA EntryIds ==
  ASSUME methodinfo \in Seq(EntryType), NEW k \in DOMAIN methodinfo, methodinfo[k].id # BLACKLISTED
  PROVE  methodinfo[k].id \in 1..MaxMethods
<1>1. methodinfo[k] \in EntryType OBVIOUS
<1>2. methodinfo[k].id \in 0..MaxMethods BY <1>1 DEF EntryType
<1> QED BY <1>2, Counts DEF BLACKLISTED

LEMMA InitIInv == Init => IInv
  BY Ticks, Counts DEF Init, IInv, TypeOK, IdsAreAnnounced, IdsNameOneMethod, BeginsAreAnnounced, WalkIsOnItsWay,
         NoCommand, Command, EntryType, NoEntry

(* A step that leaves the table, the ids and the last walk alone.          *)
LEMMA CallKnownKeeps == ASSUME IInv, NEW t \in Threads, NEW m \in Methods, CallKnown(t, m) PROVE IInv'
<1> USE DEF IInv
<1>1. TypeOK' BY DEF CallKnown, TypeOK, tableVars, syncVars, agentVars
<1>2. IdsAreAnnounced' BY DEF CallKnown, IdsAreAnnounced, tableVars, agentVars
<1>3. IdsNameOneMethod' BY DEF CallKnown, IdsNameOneMethod, tableVars, agentVars
<1>4. BeginsAreAnnounced'
  <2>1. PICK k \in DOMAIN methodinfo :
          /\ methodinfo[k].method = m
          /\ IF methodinfo[k].id = BLACKLISTED THEN event' = NoCommand ELSE Begin(m, methodinfo[k].id)
    BY DEF CallKnown, Entries
  <2>2. named' = named BY DEF CallKnown, agentVars
  <2>3. CASE methodinfo[k].id = BLACKLISTED
    BY <2>1, <2>3 DEF BeginsAreAnnounced, NoCommand, Command
  <2>4. CASE methodinfo[k].id # BLACKLISTED
    BY <2>1, <2>2, <2>4 DEF BeginsAreAnnounced, Begin, Command, IdsAreAnnounced
  <2> QED BY <2>3, <2>4
<1>5. WalkIsOnItsWay' BY DEF CallKnown, WalkIsOnItsWay, AheadOfWalk, ToResend, tableVars, syncVars
<1> QED BY <1>1, <1>2, <1>3, <1>4, <1>5

(* A new entry goes to the end of the table.                               *)
LEMMA Appended ==
  ASSUME NEW e \in EntryType, methodinfo \in Seq(EntryType), methodinfo' = Append(methodinfo, e)
  PROVE  /\ methodinfo' \in Seq(EntryType)
         /\ Len(methodinfo') = Len(methodinfo) + 1
         /\ DOMAIN methodinfo' = DOMAIN methodinfo \union {Len(methodinfo) + 1}
         /\ \A k \in DOMAIN methodinfo : methodinfo'[k] = methodinfo[k]
         /\ methodinfo'[Len(methodinfo) + 1] = e
         /\ DOMAIN methodinfo = 1..Len(methodinfo)
  OBVIOUS

LEMMA AppendKeepsTheWalk ==
  ASSUME NEW e \in EntryType, TypeOK, WalkIsOnItsWay, methodinfo' = Append(methodinfo, e), UNCHANGED syncVars
  PROVE  WalkIsOnItsWay' /\ timer'.walked \in 0..Len(methodinfo')
<1>1. methodinfo \in Seq(EntryType) /\ timer.walked \in 0..Len(methodinfo) BY DEF TypeOK
<1>2. timer' = timer /\ resent' = resent /\ kept' = kept BY DEF syncVars
<1>3. \A k \in ToResend : k \in ToResend' /\ methodinfo'[k] = methodinfo[k]
  BY <1>1, <1>2, Appended DEF ToResend
<1>4. AheadOfWalk \subseteq AheadOfWalk' BY <1>3 DEF AheadOfWalk
<1>5. WalkIsOnItsWay' BY <1>2, <1>4 DEF WalkIsOnItsWay
<1>6. Len(methodinfo) \in Nat /\ Len(methodinfo') = Len(methodinfo) + 1 BY <1>1, Appended
<1>7. timer'.walked \in 0..Len(methodinfo') BY <1>1, <1>2, <1>6
<1> QED BY <1>5, <1>7

(* The new id is beyond all that were announced.                           *)
LEMMA DiscoverKeeps == ASSUME IInv, NEW t \in Threads, NEW m \in Methods, Discover(t, m) PROVE IInv'
<1> DEFINE e == Entry(m, NextId)
<1>1. /\ methods' = NextId /\ methodinfo' = Append(methodinfo, e) /\ named' = named \union {<<NextId, m>>}
      /\ held' = [held EXCEPT ![t] = e] /\ agent' = agent \union {NextId}
      /\ event' = Command("METHODINFO", m, NextId)
      /\ UNCHANGED <<left_out, syncVars, restarts>> /\ methods < MaxMethods
  BY DEF Discover, Announced
<1>2. NextId \in 1..MaxMethods /\ NextId = methods + 1 /\ methods \in 0..MaxMethods
  BY <1>1, Counts DEF IInv, TypeOK, NextId
<1>3. e \in EntryType /\ e.id = NextId /\ e.method = m /\ e.id # BLACKLISTED
  BY <1>2, Counts DEF EntryType, Entry, BLACKLISTED
<1>4. methodinfo \in Seq(EntryType) BY DEF IInv, TypeOK
<1>5. /\ methodinfo' \in Seq(EntryType) /\ DOMAIN methodinfo' = DOMAIN methodinfo \union {Len(methodinfo) + 1}
      /\ \A k \in DOMAIN methodinfo : methodinfo'[k] = methodinfo[k]
      /\ methodinfo'[Len(methodinfo) + 1] = e
      /\ DOMAIN methodinfo = 1..Len(methodinfo)
  BY <1>1, <1>3, <1>4, Appended
<1>6. WalkIsOnItsWay' /\ timer'.walked \in 0..Len(methodinfo')
  BY <1>1, <1>3, AppendKeepsTheWalk DEF IInv
<1>7. named \subseteq (1..MaxMethods) \X Methods /\ \A p \in named : p[1] <= methods
  BY DEF IInv, TypeOK, IdsAreAnnounced
<1>8. \A p \in named : p[1] # NextId
  BY <1>2, <1>7
<1>9. \A k \in DOMAIN methodinfo : methodinfo[k].id # NextId
  <2> SUFFICES ASSUME NEW k \in DOMAIN methodinfo, methodinfo[k].id = NextId PROVE FALSE OBVIOUS
  <2>1. methodinfo[k].id # BLACKLISTED BY <1>2 DEF BLACKLISTED
  <2>2. <<methodinfo[k].id, methodinfo[k].method>> \in named BY <2>1 DEF IInv, IdsAreAnnounced
  <2> QED BY <1>8, <2>2
<1>10. TypeOK'
  <2>1. held' \in [Threads -> EntryType \union {NoEntry}] BY <1>1, <1>3 DEF IInv, TypeOK
  <2>2. named' \subseteq (1..MaxMethods) \X Methods BY <1>1, <1>2, <1>7
  <2>3. agent' \subseteq 1..MaxMethods BY <1>1, <1>2 DEF IInv, TypeOK
  <2>4. timer' \in [at : {"wait", "flushed", "frequency", "walk"},
                    ticks : 0..RG_TIMER_THREAD_METHODINFO_TICK, walked : 0..Len(methodinfo')]
    <3>1. timer' = timer BY <1>1 DEF syncVars
    <3>2. timer \in [at : {"wait", "flushed", "frequency", "walk"},
                     ticks : 0..RG_TIMER_THREAD_METHODINFO_TICK, walked : 0..Len(methodinfo)]
      BY DEF IInv, TypeOK
    <3> QED BY ONLY <3>1, <3>2, <1>6
  <2>5. left_out' \subseteq Methods /\ methods' \in 0..MaxMethods /\ restarts' \in 0..MaxRestarts
        /\ resent' \subseteq 1..MaxMethods /\ kept' \subseteq 1..MaxMethods
    BY <1>1, <1>2 DEF IInv, TypeOK, syncVars
  <2> QED BY <1>5, <2>1, <2>2, <2>3, <2>4, <2>5 DEF TypeOK
<1>11. IdsAreAnnounced'
  <2>1. \A p \in named' : p[1] <= methods' BY <1>1, <1>2, <1>7
  <2>2. ASSUME NEW k \in DOMAIN methodinfo', methodinfo'[k].id # BLACKLISTED
        PROVE  <<methodinfo'[k].id, methodinfo'[k].method>> \in named'
    BY <1>1, <1>3, <1>5, <2>2 DEF IInv, IdsAreAnnounced
  <2>3. ASSUME NEW u \in Threads, held'[u] # NoEntry
        PROVE  <<held'[u].id, held'[u].method>> \in named'
    <3>1. CASE u = t
      <4>1. held'[u] = e BY <1>1, <3>1 DEF IInv, TypeOK
      <4> QED BY <1>1, <1>3, <4>1
    <3>2. CASE u # t
      <4>1. held'[u] = held[u] BY <1>1, <3>2 DEF IInv, TypeOK
      <4>2. <<held[u].id, held[u].method>> \in named BY <2>3, <4>1 DEF IInv, IdsAreAnnounced
      <4>3. named \subseteq named' BY <1>1
      <4> QED BY <4>1, <4>2, <4>3
    <3> QED BY <3>1, <3>2
  <2> QED BY <2>1, <2>2, <2>3 DEF IdsAreAnnounced
<1>12. IdsNameOneMethod'
  <2>1. \A p, q \in named' : p[1] = q[1] => p[2] = q[2]
    BY <1>1, <1>8 DEF IInv, IdsNameOneMethod
  <2>2. ASSUME NEW j \in DOMAIN methodinfo', NEW k \in DOMAIN methodinfo',
               methodinfo'[j].id = methodinfo'[k].id, methodinfo'[j].id # BLACKLISTED
        PROVE  j = k
    BY <1>3, <1>5, <1>9, <2>2 DEF IInv, IdsNameOneMethod
  <2> QED BY <2>1, <2>2 DEF IdsNameOneMethod
<1>13. BeginsAreAnnounced' BY <1>1 DEF BeginsAreAnnounced, Command
<1> QED BY <1>6, <1>10, <1>11, <1>12, <1>13 DEF IInv

LEMMA DiscoverLeftOutKeeps ==
  ASSUME IInv, NEW t \in Threads, NEW m \in Methods, DiscoverLeftOut(t, m) PROVE IInv'
<1> DEFINE e == Entry(m, BLACKLISTED)
<1>1. /\ methodinfo' = Append(methodinfo, e) /\ event' = NoCommand
      /\ UNCHANGED <<methods, left_out, held, syncVars, agentVars>>
  BY DEF DiscoverLeftOut
<1>2. e \in EntryType /\ e.id = BLACKLISTED BY Counts DEF EntryType, Entry, BLACKLISTED
<1>3. methodinfo \in Seq(EntryType) BY DEF IInv, TypeOK
<1>4. /\ methodinfo' \in Seq(EntryType) /\ DOMAIN methodinfo' = DOMAIN methodinfo \union {Len(methodinfo) + 1}
      /\ \A k \in DOMAIN methodinfo : methodinfo'[k] = methodinfo[k]
      /\ methodinfo'[Len(methodinfo) + 1] = e
  BY <1>1, <1>2, <1>3, Appended
<1>5. WalkIsOnItsWay' /\ timer'.walked \in 0..Len(methodinfo')
  BY <1>1, <1>2, AppendKeepsTheWalk DEF IInv
<1>6. timer' \in [at : {"wait", "flushed", "frequency", "walk"},
                  ticks : 0..RG_TIMER_THREAD_METHODINFO_TICK, walked : 0..Len(methodinfo')]
  <2>1. timer' = timer BY <1>1 DEF syncVars
  <2>2. timer \in [at : {"wait", "flushed", "frequency", "walk"},
                   ticks : 0..RG_TIMER_THREAD_METHODINFO_TICK, walked : 0..Len(methodinfo)]
    BY DEF IInv, TypeOK
  <2> QED BY ONLY <2>1, <2>2, <1>5
<1>7. TypeOK' BY <1>1, <1>4, <1>6 DEF IInv, TypeOK, agentVars, syncVars
<1>8. IdsAreAnnounced' BY <1>1, <1>2, <1>4 DEF IInv, IdsAreAnnounced, agentVars
<1>9. IdsNameOneMethod' BY <1>1, <1>2, <1>4 DEF IInv, IdsNameOneMethod, agentVars
<1>10. BeginsAreAnnounced' BY <1>1 DEF BeginsAreAnnounced, NoCommand, Command
<1> QED BY <1>5, <1>7, <1>8, <1>9, <1>10 DEF IInv

LEMMA ResumeKeeps == ASSUME IInv, NEW t \in Threads, Resume(t) PROVE IInv'
<1>1. held' = [held EXCEPT ![t] = NoEntry] /\ UNCHANGED <<methodinfo, methods, left_out, syncVars, agentVars>>
      /\ event' = Command("BEGIN", held[t].method, held[t].id) /\ held[t] # NoEntry
  BY DEF Resume, Begin
<1>2. TypeOK' BY <1>1 DEF IInv, TypeOK, syncVars, agentVars
<1>3. \A u \in Threads : held'[u] # NoEntry => held'[u] = held[u] BY <1>1 DEF IInv, TypeOK
<1>4. IdsAreAnnounced' BY <1>1, <1>3 DEF IInv, IdsAreAnnounced, agentVars
<1>5. IdsNameOneMethod' BY <1>1 DEF IInv, IdsNameOneMethod, agentVars
<1>6. BeginsAreAnnounced' BY <1>1 DEF IInv, IdsAreAnnounced, BeginsAreAnnounced, Command, agentVars
<1>7. WalkIsOnItsWay' BY <1>1 DEF IInv, WalkIsOnItsWay, AheadOfWalk, ToResend, syncVars
<1> QED BY <1>2, <1>4, <1>5, <1>6, <1>7 DEF IInv

LEMMA AddRuleKeeps ==
  ASSUME IInv, NEW m \in Methods, NEW leaves_out \in BOOLEAN, AddRule(m, leaves_out) PROVE IInv'
<1>1. /\ methodinfo' = <<>> /\ kept' = {} /\ event' = NoCommand /\ timer' = [timer EXCEPT !.walked = 0]
      /\ UNCHANGED <<methods, held, resent, agentVars>>
  BY DEF AddRule
<1>2. left_out' \subseteq Methods BY DEF AddRule, IInv, TypeOK
<1>3. methodinfo' \in Seq(EntryType) /\ DOMAIN methodinfo' = {} /\ Len(methodinfo') = 0 BY <1>1
<1>4. timer' \in [at : {"wait", "flushed", "frequency", "walk"},
                  ticks : 0..RG_TIMER_THREAD_METHODINFO_TICK, walked : 0..Len(methodinfo')]
  BY <1>1, <1>3 DEF IInv, TypeOK
<1>5. TypeOK' BY <1>1, <1>2, <1>3, <1>4 DEF IInv, TypeOK, agentVars
<1>6. IdsAreAnnounced' BY <1>1, <1>3 DEF IInv, IdsAreAnnounced, agentVars
<1>7. IdsNameOneMethod' BY <1>1, <1>3 DEF IInv, IdsNameOneMethod, agentVars
<1>8. BeginsAreAnnounced' BY <1>1 DEF BeginsAreAnnounced, NoCommand, Command
<1>9. WalkIsOnItsWay' BY <1>1 DEF WalkIsOnItsWay
<1> QED BY <1>5, <1>6, <1>7, <1>8, <1>9 DEF IInv

LEMMA AgentRestartKeeps == ASSUME IInv, AgentRestart PROVE IInv'
<1>1. TypeOK' BY Counts DEF AgentRestart, IInv, TypeOK, tableVars, syncVars
<1>2. IdsAreAnnounced' /\ IdsNameOneMethod' /\ BeginsAreAnnounced'
  BY DEF AgentRestart, IInv, IdsAreAnnounced, IdsNameOneMethod, BeginsAreAnnounced, tableVars
<1>3. WalkIsOnItsWay' BY DEF AgentRestart, IInv, WalkIsOnItsWay, AheadOfWalk, ToResend, tableVars, syncVars
<1> QED BY <1>1, <1>2, <1>3 DEF IInv
-----------------------------------------------------------------------------
(* The timer thread changes no entry.                                      *)
TimerType ==
  timer \in [at : {"wait", "flushed", "frequency", "walk"},
             ticks : 0..RG_TIMER_THREAD_METHODINFO_TICK, walked : 0..Len(methodinfo)]

LEMMA TickKeepsType ==
  ASSUME TypeOK, timer' = TickOver(0) \/ (timer' = TickOver(timer.ticks) /\ ~IsSyncTick), UNCHANGED methodinfo
  PROVE  TimerType' /\ timer'.at = "wait"
<1>1. timer \in [at : {"wait", "flushed", "frequency", "walk"},
             ticks : 0..RG_TIMER_THREAD_METHODINFO_TICK, walked : 0..Len(methodinfo)] BY DEF TypeOK
<1>2. CASE timer' = TickOver(0)
  <2>1. timer' = [timer EXCEPT !.at = "wait", !.ticks = 1] BY <1>2 DEF TickOver
  <2> QED BY <1>1, <2>1, Ticks DEF TimerType
<1>3. CASE timer' = TickOver(timer.ticks) /\ ~IsSyncTick
  <2>1. timer.ticks + 1 \in 0..RG_TIMER_THREAD_METHODINFO_TICK BY <1>1, <1>3, Ticks DEF IsSyncTick
  <2> QED BY <1>1, <1>3, <2>1 DEF TickOver, TimerType
<1> QED BY <1>2, <1>3

LEMMA TimerKeeps == ASSUME IInv, TimerThread PROVE IInv'
<1>0. methodinfo \in Seq(EntryType) /\ TimerType BY DEF IInv, TypeOK, TimerType
<1>1. UNCHANGED <<tableVars, restarts, event>>
  BY DEF TimerThread, Flush, NoSync, NothingToSync, SendFrequency, SendProcessType, EmitMethodinfo, EndSync, agentVars
<1>2. ASSUME UNCHANGED agentVars, UNCHANGED <<tableVars, event>>
      PROVE  IdsAreAnnounced' /\ IdsNameOneMethod' /\ BeginsAreAnnounced'
  BY <1>2 DEF IInv, IdsAreAnnounced, IdsNameOneMethod, BeginsAreAnnounced, tableVars, agentVars
<1>3. ASSUME UNCHANGED <<tableVars, resent, kept, agentVars, event>>, TimerType',
             timer'.at # "walk", timer.at # "walk" \/ ToResend = {}
      PROVE  IInv'
  <2>1. TypeOK' BY <1>3 DEF IInv, TypeOK, TimerType, tableVars, agentVars
  <2>2. kept \subseteq resent BY <1>3 DEF IInv, WalkIsOnItsWay, AheadOfWalk
  <2>3. WalkIsOnItsWay' BY <1>3, <2>2 DEF WalkIsOnItsWay
  <2> QED BY <1>2, <1>3, <2>1, <2>3 DEF IInv
<1>4. CASE Flush
  <2>1. TimerType' /\ timer'.at # "walk" BY <1>0, <1>1, <1>4 DEF Flush, TimerType, tableVars
  <2> QED BY <1>3, <1>4, <2>1 DEF Flush
<1>5. CASE NoSync
  <2>1. TimerType' /\ timer'.at # "walk" BY <1>1, <1>5, TickKeepsType DEF NoSync, IInv, tableVars
  <2> QED BY <1>3, <1>5, <2>1 DEF NoSync
<1>6. CASE NothingToSync
  <2>1. TimerType' /\ timer'.at # "walk" BY <1>1, <1>6, TickKeepsType DEF NothingToSync, IInv, tableVars
  <2> QED BY <1>3, <1>6, <2>1 DEF NothingToSync
<1>7. CASE SendFrequency
  <2>1. TimerType' /\ timer'.at # "walk" BY <1>0, <1>1, <1>7 DEF SendFrequency, TimerType, tableVars
  <2> QED BY <1>3, <1>7, <2>1 DEF SendFrequency
<1>8. CASE SendProcessType
  <2>1. /\ UNCHANGED <<tableVars, agentVars, event>> /\ resent' = {} /\ kept' = Ids(Entries)
        /\ timer' = [timer EXCEPT !.at = "walk", !.walked = 0]
    BY <1>8 DEF SendProcessType
  <2>2. methodinfo' = methodinfo BY <2>1 DEF tableVars
  <2>0. Len(methodinfo) \in Nat BY <1>0
  <2>9. \A n \in Nat : 0 \in 0..n OBVIOUS
  <2>10. 0 \in 0..Len(methodinfo') BY <2>0, <2>2, <2>9
  <2>3. TimerType' /\ timer'.walked = 0 BY <1>0, <2>10, <2>1, <2>2 DEF TimerType
  <2>4. Ids(Entries) \subseteq 1..MaxMethods
    BY <1>0, EntryIds DEF Ids, Traced, Entries
  <2>5. TypeOK' BY <2>1, <2>3, <2>4 DEF IInv, TypeOK, TimerType, tableVars, agentVars
  <2>6. Ids(Entries) \subseteq AheadOfWalk'
    BY <1>0, <2>2, <2>3 DEF Ids, Traced, Entries, AheadOfWalk, ToResend
  <2>7. timer'.at = "walk" BY <1>0, <2>1 DEF TimerType
  <2>8. WalkIsOnItsWay' BY <2>1, <2>6, <2>7 DEF WalkIsOnItsWay
  <2> QED BY <1>2, <2>1, <2>5, <2>8 DEF IInv
<1>9. CASE EmitMethodinfo
  <2>1. PICK k \in ToResend :
          /\ \A j \in ToResend : k <= j
          /\ timer' = [timer EXCEPT !.walked = k]
          /\ resent' = resent \union {methodinfo[k].id}
          /\ named' = named \union {<<methodinfo[k].id, methodinfo[k].method>>}
          /\ agent' = agent \union {methodinfo[k].id}
    BY <1>9 DEF EmitMethodinfo, Announced
  <2>2. /\ timer.at = "walk"
        /\ methodinfo' = methodinfo /\ methods' = methods /\ left_out' = left_out /\ held' = held
        /\ kept' = kept /\ restarts' = restarts /\ event' = event
    BY <1>9 DEF EmitMethodinfo, tableVars
  <2>3. k \in DOMAIN methodinfo /\ methodinfo[k].id # BLACKLISTED BY <2>1 DEF ToResend
  <2>4. named' = named BY <2>1, <2>3 DEF IInv, IdsAreAnnounced
  <2>5. methodinfo[k].id \in 1..MaxMethods BY <1>0, <2>3, EntryIds
  <2>6. TimerType' /\ timer'.at = "walk" /\ timer'.walked = k
    BY <1>0, <2>1, <2>2, <2>3, SMTT(20) DEF TimerType
  <2>7. TypeOK' BY <2>1, <2>2, <2>4, <2>5, <2>6 DEF IInv, TypeOK, TimerType
  <2>8. IdsAreAnnounced' /\ IdsNameOneMethod' /\ BeginsAreAnnounced'
    BY <2>2, <2>4 DEF IInv, IdsAreAnnounced, IdsNameOneMethod, BeginsAreAnnounced
  <2>9. \A j \in ToResend : j = k \/ j \in ToResend'
    BY <1>0, <2>1, <2>2, <2>6 DEF ToResend
  <2>10. AheadOfWalk \subseteq {methodinfo[k].id} \union AheadOfWalk'
    BY <2>2, <2>9 DEF AheadOfWalk
  <2>11. WalkIsOnItsWay' BY <2>1, <2>2, <2>6, <2>10 DEF IInv, WalkIsOnItsWay
  <2> QED BY <2>7, <2>8, <2>11 DEF IInv
<1>10. CASE EndSync
  <2>1. TimerType' /\ timer'.at # "walk" BY <1>1, <1>10, TickKeepsType DEF EndSync, IInv, tableVars
  <2> QED BY <1>3, <1>10, <2>1 DEF EndSync
<1> QED BY <1>4, <1>5, <1>6, <1>7, <1>8, <1>9, <1>10 DEF TimerThread

LEMMA NextIInv == IInv /\ [Next]_vars => IInv'
<1> SUFFICES ASSUME IInv, [Next]_vars PROVE IInv' OBVIOUS
<1>1. ASSUME NEW t \in Threads, Hook(t) PROVE IInv'
  BY <1>1, CallKnownKeeps, DiscoverKeeps, DiscoverLeftOutKeeps, ResumeKeeps DEF Hook
<1>2. ASSUME NEW m \in Methods, NEW leaves_out \in BOOLEAN, AddRule(m, leaves_out) PROVE IInv'
  BY <1>2, AddRuleKeeps
<1>3. CASE UNCHANGED vars
  BY <1>3 DEF vars, tableVars, syncVars, agentVars, IInv, TypeOK, IdsAreAnnounced, IdsNameOneMethod,
              BeginsAreAnnounced, WalkIsOnItsWay, AheadOfWalk, ToResend
<1> QED BY <1>1, <1>2, <1>3, TimerKeeps, AgentRestartKeeps DEF Next

LEMMA AlwaysIInv == Spec => []IInv
  BY InitIInv, NextIInv, PTL DEF Spec

(* The method table has the types its declarations give it.                *)
THEOREM TypeCorrect == Spec => []TypeOK
<1>1. IInv => TypeOK BY DEF IInv
<1> QED BY <1>1, AlwaysIInv, PTL

(* A function id stands for one method, through every flush of the table.  *)
THEOREM IdsAreSound == Spec => []IdsNameOneMethod
<1>1. IInv => IdsNameOneMethod BY DEF IInv
<1> QED BY <1>1, AlwaysIInv, PTL

(* A BEGIN uses an id that METHODINFO has announced for its method, though *)
(* threads discover methods while the walk and the filters go on.          *)
THEOREM BeginsFollowMethodInfo == Spec => []BeginsAreAnnounced
<1>1. IInv => BeginsAreAnnounced BY DEF IInv
<1> QED BY <1>1, AlwaysIInv, PTL

(* The periodic walk sends every method that was in the table all along.   *)
THEOREM WalksAreComplete == Spec => []WalkMissesNothing
<1>1. IInv => WalkMissesNothing BY DEF IInv, WalkIsOnItsWay, WalkMissesNothing
<1> QED BY <1>1, AlwaysIInv, PTL
=============================================================================
