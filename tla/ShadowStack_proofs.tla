------------------------- MODULE ShadowStack_proofs -------------------------
(***************************************************************************)
(* For every limit of the shadow stack, every set of methods and every     *)
(* depth of calls: the record of a thread keeps its type, a return undoes  *)
(* its call unless a call was strained, and the shadow stack then holds    *)
(* the functions begun and not ended, on which exceptions are pinned.      *)
(***************************************************************************)
EXTENDS ShadowStack, SequenceTheorems, TLAPS

FrameRecord == [method : Methods, before : ThreadState, begun : BOOLEAN]

(* Inside a library there is a function on the shadow stack.               *)
Sane(th) == th.level \in Nat /\ (th.level >= 1 => th.shadow_top >= 0)

After(f) == Enter(f.before, f.method)

Begun(f) == f.begun <=> Begins(f.before, f.method)

Stored(stack, f) == f.begun => stack[Slot(f)] = f.method.id

(* The slots of the calls begun among the first n of a stack of frames.    *)
Slots(fs, n) == {Slot(fs[i]) : i \in {j \in 1..n : fs[j].begun}}

(* One conjunct per link between the record, the frames and the shadow     *)
(* stack.                                                                  *)
Linked(th, fs, stack) ==
  /\ Sane(th)
  /\ Slots(fs, Len(fs)) = 0..th.shadow_top
  /\ fs # <<>> => th = After(fs[Len(fs)])
  /\ \A k \in 1..Len(fs) :
       /\ Sane(fs[k].before) /\ Begun(fs[k]) /\ Stored(stack, fs[k])
       /\ ~Strains(fs[k].before, fs[k].method)
       /\ Slots(fs, k - 1) = 0..fs[k].before.shadow_top
  /\ \A k \in 1..(Len(fs) - 1) : fs[k + 1].before = After(fs[k])

Chained == ~strained => Linked(thread, frames, shadow_stack)

Inv == TypeOK /\ Chained
-----------------------------------------------------------------------------
LEMMA Limit == RG_SHADOW_STACK_LIMIT \in Nat /\ RG_SHADOW_STACK_LIMIT >= 1
BY ShadowStackAssumption

LEMMA MethodType ==
  ASSUME NEW m \in Methods
  PROVE  m.id \in Nat /\ m.source \in Sources
BY ShadowStackAssumption

LEMMA StateFields ==
  ASSUME NEW v, NEW s, NEW l
  PROVE  /\ State(v, s, l).vm_top = v
         /\ State(v, s, l).shadow_top = s
         /\ State(v, s, l).level = l
BY DEF State

LEMMA StateType ==
  ASSUME NEW v \in Int, NEW s \in -1..(RG_SHADOW_STACK_LIMIT - 1), NEW l \in Int
  PROVE  State(v, s, l) \in ThreadState
BY DEF State, ThreadState

LEMMA ThreadFields ==
  ASSUME NEW th \in ThreadState
  PROVE  /\ th.vm_top \in Int /\ th.level \in Int
         /\ th.shadow_top \in -1..(RG_SHADOW_STACK_LIMIT - 1)
         /\ th.shadow_top \in Int
         /\ th = State(th.vm_top, th.shadow_top, th.level)
BY Limit DEF State, ThreadState

LEMMA EnterFields ==
  ASSUME NEW th \in ThreadState, NEW m \in Methods
  PROVE  /\ Enter(th, m) \in ThreadState
         /\ Enter(th, m).vm_top = th.vm_top + 1
         /\ Begins(th, m) => Enter(th, m).shadow_top = th.shadow_top + 1
         /\ ~Begins(th, m) => Enter(th, m).shadow_top = th.shadow_top
         /\ EntersLibrary(th, m) => Enter(th, m).level = th.level + 1
         /\ ~EntersLibrary(th, m) => Enter(th, m).level = th.level
<1>1. Begins(th, m) => th.shadow_top # RG_SHADOW_STACK_LIMIT - 1
  BY DEF Begins, ShadowFull
<1>2. (IF Begins(th, m) THEN th.shadow_top + 1 ELSE th.shadow_top) \in -1..(RG_SHADOW_STACK_LIMIT - 1)
  BY <1>1, ThreadFields, Limit
<1>3. (IF EntersLibrary(th, m) THEN th.level + 1 ELSE th.level) \in Int /\ th.vm_top + 1 \in Int
  BY ThreadFields
<1>4. Enter(th, m) \in ThreadState
  BY <1>2, <1>3, StateType DEF Enter
<1> QED
  BY <1>4, StateFields DEF Enter

LEMMA LeaveFields ==
  ASSUME NEW th \in ThreadState, NEW m \in Methods
  PROVE  /\ Leave(th, m) \in ThreadState
         /\ Leave(th, m).vm_top = th.vm_top - 1
         /\ Ends(th, m) => Leave(th, m).shadow_top = th.shadow_top - 1
         /\ ~Ends(th, m) => Leave(th, m).shadow_top = th.shadow_top
         /\ LeavesLibrary(th, m) => Leave(th, m).level = th.level - 1
         /\ ~LeavesLibrary(th, m) => Leave(th, m).level = th.level
<1>1. Ends(th, m) => th.shadow_top # -1
  BY DEF Ends, Follows
<1>2. (IF Ends(th, m) THEN th.shadow_top - 1 ELSE th.shadow_top) \in -1..(RG_SHADOW_STACK_LIMIT - 1)
  BY <1>1, ThreadFields, Limit
<1>3. (IF LeavesLibrary(th, m) THEN th.level - 1 ELSE th.level) \in Int /\ th.vm_top - 1 \in Int
  BY ThreadFields
<1>4. Leave(th, m) \in ThreadState
  BY <1>2, <1>3, StateType DEF Leave
<1> QED
  BY <1>4, StateFields DEF Leave

LEMMA EnterSane ==
  ASSUME NEW th \in ThreadState, NEW m \in Methods, Sane(th)
  PROVE  Sane(Enter(th, m))
<1>1. EntersLibrary(th, m) /\ th.level = 0 => Begins(th, m)
  BY DEF EntersLibrary, Begins
<1> QED
  BY <1>1, EnterFields, ThreadFields DEF Sane

(* The heart of the argument: a call that does not strain is undone by its *)
(* return, whatever entry the return finds in the table when the call did  *)
(* not look its method up.                                                 *)
LEMMA LeaveUndoesEnter ==
  ASSUME NEW th \in ThreadState, NEW m \in Methods, NEW found \in Methods,
         Sane(th), ~Strains(th, m), ShadowFull(th) \/ found = m
  PROVE  /\ Leave(Enter(th, m), found) = th
         /\ Ends(Enter(th, m), found) <=> Begins(th, m)
         /\ Begins(th, m) => found = m
<1> DEFINE inside == Enter(th, m)
<1>1. /\ inside \in ThreadState /\ Sane(inside)
      /\ inside.vm_top = th.vm_top + 1
      /\ Begins(th, m) => inside.shadow_top = th.shadow_top + 1
      /\ ~Begins(th, m) => inside.shadow_top = th.shadow_top
      /\ EntersLibrary(th, m) => inside.level = th.level + 1
      /\ ~EntersLibrary(th, m) => inside.level = th.level
  BY EnterFields, EnterSane
<1> HIDE DEF inside
<1>2. /\ th.vm_top \in Int /\ th.level \in Nat /\ th.shadow_top \in Int /\ th.shadow_top >= -1
      /\ th.level >= 1 => th.shadow_top >= 0
  BY ThreadFields DEF Sane
<1>3. /\ Ends(inside, found) <=> Begins(th, m)
      /\ LeavesLibrary(inside, found) <=> EntersLibrary(th, m)
      /\ Begins(th, m) => found = m
  <2>1. CASE ShadowFull(th)
    <3>1. th.vm_top >= RG_SHADOW_STACK_LIMIT - 1
      BY <2>1 DEF Strains, DeepInVM
    <3>2. ~Follows(inside)
      BY <3>1, <1>1, <1>2, Limit DEF Follows
    <3> QED
      BY <2>1, <3>2 DEF Ends, LeavesLibrary, Begins, EntersLibrary
  <2>2. CASE ~ShadowFull(th) /\ m.source = "blacklisted"
    BY <2>2 DEF Ends, LeavesLibrary, Begins, EntersLibrary
  <2>3. CASE ~ShadowFull(th) /\ m.source # "blacklisted"
    <3>1. th.vm_top < RG_SHADOW_STACK_LIMIT - 1
      BY <2>3, <1>2, Limit DEF Strains, DeepInVM
    <3>2. Follows(inside) <=> inside.shadow_top # -1
      BY <3>1, <1>1, <1>2, Limit DEF Follows
    <3>3. CASE m.source = "user"
      <4>1. Begins(th, m) /\ ~EntersLibrary(th, m)
        BY <2>3, <3>3 DEF Begins, EntersLibrary
      <4>2. Follows(inside)
        BY <4>1, <3>2, <1>1, <1>2
      <4> QED
        BY <4>1, <4>2, <2>3, <3>3 DEF Ends, LeavesLibrary
    <3>4. CASE m.source = "library"
      <4>1. EntersLibrary(th, m) /\ (Begins(th, m) <=> th.level = 0)
        BY <2>3, <3>4, <1>2 DEF Begins, EntersLibrary
      <4>2. Follows(inside)
        BY <4>1, <3>2, <1>1, <1>2
      <4>3. inside.level - 1 <= 0 <=> th.level = 0
        BY <4>1, <1>1, <1>2
      <4> QED
        BY <4>1, <4>2, <4>3, <2>3, <3>4 DEF Ends, LeavesLibrary
    <3>5. CASE m.source = "synchronization"
      <4>1. ~EntersLibrary(th, m) /\ th.level # 1 /\ (Begins(th, m) <=> th.level <= 1)
        BY <2>3, <3>5, <1>2 DEF Begins, EntersLibrary, Strains
      <4>2. Follows(inside)
        BY <4>1, <3>2, <1>1, <1>2
      <4>3. inside.level <= 0 <=> th.level <= 1
        BY <4>1, <1>1, <1>2
      <4> QED
        BY <4>1, <4>2, <4>3, <2>3, <3>5 DEF Ends, LeavesLibrary
    <3> QED
      BY <2>3, <3>3, <3>4, <3>5, MethodType DEF Sources
  <2> QED
    BY <2>1, <2>2, <2>3
<1>4. /\ Leave(inside, found) \in ThreadState
      /\ Leave(inside, found).vm_top = th.vm_top
      /\ Leave(inside, found).shadow_top = th.shadow_top
      /\ Leave(inside, found).level = th.level
  BY <1>1, <1>2, <1>3, LeaveFields
<1>5. Leave(inside, found) = th
  BY <1>4, ThreadFields
<1> QED
  BY <1>3, <1>5 DEF inside
-----------------------------------------------------------------------------
(* The slots of begun calls when a frame is pushed or popped.              *)
LEMMA SlotsAppend ==
  ASSUME NEW fs \in Seq(FrameRecord), NEW f \in FrameRecord,
         NEW n \in 0..Len(fs)
  PROVE  /\ Slots(Append(fs, f), n) = Slots(fs, n)
         /\ Slots(Append(fs, f), Len(fs) + 1) =
              Slots(fs, Len(fs)) \cup (IF f.begun THEN {Slot(f)} ELSE {})
<1> DEFINE longer == Append(fs, f)
<1>1. /\ Len(fs) \in Nat
      /\ \A i \in 1..Len(fs) : longer[i] = fs[i]
      /\ longer[Len(fs) + 1] = f
  OBVIOUS
<1> HIDE DEF longer
<1>2. \A i \in 1..n : longer[i] = fs[i]
  BY <1>1
<1>3. Slots(longer, n) = Slots(fs, n)
  BY <1>2 DEF Slots
<1>4. Slots(longer, Len(fs) + 1) \subseteq Slots(fs, Len(fs)) \cup (IF f.begun THEN {Slot(f)} ELSE {})
  <2>1. SUFFICES ASSUME NEW i \in 1..(Len(fs) + 1), longer[i].begun
                 PROVE  Slot(longer[i]) \in Slots(fs, Len(fs)) \cup (IF f.begun THEN {Slot(f)} ELSE {})
    BY DEF Slots
  <2>2. CASE i \in 1..Len(fs)
    BY <1>1, <2>1, <2>2 DEF Slots
  <2>3. CASE i = Len(fs) + 1
    BY <1>1, <2>1, <2>3
  <2> QED
    BY <1>1, <2>2, <2>3
<1>5. Slots(fs, Len(fs)) \subseteq Slots(longer, Len(fs) + 1)
  <2>1. SUFFICES ASSUME NEW i \in 1..Len(fs), fs[i].begun
                 PROVE  Slot(fs[i]) \in Slots(longer, Len(fs) + 1)
    BY DEF Slots
  <2>2. i \in 1..(Len(fs) + 1) /\ longer[i] = fs[i]
    BY <1>1
  <2> QED
    BY <2>1, <2>2 DEF Slots
<1>6. f.begun => Slot(f) \in Slots(longer, Len(fs) + 1)
  <2>1. Len(fs) + 1 \in 1..(Len(fs) + 1)
    BY <1>1
  <2> QED
    BY <1>1, <2>1 DEF Slots
<1> QED
  BY <1>3, <1>4, <1>5, <1>6 DEF longer

LEMMA Popped ==
  ASSUME NEW fs \in Seq(FrameRecord), fs # <<>>,
         NEW rest, rest = SubSeq(fs, 1, Len(fs) - 1)
  PROVE  /\ Len(fs) \in Nat \ {0}
         /\ rest \in Seq(FrameRecord)
         /\ Len(rest) = Len(fs) - 1
         /\ \A i \in 1..(Len(fs) - 1) : rest[i] = fs[i]
         /\ \A n \in 0..(Len(fs) - 1) : Slots(rest, n) = Slots(fs, n)
<1>1. Len(fs) \in Nat \ {0}
  BY EmptySeq
<1>2. /\ rest \in Seq(FrameRecord)
      /\ Len(rest) = Len(fs) - 1
      /\ \A i \in 1..(Len(fs) - 1) : rest[i] = fs[i]
  <2>1. \A i \in 1..(Len(fs) - 1) : fs[i] \in FrameRecord
    BY <1>1
  <2>5. rest = SubSeq(fs, 1, Len(fs) - 1)
    OBVIOUS
  <2>2. /\ rest \in Seq(FrameRecord)
        /\ Len(rest) = IF 1 <= Len(fs) - 1 THEN Len(fs) - 1 - 1 + 1 ELSE 0
        /\ \A i \in 1..(Len(fs) - 1 - 1 + 1) : rest[i] = fs[1 + i - 1]
    BY ONLY <1>1, <2>1, <2>5, SubSeqProperties
  <2>3. Len(rest) = Len(fs) - 1
    <3>1. \A n \in Nat \ {0} : (IF 1 <= n - 1 THEN n - 1 - 1 + 1 ELSE 0) = n - 1
      OBVIOUS
    <3> QED
      BY ONLY <1>1, <2>2, <3>1
  <2>4. ASSUME NEW i \in 1..(Len(fs) - 1) PROVE rest[i] = fs[i]
    <3>1. i \in 1..(Len(fs) - 1 - 1 + 1) /\ 1 + i - 1 = i
      BY <1>1
    <3> QED
      BY <2>2, <3>1
  <2> QED
    BY <2>2, <2>3, <2>4
<1>3. ASSUME NEW n \in 0..(Len(fs) - 1)
      PROVE  Slots(rest, n) = Slots(fs, n)
  <2>1. \A i \in 1..n : rest[i] = fs[i]
    BY <1>1, <1>2
  <2> QED
    BY <2>1 DEF Slots
<1> QED
  BY <1>1, <1>2, <1>3
-----------------------------------------------------------------------------
LEMMA ZeroedType == ZeroedStack \in [0..(RG_SHADOW_STACK_LIMIT - 1) -> Int]
BY DEF ZeroedStack

LEMMA InitInv == Init => Inv
<1> SUFFICES ASSUME Init PROVE Inv
  OBVIOUS
<1>1. /\ thread \in ThreadState
      /\ thread.shadow_top = -1 /\ thread.level = 0
  BY StateType, StateFields, Limit DEF Init, NewTrace, RG_THREAD_FRAMELESS
<1>2. TypeOK
  <2>1. frames \in Seq(FrameRecord)
    BY DEF Init
  <2>2. outer \in Nat
    BY ShadowStackAssumption DEF Init
  <2>3. strained \in BOOLEAN
    BY DEF Init
  <2> QED
    BY <1>1, <2>1, <2>2, <2>3, ZeroedType DEF Init, TypeOK, FrameRecord
<1>3. Linked(thread, frames, shadow_stack)
  BY <1>1 DEF Init, Linked, Sane, Slots
<1> QED
  BY <1>2, <1>3 DEF Inv, Chained

LEMMA CallType ==
  ASSUME TypeOK, NEW m \in Methods, Call(m)
  PROVE  TypeOK' /\ Frame(thread, m) \in FrameRecord
<1>1. thread \in ThreadState /\ thread' \in ThreadState
  BY EnterFields DEF TypeOK, Call
<1>2. Frame(thread, m) \in FrameRecord
  BY <1>1 DEF Frame, FrameRecord, Begins
<1>3. frames' \in Seq(FrameRecord)
  BY <1>2 DEF TypeOK, FrameRecord, Call
<1>4. shadow_stack' \in [0..(RG_SHADOW_STACK_LIMIT - 1) -> Int]
  BY MethodType DEF TypeOK, Call
<1>5. strained' \in BOOLEAN /\ outer' \in Nat
  BY DEF TypeOK, Call, Strains
<1> QED
  BY <1>1, <1>2, <1>3, <1>4, <1>5 DEF TypeOK, FrameRecord

LEMMA FoundIsMethod ==
  ASSUME TypeOK, frames # <<>>
  PROVE  /\ FoundInTable(Innermost) \subseteq Methods
         /\ Innermost \in FrameRecord
         /\ Len(frames) \in Nat \ {0}
<1>1. Len(frames) \in Nat \ {0} /\ frames \in Seq(FrameRecord)
  BY EmptySeq DEF TypeOK, FrameRecord
<1>2. Innermost \in FrameRecord
  BY <1>1 DEF Innermost
<1> QED
  BY <1>1, <1>2 DEF FoundInTable, FrameRecord

(* Each step keeps the types.                                              *)
LEMMA NextType == TypeOK /\ [Next]_stackVars => TypeOK'
<1> SUFFICES ASSUME TypeOK, [Next]_stackVars PROVE TypeOK'
  OBVIOUS
<1>1. ASSUME NEW m \in Methods, Call(m) PROVE TypeOK'
  BY <1>1, CallType
<1>2. CASE Return
  <2>1. PICK m \in FoundInTable(Innermost) : thread' = Leave(thread, m)
    BY <1>2 DEF Return
  <2>2. frames # <<>> /\ frames \in Seq(FrameRecord) /\ frames' = SubSeq(frames, 1, Len(frames) - 1)
    BY <1>2 DEF Return, TypeOK, FrameRecord
  <2>3. thread' \in ThreadState
    BY <2>1, <2>2, FoundIsMethod, LeaveFields DEF TypeOK
  <2>4. frames' \in Seq(FrameRecord)
    BY <2>2, Popped
  <2> QED
    BY <1>2, <2>3, <2>4 DEF Return, TypeOK, FrameRecord
<1>3. ASSUME NEW m \in Methods, OuterReturns(m) PROVE TypeOK'
  <2>1. thread' \in ThreadState
    BY <1>3, LeaveFields DEF OuterReturns, TypeOK
  <2> QED
    BY <1>3, <2>1 DEF OuterReturns, TypeOK
<1>4. CASE Raise
  BY <1>4 DEF Raise, TypeOK
<1>5. CASE StackOverflow
  <2>1. frames \in Seq(FrameRecord) /\ MaxFrames \in Nat /\ Len(frames) = MaxFrames
    BY <1>5, ShadowStackAssumption DEF StackOverflow, TypeOK, FrameRecord
  <2>2. PICK n \in 0..(MaxFrames - 1) : frames' = SubSeq(frames, 1, n)
    BY <1>5 DEF StackOverflow
  <2>3. frames' \in Seq(FrameRecord)
    BY <2>1, <2>2
  <2> QED
    BY <1>5, <2>3 DEF StackOverflow, TypeOK, FrameRecord
<1>6. CASE Restart
  <2>1. thread' \in ThreadState
    BY <1>6, StateType, Limit DEF Restart, NewTrace, RG_THREAD_FRAMELESS
  <2>2. frames' \in Seq(FrameRecord)
    BY <1>6 DEF Restart
  <2>3. outer' \in Nat
    BY <1>6, ShadowStackAssumption DEF Restart
  <2>4. strained' \in BOOLEAN
    BY <1>6 DEF Restart
  <2> QED
    BY <1>6, <2>1, <2>2, <2>3, <2>4, ZeroedType DEF Restart, TypeOK, FrameRecord
<1>7. CASE UNCHANGED stackVars
  BY <1>7 DEF stackVars, TypeOK
<1> QED
  BY <1>1, <1>2, <1>3, <1>4, <1>5, <1>6, <1>7 DEF Next
-----------------------------------------------------------------------------
LEMMA InnermostLinked ==
  ASSUME TypeOK, Linked(thread, frames, shadow_stack), frames # <<>>
  PROVE  /\ Innermost.before \in ThreadState /\ Innermost.method \in Methods
         /\ Innermost.begun \in BOOLEAN
         /\ Sane(Innermost.before) /\ Begun(Innermost)
         /\ ~Strains(Innermost.before, Innermost.method)
         /\ Slots(frames, Len(frames) - 1) = 0..Innermost.before.shadow_top
         /\ thread = After(Innermost)
<1>1. Innermost \in FrameRecord /\ Len(frames) \in 1..Len(frames)
  BY FoundIsMethod
<1> QED
  BY <1>1 DEF Linked, Innermost, FrameRecord

(* A return restores the record of the call and sends END for its BEGIN.   *)
LEMMA ReturnUndone ==
  ASSUME TypeOK, Linked(thread, frames, shadow_stack), Return
  PROVE  /\ thread' = Innermost.before
         /\ event' = IF Innermost.begun THEN Command("END", Innermost.method.id)
                     ELSE NoCommand
<1>1. frames # <<>>
  BY DEF Return
<1>2. PICK found \in FoundInTable(Innermost) :
        thread' = Leave(thread, found) /\ event' = Ending(found)
  BY DEF Return
<1>3. found \in Methods
  BY <1>1, <1>2, FoundIsMethod
<1>4. ShadowFull(Innermost.before) \/ found = Innermost.method
  BY DEF FoundInTable
<1>5. /\ Leave(After(Innermost), found) = Innermost.before
      /\ Ends(After(Innermost), found) <=> Begins(Innermost.before, Innermost.method)
      /\ Begins(Innermost.before, Innermost.method) => found = Innermost.method
  BY <1>1, <1>3, <1>4, InnermostLinked, LeaveUndoesEnter DEF After
<1>6. thread = After(Innermost) /\ (Innermost.begun <=> Begins(Innermost.before, Innermost.method))
  BY <1>1, InnermostLinked DEF Begun
<1>7. Ends(thread, found) <=> Innermost.begun
  BY <1>5, <1>6
<1>8. CASE Innermost.begun
  BY <1>2, <1>5, <1>6, <1>7, <1>8 DEF Ending
<1>9. CASE ~Innermost.begun
  BY <1>2, <1>5, <1>6, <1>7, <1>9 DEF Ending
<1> QED
  BY <1>8, <1>9

LEMMA ReturnLinked ==
  ASSUME TypeOK, Linked(thread, frames, shadow_stack), Return
  PROVE  Linked(thread', frames', shadow_stack')
<1>1. frames # <<>> /\ frames \in Seq(FrameRecord)
      /\ frames' = SubSeq(frames, 1, Len(frames) - 1) /\ shadow_stack' = shadow_stack
  BY DEF Return, TypeOK, FrameRecord
<1>2. thread' = frames[Len(frames)].before
  BY ReturnUndone DEF Innermost
<1>3. /\ Len(frames) \in Nat \ {0}
      /\ Len(frames') = Len(frames) - 1 /\ frames' \in Seq(FrameRecord)
      /\ \A i \in 1..(Len(frames) - 1) : frames'[i] = frames[i]
      /\ \A n \in 0..(Len(frames) - 1) : Slots(frames', n) = Slots(frames, n)
  BY <1>1, Popped
<1>4. /\ Sane(thread')
      /\ Slots(frames', Len(frames')) = 0..thread'.shadow_top
  BY <1>1, <1>2, <1>3, InnermostLinked DEF Innermost
<1>5. frames' # <<>> => thread' = After(frames'[Len(frames')])
  <2> SUFFICES ASSUME frames' # <<>> PROVE thread' = After(frames'[Len(frames')])
    OBVIOUS
  <2>1. Len(frames') # 0
    BY <1>3, EmptySeq
  <2>2. Len(frames) - 1 \in 1..(Len(frames) - 1) /\ (Len(frames) - 1) + 1 = Len(frames)
    BY <1>3, <2>1
  <2>3. frames[Len(frames)].before = After(frames[Len(frames) - 1])
    BY <2>2 DEF Linked
  <2> QED
    BY <1>2, <1>3, <2>2, <2>3
<1>6. ASSUME NEW k \in 1..Len(frames')
      PROVE  /\ Sane(frames'[k].before) /\ Begun(frames'[k]) /\ Stored(shadow_stack', frames'[k])
             /\ ~Strains(frames'[k].before, frames'[k].method)
             /\ Slots(frames', k - 1) = 0..frames'[k].before.shadow_top
  <2>1. k \in 1..Len(frames) /\ k \in 1..(Len(frames) - 1) /\ k - 1 \in 0..(Len(frames) - 1)
    BY <1>3
  <2>2. frames'[k] = frames[k] /\ Slots(frames', k - 1) = Slots(frames, k - 1)
    BY <1>3, <2>1
  <2> QED
    BY <1>1, <2>1, <2>2 DEF Linked
<1>7. ASSUME NEW k \in 1..(Len(frames') - 1)
      PROVE  frames'[k + 1].before = After(frames'[k])
  <2>1. k \in 1..(Len(frames) - 1) /\ k + 1 \in 1..(Len(frames) - 1)
    BY <1>3
  <2> QED
    BY <1>3, <2>1 DEF Linked
<1> QED
  BY <1>4, <1>5, <1>6, <1>7 DEF Linked

LEMMA CallLinked ==
  ASSUME TypeOK, Linked(thread, frames, shadow_stack),
         NEW m \in Methods, Call(m), ~Strains(thread, m)
  PROVE  Linked(thread', frames', shadow_stack')
<1> DEFINE f == Frame(thread, m)
<1>1. /\ thread \in ThreadState /\ thread' = Enter(thread, m)
      /\ frames \in Seq(FrameRecord) /\ frames' = Append(frames, f)
      /\ f \in FrameRecord
  BY CallType DEF Call, TypeOK, FrameRecord
<1>2. f.method = m /\ f.before = thread /\ f.begun = Begins(thread, m)
  BY DEF Frame
<1>3. Slot(f) = thread.shadow_top + 1
  BY <1>2 DEF Slot
<1> HIDE DEF f
<1>4. /\ Len(frames) \in Nat /\ Len(frames') = Len(frames) + 1
      /\ \A i \in 1..Len(frames) : frames'[i] = frames[i]
      /\ frames'[Len(frames) + 1] = f
      /\ frames' # <<>>
  BY <1>1
<1>5. /\ \A n \in 0..Len(frames) : Slots(frames', n) = Slots(frames, n)
      /\ Slots(frames', Len(frames) + 1) =
           Slots(frames, Len(frames)) \cup (IF f.begun THEN {Slot(f)} ELSE {})
  BY <1>1, SlotsAppend
<1>6. Sane(thread) /\ Slots(frames, Len(frames)) = 0..thread.shadow_top
  BY DEF Linked
<1>7. Sane(thread')
  BY <1>1, <1>6, EnterSane
<1>8. Slots(frames', Len(frames')) = 0..thread'.shadow_top
  <2>1. thread.shadow_top \in Int /\ thread.shadow_top >= -1
    BY <1>1, ThreadFields
  <2>2. CASE f.begun
    <3>1. thread'.shadow_top = thread.shadow_top + 1
      BY <1>1, <1>2, <2>2, EnterFields
    <3>2. 0..(thread.shadow_top + 1) = (0..thread.shadow_top) \cup {thread.shadow_top + 1}
      BY <2>1
    <3> QED
      BY <1>3, <1>4, <1>5, <1>6, <2>2, <3>1, <3>2
  <2>3. CASE ~f.begun
    <3>1. thread'.shadow_top = thread.shadow_top
      BY <1>1, <1>2, <2>3, EnterFields
    <3> QED
      BY <1>4, <1>5, <1>6, <2>3, <3>1
  <2> QED
    BY <2>2, <2>3
<1>9. thread' = After(frames'[Len(frames')])
  BY <1>1, <1>2, <1>4 DEF After
<1>10. ASSUME NEW k \in 1..Len(frames')
       PROVE  /\ Sane(frames'[k].before) /\ Begun(frames'[k]) /\ Stored(shadow_stack', frames'[k])
              /\ ~Strains(frames'[k].before, frames'[k].method)
              /\ Slots(frames', k - 1) = 0..frames'[k].before.shadow_top
  <2>1. CASE k \in 1..Len(frames)
    <3>1. frames'[k] = frames[k] /\ Slots(frames', k - 1) = Slots(frames, k - 1)
      BY <1>4, <1>5, <2>1
    <3>2. /\ Sane(frames[k].before) /\ Begun(frames[k]) /\ Stored(shadow_stack, frames[k])
          /\ ~Strains(frames[k].before, frames[k].method)
          /\ Slots(frames, k - 1) = 0..frames[k].before.shadow_top
      BY <2>1 DEF Linked
    <3>3. ASSUME frames[k].begun PROVE shadow_stack'[Slot(frames[k])] = shadow_stack[Slot(frames[k])]
      <4>1. Slot(frames[k]) \in Slots(frames, Len(frames))
        BY <2>1, <3>3 DEF Slots
      <4>2. thread.shadow_top \in Int /\ thread.shadow_top + 1 \notin 0..thread.shadow_top
        BY <1>1, ThreadFields
      <4>3. Slot(frames[k]) # thread.shadow_top + 1
        BY <1>6, <4>1, <4>2
      <4>4. Slot(frames[k]) \in 0..(RG_SHADOW_STACK_LIMIT - 1)
        BY <1>1, <1>6, <4>1, ThreadFields, Limit
      <4> QED
        BY <4>3, <4>4 DEF Call, TypeOK
    <3>4. Stored(shadow_stack', frames[k])
      BY <3>2, <3>3 DEF Stored
    <3> QED
      BY <3>1, <3>2, <3>4
  <2>2. CASE k = Len(frames) + 1
    <3>1. frames'[k] = f /\ Slots(frames', k - 1) = Slots(frames, Len(frames))
      BY <1>4, <1>5, <2>2
    <3>2. Sane(f.before) /\ Begun(f) /\ ~Strains(f.before, f.method)
      BY <1>2, <1>6 DEF Begun
    <3>3. Stored(shadow_stack', f)
      <4> SUFFICES ASSUME f.begun PROVE shadow_stack'[Slot(f)] = f.method.id
        BY DEF Stored
      <4>1. Begins(thread, m)
        BY <1>2
      <4>2. thread.shadow_top + 1 \in 0..(RG_SHADOW_STACK_LIMIT - 1)
        BY <1>1, <4>1, ThreadFields, Limit DEF Begins, ShadowFull
      <4> QED
        BY <1>2, <1>3, <4>1, <4>2 DEF Call, TypeOK
    <3> QED
      BY <1>2, <1>6, <3>1, <3>2, <3>3
  <2> QED
    BY <1>4, <2>1, <2>2
<1>11. ASSUME NEW k \in 1..(Len(frames') - 1)
       PROVE  frames'[k + 1].before = After(frames'[k])
  <2>1. CASE k \in 1..(Len(frames) - 1)
    <3>1. k \in 1..Len(frames) /\ k + 1 \in 1..Len(frames)
      BY <1>4, <2>1
    <3> QED
      BY <1>4, <2>1, <3>1 DEF Linked
  <2>2. CASE k = Len(frames)
    <3>1. frames # <<>> /\ frames'[k] = frames[Len(frames)] /\ frames'[k + 1] = f
      BY <1>4, <2>2
    <3> QED
      BY <1>2, <3>1 DEF Linked
  <2> QED
    BY <1>4, <2>1, <2>2
<1> QED
  BY <1>7, <1>8, <1>9, <1>10, <1>11 DEF Linked

(* A frame under the trace finds no function on the shadow stack.          *)
LEMMA OuterLinked ==
  ASSUME TypeOK, Linked(thread, frames, shadow_stack), NEW m \in Methods, OuterReturns(m)
  PROVE  Linked(thread', frames', shadow_stack')
<1>1. /\ thread \in ThreadState /\ frames = <<>> /\ thread' = Leave(thread, m)
      /\ UNCHANGED <<frames, shadow_stack>>
  BY DEF OuterReturns, TypeOK
<1>2. Slots(frames, Len(frames)) = {}
  BY <1>1 DEF Slots
<1>3. thread.shadow_top = -1
  <2>1. 0..thread.shadow_top = {}
    BY <1>2 DEF Linked
  <2>2. thread.shadow_top \in Int /\ thread.shadow_top >= -1
    BY <1>1, ThreadFields
  <2>3. thread.shadow_top < 0
    BY ONLY <2>1, <2>2
  <2> QED
    BY <2>2, <2>3
<1>4. ~Ends(thread, m) /\ ~LeavesLibrary(thread, m)
  BY <1>3 DEF Ends, LeavesLibrary, Follows
<1>5. thread'.shadow_top = thread.shadow_top /\ thread'.level = thread.level
  BY <1>1, <1>4, LeaveFields
<1> QED
  BY <1>1, <1>5 DEF Linked, Sane
-----------------------------------------------------------------------------
LEMMA NextChained == TypeOK /\ Chained /\ [Next]_stackVars => Chained'
<1> SUFFICES ASSUME TypeOK, Chained, [Next]_stackVars, ~strained'
             PROVE  Linked(thread', frames', shadow_stack')
  BY DEF Chained
<1>1. ASSUME NEW m \in Methods, Call(m) PROVE Linked(thread', frames', shadow_stack')
  <2>1. ~strained /\ ~Strains(thread, m)
    BY <1>1 DEF Call
  <2> QED
    BY <1>1, <2>1, CallLinked DEF Chained
<1>2. CASE Return
  <2>1. ~strained
    BY <1>2 DEF Return
  <2> QED
    BY <1>2, <2>1, ReturnLinked DEF Chained
<1>3. ASSUME NEW m \in Methods, OuterReturns(m) PROVE Linked(thread', frames', shadow_stack')
  <2>1. ~strained
    BY <1>3 DEF OuterReturns
  <2> QED
    BY <1>3, <2>1, OuterLinked DEF Chained
<1>4. CASE Raise \/ UNCHANGED stackVars
  BY <1>4 DEF Raise, stackVars, Chained
<1>5. CASE StackOverflow
  BY <1>5 DEF StackOverflow
<1>6. CASE Restart
  <2>1. thread'.shadow_top = -1 /\ thread'.level = 0 /\ frames' = <<>>
    BY <1>6, StateFields DEF Restart, NewTrace, RG_THREAD_FRAMELESS
  <2> QED
    BY <2>1 DEF Linked, Sane, Slots
<1> QED
  BY <1>1, <1>2, <1>3, <1>4, <1>5, <1>6 DEF Next

(* The record, the shadow stack and the frames keep their types: in        *)
(* particular the hook never writes outside of shadow_stack.               *)
THEOREM TypeCorrect == Spec => []TypeOK
<1>1. Init => TypeOK
  BY InitInv DEF Inv
<1> QED
  BY <1>1, NextType, PTL DEF Spec

LEMMA Invariance == Spec => []Inv
<1>1. Inv /\ [Next]_stackVars => Inv'
  BY NextType, NextChained DEF Inv
<1> QED
  BY <1>1, InitInv, PTL DEF Spec

(* Until a call is strained, the shadow stack holds the functions begun    *)
(* and not ended, innermost on top, whatever calls, returns, exceptions    *)
(* and restarts the thread makes.                                          *)
THEOREM ShadowStackMatchesFrames == Spec => []ShadowMatchesFrames
<1>1. Inv => ShadowMatchesFrames
  BY DEF Inv, Chained, Linked, Stored, Slots, ShadowMatchesFrames
<1> QED
  BY <1>1, Invariance, PTL

(* Unless a call of the trace was strained, each return restores the       *)
(* record its call found and sends END exactly for a call that sent BEGIN. *)
THEOREM ReturnsUndoCalls == Spec => ReturnUndoesCall
<1>1. Inv /\ [Next]_stackVars =>
        [Return /\ ~strained =>
           /\ thread' = Innermost.before
           /\ event' = IF Innermost.begun THEN Command("END", Innermost.method.id)
                       ELSE NoCommand]_stackVars
  BY ReturnUndone DEF Inv, Chained
<1> QED
  BY <1>1, Invariance, PTL DEF Spec, ReturnUndoesCall
-----------------------------------------------------------------------------
(* The level says whether a frame of a library is on the stack.  A return  *)
(* goes back to the record of its call, so the records the frames have     *)
(* noted must say it of the frames below them.                             *)
LibraryAmong(fs, n) == \E i \in 1..n : EntersLibrary(fs[i].before, fs[i].method)

LevelTells(th, fs) ==
  /\ th.level >= 1 <=> LibraryAmong(fs, Len(fs))
  /\ \A k \in 1..Len(fs) : fs[k].before.level >= 1 <=> LibraryAmong(fs, k - 1)

Levelled == ~strained => LevelTells(thread, frames)

LEMMA CallLevels ==
  ASSUME TypeOK, Linked(thread, frames, shadow_stack), LevelTells(thread, frames),
         NEW m \in Methods, Call(m)
  PROVE  LevelTells(thread', frames')
<1> DEFINE f == Frame(thread, m)
<1>1. /\ thread \in ThreadState /\ thread' = Enter(thread, m)
      /\ frames \in Seq(FrameRecord) /\ frames' = Append(frames, f)
      /\ f.before = thread /\ f.method = m
  BY DEF Call, TypeOK, FrameRecord, Frame
<1>2. thread.level \in Nat
  BY DEF Linked, Sane
<1>3. thread'.level >= 1 <=> thread.level >= 1 \/ EntersLibrary(thread, m)
  BY <1>1, <1>2, EnterFields
<1> HIDE DEF f
<1>4. /\ Len(frames) \in Nat /\ Len(frames') = Len(frames) + 1
      /\ \A i \in 1..Len(frames) : frames'[i] = frames[i]
      /\ frames'[Len(frames) + 1] = f
  BY <1>1
<1>5. ASSUME NEW n \in 0..Len(frames)
      PROVE  LibraryAmong(frames', n) <=> LibraryAmong(frames, n)
  <2>1. \A i \in 1..n : frames'[i] = frames[i]
    BY <1>4
  <2> QED
    BY <2>1 DEF LibraryAmong
<1>6. LibraryAmong(frames', Len(frames')) <=> LibraryAmong(frames, Len(frames)) \/ EntersLibrary(thread, m)
  <2>1. 1..Len(frames') = (1..Len(frames)) \cup {Len(frames) + 1}
    BY <1>4
  <2> QED
    BY <1>1, <1>4, <2>1 DEF LibraryAmong
<1>7. ASSUME NEW k \in 1..Len(frames')
      PROVE  frames'[k].before.level >= 1 <=> LibraryAmong(frames', k - 1)
  <2>1. CASE k \in 1..Len(frames)
    <3>1. k - 1 \in 0..Len(frames)
      BY <1>4, <2>1
    <3> QED
      BY <1>4, <1>5, <2>1, <3>1 DEF LevelTells
  <2>2. CASE k = Len(frames) + 1
    <3>1. k - 1 = Len(frames) /\ Len(frames) \in 0..Len(frames)
      BY <1>4, <2>2
    <3> QED
      BY <1>1, <1>4, <1>5, <2>2, <3>1 DEF LevelTells
  <2> QED
    BY <1>4, <2>1, <2>2
<1> QED
  BY <1>3, <1>6, <1>7 DEF LevelTells

LEMMA ReturnLevels ==
  ASSUME TypeOK, Linked(thread, frames, shadow_stack), LevelTells(thread, frames), Return
  PROVE  LevelTells(thread', frames')
<1>1. frames # <<>> /\ frames \in Seq(FrameRecord) /\ frames' = SubSeq(frames, 1, Len(frames) - 1)
  BY DEF Return, TypeOK, FrameRecord
<1>2. thread' = frames[Len(frames)].before
  BY ReturnUndone DEF Innermost
<1>3. /\ Len(frames) \in Nat \ {0} /\ Len(frames') = Len(frames) - 1
      /\ \A i \in 1..(Len(frames) - 1) : frames'[i] = frames[i]
  BY <1>1, Popped
<1>4. ASSUME NEW n \in 0..(Len(frames) - 1)
      PROVE  LibraryAmong(frames', n) <=> LibraryAmong(frames, n)
  <2>1. \A i \in 1..n : frames'[i] = frames[i]
    BY <1>3
  <2> QED
    BY <2>1 DEF LibraryAmong
<1>5. thread'.level >= 1 <=> LibraryAmong(frames', Len(frames'))
  <2>1. Len(frames) \in 1..Len(frames) /\ Len(frames) - 1 \in 0..(Len(frames) - 1)
    BY <1>3
  <2> QED
    BY <1>2, <1>3, <1>4, <2>1 DEF LevelTells
<1>6. ASSUME NEW k \in 1..Len(frames')
      PROVE  frames'[k].before.level >= 1 <=> LibraryAmong(frames', k - 1)
  <2>1. k \in 1..Len(frames) /\ k \in 1..(Len(frames) - 1) /\ k - 1 \in 0..(Len(frames) - 1)
    BY <1>3
  <2> QED
    BY <1>3, <1>4, <2>1 DEF LevelTells
<1> QED
  BY <1>5, <1>6 DEF LevelTells

(* With no frame of the trace the shadow stack is empty, and so is the     *)
(* level.                                                                  *)
LEMMA EmptyLevels ==
  ASSUME NEW th \in ThreadState, NEW fs, fs = <<>>, NEW stack, Linked(th, fs, stack)
  PROVE  LevelTells(th, fs)
<1>1. Slots(fs, Len(fs)) = {}
  BY DEF Slots
<1>2. th.shadow_top \in Int /\ 0..th.shadow_top = {}
  BY <1>1, ThreadFields DEF Linked
<1>3. th.shadow_top < 0
  BY ONLY <1>2
<1>4. th.level \in Nat /\ ~(th.level >= 1)
  BY <1>2, <1>3 DEF Linked, Sane
<1> QED
  BY <1>4 DEF LevelTells, LibraryAmong

LEMMA NextLevelled == Inv /\ Inv' /\ Levelled /\ [Next]_stackVars => Levelled'
<1> SUFFICES ASSUME Inv, Inv', Levelled, [Next]_stackVars, ~strained'
             PROVE  LevelTells(thread', frames')
  BY DEF Levelled
<1>1. ASSUME NEW m \in Methods, Call(m) PROVE LevelTells(thread', frames')
  BY <1>1, CallLevels DEF Call, Inv, Chained, Levelled
<1>2. CASE Return
  BY <1>2, ReturnLevels DEF Return, Inv, Chained, Levelled
<1>3. CASE frames' = <<>>
  <2>1. thread' \in ThreadState /\ Linked(thread', frames', shadow_stack')
    BY DEF Inv, TypeOK, Chained
  <2> QED
    BY <1>3, <2>1, EmptyLevels
<1>4. CASE Raise \/ UNCHANGED stackVars
  BY <1>4 DEF Raise, stackVars, Levelled
<1> QED
  BY <1>1, <1>2, <1>3, <1>4 DEF Next, OuterReturns, StackOverflow, Restart
-----------------------------------------------------------------------------
(* The slots rise from frame to frame, so the innermost open call holds    *)
(* the highest: the peek of the hook reads its function, whatever it has   *)
(* called that was not begun.                                              *)
LEMMA OpenIsTop ==
  ASSUME TypeOK, Linked(thread, frames, shadow_stack), thread.shadow_top # -1
  PROVE  OpenFunction = shadow_stack[thread.shadow_top]
<1>1. /\ thread \in ThreadState /\ frames \in Seq(FrameRecord) /\ Len(frames) \in Nat
      /\ thread.shadow_top \in Nat
  BY ThreadFields DEF TypeOK, FrameRecord
<1>2. Slots(frames, Len(frames)) = 0..thread.shadow_top
  BY DEF Linked
<1>3. PICK i \in 1..Len(frames) : frames[i].begun /\ Slot(frames[i]) = thread.shadow_top
  <2>1. thread.shadow_top \in Slots(frames, Len(frames))
    BY <1>1, <1>2
  <2> QED
    BY <2>1 DEF Slots
<1>4. Open(i)
  <2> SUFFICES ASSUME NEW j \in (i + 1)..Len(frames), frames[j].begun PROVE FALSE
    BY <1>3 DEF Open
  <2>1. j \in 1..Len(frames) /\ i \in 1..(j - 1)
    BY <1>1
  <2>2. Slot(frames[j]) \in Slots(frames, Len(frames)) /\ Slot(frames[i]) \in Slots(frames, j - 1)
    BY <1>3, <2>1 DEF Slots
  <2>3. Slots(frames, j - 1) = 0..frames[j].before.shadow_top
    BY <2>1 DEF Linked
  <2>4. frames[j].before.shadow_top \in Int
    <3>1. frames[j] \in FrameRecord
      BY <1>1, <2>1
    <3>2. frames[j].before \in ThreadState
      BY <3>1 DEF FrameRecord
    <3> QED
      BY <3>2, ThreadFields
  <2>5. thread.shadow_top <= frames[j].before.shadow_top
    BY <1>1, <1>3, <2>2, <2>3, <2>4
  <2>6. frames[j].before.shadow_top + 1 <= thread.shadow_top
    BY <1>2, <2>2 DEF Slot
  <2> QED
    BY <1>1, <2>4, <2>5, <2>6
<1>5. ASSUME NEW j \in 1..Len(frames), Open(j) PROVE j = i
  BY <1>1, <1>3, <1>4, <1>5 DEF Open
<1>6. (CHOOSE j \in 1..Len(frames) : Open(j)) = i
  BY <1>4, <1>5
<1>7. OpenFunction = frames[i].method.id
  BY <1>4, <1>6 DEF OpenFunction
<1>8. Stored(shadow_stack, frames[i])
  BY DEF Linked
<1> QED
  BY <1>3, <1>7, <1>8 DEF Stored

(* With no call open the shadow stack is empty, and the level the peek     *)
(* reads in its place is 0.                                                *)
LEMMA OpenIsPeeked ==
  ASSUME TypeOK, Linked(thread, frames, shadow_stack)
  PROVE  rb_rg_stack_peek(thread) = OpenFunction
<1>1. CASE thread.shadow_top = -1
  <2>1. Slots(frames, Len(frames)) = {}
    <3>1. 0..(-1) = {}
      OBVIOUS
    <3> QED
      BY <1>1, <3>1 DEF Linked
  <2>2. \A i \in 1..Len(frames) : ~Open(i)
    BY <2>1 DEF Slots, Open
  <2>3. thread.level = 0
    BY <1>1 DEF Linked, Sane
  <2> QED
    BY <1>1, <2>2, <2>3 DEF OpenFunction, NoFunction, rb_rg_stack_peek
<1>2. CASE thread.shadow_top # -1
  BY <1>2, OpenIsTop DEF rb_rg_stack_peek
<1> QED
  BY <1>1, <1>2

(* Until a call is strained, at any depth the hook sends the exceptions    *)
(* raised outside of libraries it has seen and not on the entrypoint, and  *)
(* no others, each with the innermost open call on top of the shadow       *)
(* stack, however that call came to be there.                              *)
THEOREM ExceptionsFindTheOpenCall == Spec => ExceptionsPinned
<1>1. Init => Levelled
  <2> SUFFICES ASSUME Init PROVE LevelTells(thread, frames)
    BY DEF Levelled
  <2>1. thread \in ThreadState /\ frames = <<>> /\ Linked(thread, frames, shadow_stack)
    BY InitInv DEF Inv, Chained, TypeOK, Init
  <2> QED
    BY <2>1, EmptyLevels
<1>2. ASSUME Inv, Levelled, Raise, ~strained
      PROVE  event' = IF InsideLibrary \/ OpenFunction = RG_TRACE_ENTRYPOINT_FRAME_ID
                      THEN NoCommand
                      ELSE Command("EXCEPTION_THROWN", OpenFunction)
  <2>1. TypeOK /\ Linked(thread, frames, shadow_stack) /\ LevelTells(thread, frames)
    BY <1>2 DEF Inv, Chained, Levelled
  <2>2. rb_rg_stack_peek(thread) = OpenFunction
    BY <2>1, OpenIsPeeked
  <2>3. thread.level <= 0 <=> ~InsideLibrary
    <3>1. thread.level \in Nat
      BY <2>1 DEF Linked, Sane
    <3>2. InsideLibrary <=> LibraryAmong(frames, Len(frames))
      BY DEF InsideLibrary, LibraryAmong, EntersLibrary
    <3> QED
      BY <2>1, <3>1, <3>2 DEF LevelTells
  <2> QED
    BY <1>2, <2>2, <2>3 DEF Raise, Thrown
<1>3. Inv /\ Levelled /\ [Next]_stackVars =>
        [Raise /\ ~strained =>
           event' = IF InsideLibrary \/ OpenFunction = RG_TRACE_ENTRYPOINT_FRAME_ID
                    THEN NoCommand
                    ELSE Command("EXCEPTION_THROWN", OpenFunction)]_stackVars
  BY <1>2
<1> QED
  BY <1>1, <1>3, NextLevelled, Invariance, PTL DEF Spec, ExceptionsPinned
=============================================================================
