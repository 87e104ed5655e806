----------------------------- MODULE BipBuffer -----------------------------
(***************************************************************************)
(* The bip buffer of ext/raygun/bipbuffer.c: one array, a region A that is *)
(* read from its start, and a region B that grows from the start of the    *)
(* array once less room is left behind A than in front of it.  The         *)
(* functions of the C file are operators on a value "me"; modules that own *)
(* a buffer keep such a value in a variable.                               *)
(*                                                                         *)
(* Memory is kept per message, not per byte: data maps the offset a        *)
(* message was copied to, to that message, for the messages all of whose   *)
(* bytes are still in place.  A copy that touches any byte of an older     *)
(* message removes it.                                                     *)
(***************************************************************************)
EXTENDS Integers, Sequences

CONSTANT Size   \* the size given to bipbuf_new

ASSUME SizeAssumption == Size \in Nat

NoData == [at \in {} |-> 0]

bipbuf_init ==
  [a_start |-> 0, a_end |-> 0, b_end |-> 0, b_inuse |-> 0, data |-> NoData]

bipbuf_unused_off_by_one(me) ==
  IF me.b_inuse = 1 THEN me.a_start - me.b_end + 1 ELSE Size - me.a_end

bipbuf_unused(me) ==
  IF me.b_inuse = 1 THEN me.a_start - me.b_end ELSE Size - me.a_end

bipbuf_used(me) == (me.a_end - me.a_start) + me.b_end

bipbuf_is_empty(me) == me.a_start = me.a_end

NeverSwitchToB(me) == me

(* Writes continue in region B when there is less room behind A than       *)
(* between B and A.                                                        *)
CheckForSwitchToB(me) ==
  IF Size - me.a_end < me.a_start - me.b_end THEN [me EXCEPT !.b_inuse = 1] ELSE me

Intact(data, s, at, length) == s + data[s].length <= at \/ at + length <= s

Memcpy(data, at, m) ==
  [s \in {t \in DOMAIN data : Intact(data, t, at, m.length)} \cup {at} |->
     IF s = at THEN m ELSE data[s]]

WriteAfterA(me) == me.a_end
WriteOffset(me) == IF me.b_inuse = 1 THEN me.b_end ELSE me.a_end

FitsAlways(me, m) == TRUE

Fits(me, m) == m.length <= bipbuf_unused(me)

bipbuf_offer(me, m) ==
  IF Fits(me, m)
  THEN CheckForSwitchToB(
         [me EXCEPT !.data = Memcpy(@, WriteOffset(me), m),
                    !.b_end = IF me.b_inuse = 1 THEN @ + m.length ELSE @,
                    !.a_end = IF me.b_inuse = 1 THEN @ ELSE @ + m.length])
  ELSE me

CanPoll(me, length) == ~bipbuf_is_empty(me) /\ me.a_start + length <= Size

(* The bytes found at an offset: the message copied there, or Torn when    *)
(* any of its bytes has been overwritten since.                            *)
Torn == [length |-> 0]

BytesAt(me, at, length) ==
  IF at \in DOMAIN me.data /\ me.data[at].length = length THEN me.data[at] ELSE Torn

(* Bytes read for the last time are forgotten by the model.                *)
Forget(me, at) ==
  [me EXCEPT !.data = [s \in DOMAIN @ \ {at} |-> @[s]]]

(* Region A ends where the reader stands: B, if in use, becomes A.         *)
AdvanceRead(me, length) ==
  LET start == me.a_start + length IN
  IF start # me.a_end THEN [me EXCEPT !.a_start = start]
  ELSE IF me.b_inuse = 1
  THEN [me EXCEPT !.a_start = 0, !.a_end = me.b_end, !.b_end = 0, !.b_inuse = 0]
  ELSE [me EXCEPT !.a_start = 0, !.a_end = 0]

bipbuf_poll(me, length) == CheckForSwitchToB(AdvanceRead(me, length))
-----------------------------------------------------------------------------
(* A buffer value: its fields, the cursors inside the array, messages that *)
(* occupy memory.                                                          *)
IsBuffer(me) ==
  /\ me = [a_start |-> me.a_start, a_end |-> me.a_end, b_end |-> me.b_end,
           b_inuse |-> me.b_inuse, data |-> me.data]
  /\ {me.a_start, me.a_end, me.b_end} \subseteq 0..Size
  /\ me.b_inuse \in {0, 1}
  /\ me.data = [at \in DOMAIN me.data |-> me.data[at]]
  /\ \A at \in DOMAIN me.data : at \in 0..Size /\ me.data[at].length \in Nat \ {0}

(* How the cursors of a buffer in use are related.  The last three         *)
(* conjuncts bound what a refusal can mean: B is in use only when A ends   *)
(* in the second half of the array, and not in use only when there is at   *)
(* least as much room behind A as in front of it.                          *)
PointersOK(me) ==
  /\ me.a_start <= me.a_end
  /\ me.b_end <= me.a_start
  /\ me.b_inuse = 1 \/ me.b_end = 0
  /\ me.b_inuse = 1 => Size < 2 * me.a_end
  /\ me.b_inuse = 1 \/ me.a_start <= Size - me.a_end
  /\ bipbuf_is_empty(me) => me.a_end = 0

(* A region is the sequence of the messages lying in it, oldest first,     *)
(* each with the offset it was copied to.                                  *)
Placed(at, m) == [at |-> at, msg |-> m]

Payload(region) == [i \in 1..Len(region) |-> region[i].msg]

(* The messages of a region lie back to back from its first offset to its  *)
(* last, in order.                                                         *)
Laid(region, first, last) ==
  /\ region = <<>> => first = last
  /\ region # <<>> => region[1].at = first
  /\ \A i \in 1..Len(region) :
       /\ first <= region[i].at
       /\ region[i].at + region[i].msg.length <= last
       /\ region[i].at + region[i].msg.length =
            IF i = Len(region) THEN last ELSE region[i + 1].at
  /\ \A i, j \in 1..Len(region) :
       i < j => region[i].at + region[i].msg.length <= region[j].at

(* The bytes of each message of a region are in place.                     *)
InPlace(data, region) ==
  \A i \in 1..Len(region) :
    /\ region[i].at \in DOMAIN data
    /\ data[region[i].at] = region[i].msg

(* The buffer holds the messages of the two regions.                       *)
LaidOut(me, regionA, regionB) ==
  /\ PointersOK(me)
  /\ Laid(regionA, me.a_start, me.a_end)
  /\ Laid(regionB, 0, me.b_end)
  /\ InPlace(me.data, regionA)
  /\ InPlace(me.data, regionB)
=============================================================================
