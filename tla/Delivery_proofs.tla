-------------------------- MODULE Delivery_proofs --------------------------
(***************************************************************************)
(* The way of a command from the encoder to the socket: the ring buffer,   *)
(* the batched sink, and the dispatch threads over UDP and over TCP, for   *)
(* every size of the ring, the packets and the commands, every number of   *)
(* commands, and every order in which the threads take their steps.        *)
(*                                                                         *)
(* The module has four parts: what an offer and a poll do to a bip buffer, *)
(* for whoever owns one; the Ringbuf class; the accounts of the batched    *)
(* sink; and the threads around it.                                        *)
(***************************************************************************)
EXTENDS RingBuffer, UdpDispatch, TcpDispatch, FiniteSetTheorems, SequenceTheorems, TLAPS

(***************************************************************************)
(* 1. Bip buffers.  What an offer and a poll do to a buffer, for every     *)
(* size of the array and every set M of messages that occupy memory.  The  *)
(* last lemmas say what a call does to the queue of unread messages.       *)
(***************************************************************************)

(* Updating fields of a buffer value.                                      *)
LEMMA WriteFields ==
  ASSUME NEW b, NEW d, NEW be, NEW ae,
         b = [a_start |-> b.a_start, a_end |-> b.a_end, b_end |-> b.b_end,
              b_inuse |-> b.b_inuse, data |-> b.data],
         NEW w, w = [b EXCEPT !.data = d, !.b_end = be, !.a_end = ae]
  PROVE  /\ w = [a_start |-> w.a_start, a_end |-> w.a_end, b_end |-> w.b_end,
                 b_inuse |-> w.b_inuse, data |-> w.data]
         /\ w.a_start = b.a_start /\ w.a_end = ae /\ w.b_end = be
         /\ w.b_inuse = b.b_inuse /\ w.data = d
OBVIOUS

(* bipbuf_offer advances one write cursor and may turn B on.               *)
LEMMA OfferEffect ==
  ASSUME NEW b, IsBuffer(b), PointersOK(b),
         NEW m, m.length \in Nat \ {0}, Fits(b, m),
         NEW r, r = bipbuf_offer(b, m)
  PROVE  /\ r = [a_start |-> r.a_start, a_end |-> r.a_end, b_end |-> r.b_end,
                 b_inuse |-> r.b_inuse, data |-> r.data]
         /\ r.a_start = b.a_start
         /\ r.a_end = IF b.b_inuse = 1 THEN b.a_end ELSE b.a_end + m.length
         /\ r.b_end = IF b.b_inuse = 1 THEN b.b_end + m.length ELSE b.b_end
         /\ r.b_inuse \in {0, 1}
         /\ r.data = Memcpy(b.data, WriteOffset(b), m)
         /\ {r.a_start, r.a_end, r.b_end} \subseteq 0..Size
         /\ PointersOK(r)
<1> DEFINE d == Memcpy(b.data, WriteOffset(b), m)
           be == IF b.b_inuse = 1 THEN b.b_end + m.length ELSE b.b_end
           ae == IF b.b_inuse = 1 THEN b.a_end ELSE b.a_end + m.length
           w == [b EXCEPT !.data = d, !.b_end = be, !.a_end = ae]
<1>0. r = CheckForSwitchToB(w)
  BY DEF bipbuf_offer
<1>1. w = [b EXCEPT !.data = d, !.b_end = be, !.a_end = ae]
  OBVIOUS
<1> HIDE DEF d, be, ae, w
<1>2. b = [a_start |-> b.a_start, a_end |-> b.a_end, b_end |-> b.b_end,
           b_inuse |-> b.b_inuse, data |-> b.data]
  BY DEF IsBuffer
<1>3. /\ w = [a_start |-> w.a_start, a_end |-> w.a_end, b_end |-> w.b_end,
              b_inuse |-> w.b_inuse, data |-> w.data]
      /\ w.a_start = b.a_start /\ w.a_end = ae /\ w.b_end = be
      /\ w.b_inuse = b.b_inuse /\ w.data = d
  BY ONLY <1>1, <1>2, WriteFields
<1>4. b.b_inuse \in {0, 1} /\ b.a_start \in 0..Size /\ b.a_end \in 0..Size /\ b.b_end \in 0..Size
  BY DEF IsBuffer
<1>5. /\ r = [a_start |-> r.a_start, a_end |-> r.a_end, b_end |-> r.b_end,
              b_inuse |-> r.b_inuse, data |-> r.data]
      /\ r.a_start = w.a_start /\ r.a_end = w.a_end /\ r.b_end = w.b_end /\ r.data = w.data
      /\ r.b_inuse = IF Size - w.a_end < w.a_start - w.b_end THEN 1 ELSE w.b_inuse
  BY <1>0, <1>3 DEF CheckForSwitchToB
<1>6. {r.a_start, r.a_end, r.b_end} \subseteq 0..Size
  BY <1>3, <1>4, <1>5, SizeAssumption DEF ae, be, PointersOK, Fits, bipbuf_unused
<1>7. PointersOK(r)
  BY <1>3, <1>4, <1>5, SizeAssumption DEF ae, be, PointersOK, Fits, bipbuf_unused, bipbuf_is_empty
<1> QED
  BY <1>3, <1>4, <1>5, <1>6, <1>7 DEF ae, be, d

Without(data, at) == [s \in DOMAIN data \ {at} |-> data[s]]

(* Forgetting a message changes no cursor.                                 *)
LEMMA ForgetEffect ==
  ASSUME NEW b, NEW at,
         b = [a_start |-> b.a_start, a_end |-> b.a_end, b_end |-> b.b_end,
              b_inuse |-> b.b_inuse, data |-> b.data],
         NEW w, w = Forget(b, at)
  PROVE  /\ w = [a_start |-> w.a_start, a_end |-> w.a_end, b_end |-> w.b_end,
                 b_inuse |-> w.b_inuse, data |-> w.data]
         /\ w.a_start = b.a_start /\ w.a_end = b.a_end /\ w.b_end = b.b_end
         /\ w.b_inuse = b.b_inuse
         /\ w.data = Without(b.data, at)
BY DEF Forget, Without

(* Reading up to the end of region A turns region B, if in use, into A.    *)
LEMMA AdvanceEffect ==
  ASSUME NEW b, NEW length,
         b = [a_start |-> b.a_start, a_end |-> b.a_end, b_end |-> b.b_end,
              b_inuse |-> b.b_inuse, data |-> b.data],
         NEW w, w = AdvanceRead(b, length)
  PROVE  /\ w = [a_start |-> w.a_start, a_end |-> w.a_end, b_end |-> w.b_end,
                 b_inuse |-> w.b_inuse, data |-> w.data]
         /\ w.data = b.data
         /\ b.a_start + length # b.a_end =>
              /\ w.a_start = b.a_start + length /\ w.a_end = b.a_end
              /\ w.b_end = b.b_end /\ w.b_inuse = b.b_inuse
         /\ b.a_start + length = b.a_end /\ b.b_inuse = 1 =>
              /\ w.a_start = 0 /\ w.a_end = b.b_end /\ w.b_end = 0 /\ w.b_inuse = 0
         /\ b.a_start + length = b.a_end /\ b.b_inuse # 1 =>
              /\ w.a_start = 0 /\ w.a_end = 0 /\ w.b_end = b.b_end /\ w.b_inuse = b.b_inuse
BY DEF AdvanceRead

(* Polling a message that lies in region A keeps the cursors ordered.      *)
LEMMA PollEffect ==
  ASSUME NEW b, IsBuffer(b), PointersOK(b),
         NEW length \in Nat \ {0}, b.a_start + length <= b.a_end,
         NEW f, f \in {b, Forget(b, b.a_start)},
         NEW r, r = bipbuf_poll(f, length)
  PROVE  /\ r = [a_start |-> r.a_start, a_end |-> r.a_end, b_end |-> r.b_end,
                 b_inuse |-> r.b_inuse, data |-> r.data]
         /\ r.data \in {b.data, Without(b.data, b.a_start)}
         /\ b.a_start + length # b.a_end =>
              r.a_start = b.a_start + length /\ r.a_end = b.a_end /\ r.b_end = b.b_end
         /\ b.a_start + length = b.a_end =>
              r.a_start = 0 /\ r.a_end = b.b_end /\ r.b_end = 0
         /\ r.b_inuse \in {0, 1}
         /\ {r.a_start, r.a_end, r.b_end} \subseteq 0..Size
         /\ PointersOK(r)
<1> DEFINE w == AdvanceRead(f, length)
<1>0. r = CheckForSwitchToB(w)
  BY DEF bipbuf_poll
<1>1. w = AdvanceRead(f, length)
  OBVIOUS
<1> HIDE DEF w
<1>2. b = [a_start |-> b.a_start, a_end |-> b.a_end, b_end |-> b.b_end,
           b_inuse |-> b.b_inuse, data |-> b.data]
  BY DEF IsBuffer
<1>3. /\ f = [a_start |-> f.a_start, a_end |-> f.a_end, b_end |-> f.b_end,
              b_inuse |-> f.b_inuse, data |-> f.data]
      /\ f.a_start = b.a_start /\ f.a_end = b.a_end /\ f.b_end = b.b_end
      /\ f.b_inuse = b.b_inuse
      /\ f.data \in {b.data, Without(b.data, b.a_start)}
  <2>1. CASE f = b
    BY <1>2, <2>1
  <2>2. CASE f = Forget(b, b.a_start)
    BY <1>2, <2>2, ForgetEffect
  <2> QED
    BY <2>1, <2>2
<1>4. /\ w = [a_start |-> w.a_start, a_end |-> w.a_end, b_end |-> w.b_end,
              b_inuse |-> w.b_inuse, data |-> w.data]
      /\ w.data = f.data
      /\ f.a_start + length # f.a_end =>
           /\ w.a_start = f.a_start + length /\ w.a_end = f.a_end
           /\ w.b_end = f.b_end /\ w.b_inuse = f.b_inuse
      /\ f.a_start + length = f.a_end /\ f.b_inuse = 1 =>
           /\ w.a_start = 0 /\ w.a_end = f.b_end /\ w.b_end = 0 /\ w.b_inuse = 0
      /\ f.a_start + length = f.a_end /\ f.b_inuse # 1 =>
           /\ w.a_start = 0 /\ w.a_end = 0 /\ w.b_end = f.b_end /\ w.b_inuse = f.b_inuse
  BY ONLY <1>1, <1>3, AdvanceEffect
<1>5. b.b_inuse \in {0, 1} /\ b.a_start \in 0..Size /\ b.a_end \in 0..Size /\ b.b_end \in 0..Size
  BY DEF IsBuffer
<1>6. /\ r = [a_start |-> r.a_start, a_end |-> r.a_end, b_end |-> r.b_end,
              b_inuse |-> r.b_inuse, data |-> r.data]
      /\ r.a_start = w.a_start /\ r.a_end = w.a_end /\ r.b_end = w.b_end /\ r.data = w.data
      /\ r.b_inuse = IF Size - w.a_end < w.a_start - w.b_end THEN 1 ELSE w.b_inuse
  BY <1>0, <1>4 DEF CheckForSwitchToB
<1>7. /\ b.a_start <= b.a_end /\ b.b_end <= b.a_start
      /\ b.b_inuse = 1 \/ b.b_end = 0
      /\ b.b_inuse = 1 => Size < 2 * b.a_end
      /\ b.b_inuse = 1 \/ b.a_start <= Size - b.a_end
  BY DEF PointersOK
<1>8. CASE b.a_start + length # b.a_end
  <2>1. /\ r.a_start = b.a_start + length /\ r.a_end = b.a_end /\ r.b_end = b.b_end
        /\ r.b_inuse = IF Size - b.a_end < b.a_start + length - b.b_end THEN 1 ELSE b.b_inuse
    <3>1. f.a_start + length # f.a_end
      BY <1>3, <1>8
    <3>2. /\ w.a_start = f.a_start + length /\ w.a_end = f.a_end
          /\ w.b_end = f.b_end /\ w.b_inuse = f.b_inuse
      BY <1>4, <3>1
    <3>3. /\ w.a_start = b.a_start + length /\ w.a_end = b.a_end
          /\ w.b_end = b.b_end /\ w.b_inuse = b.b_inuse
      BY <1>3, <3>2
    <3>4. r.a_start = b.a_start + length /\ r.a_end = b.a_end /\ r.b_end = b.b_end
      BY <1>6, <3>3
    <3>5. r.b_inuse = IF Size - w.a_end < w.a_start - w.b_end THEN 1 ELSE w.b_inuse
      BY <1>6
    <3>6. (Size - w.a_end < w.a_start - w.b_end) <=> (Size - b.a_end < b.a_start + length - b.b_end)
      BY <1>5, <3>3, SizeAssumption
    <3> QED
      BY <3>3, <3>4, <3>5, <3>6
  <2>2. r.a_start < r.a_end /\ r.b_inuse \in {0, 1}
    BY <1>5, <1>8, <2>1
  <2>3. PointersOK(r)
    BY <1>5, <1>7, <1>8, <2>1, <2>2, SizeAssumption DEF PointersOK, bipbuf_is_empty
  <2> QED
    BY <1>3, <1>4, <1>5, <1>6, <1>8, <2>1, <2>2, <2>3, SizeAssumption
<1>9. CASE b.a_start + length = b.a_end
  <2>1. /\ r.a_start = 0 /\ r.a_end = b.b_end /\ r.b_end = 0
        /\ w.b_inuse = 0
    BY <1>3, <1>4, <1>5, <1>6, <1>7, <1>9
  <2>2. r.b_inuse = 0
    BY <1>5, <1>6, <2>1, SizeAssumption
  <2>3. PointersOK(r)
    BY <1>5, <1>7, <2>1, <2>2, SizeAssumption DEF PointersOK, bipbuf_is_empty
  <2> QED
    BY <1>3, <1>4, <1>5, <1>6, <1>9, <2>1, <2>2, <2>3, SizeAssumption
<1> QED
  BY <1>8, <1>9
-----------------------------------------------------------------------------
(* The messages occupy memory.                                             *)
Positive(M) == \A m \in M : m.length \in Nat \ {0}

Region(M) == Seq([at : Int, msg : M])

LEMMA RegionElements ==
  ASSUME NEW M, Positive(M), NEW region \in Region(M)
  PROVE  \A i \in 1..Len(region) :
           region[i].at \in Int /\ region[i].msg \in M /\ region[i].msg.length \in Nat \ {0}
<1> TAKE i \in 1..Len(region)
<1>1. region[i] \in [at : Int, msg : M]
  BY ElementOfSeq DEF Region
<1>2. region[i].at \in Int /\ region[i].msg \in M
  BY <1>1
<1> QED
  BY <1>2 DEF Positive

LEMMA LaidOrder ==
  ASSUME NEW M, Positive(M), NEW region \in Region(M), NEW first \in Int, NEW last \in Int,
         Laid(region, first, last)
  PROVE  /\ first <= last
         /\ first = last <=> region = <<>>
<1>1. CASE region = <<>>
  BY <1>1 DEF Laid
<1>2. CASE region # <<>>
  <2>1. 1 \in 1..Len(region)
    BY <1>2 DEF Region
  <2>2. first <= region[1].at /\ region[1].at + region[1].msg.length <= last
    BY <2>1 DEF Laid
  <2>3. region[1].at \in Int /\ region[1].msg.length \in Nat \ {0}
    BY <2>1, RegionElements
  <2> QED
    BY <1>2, <2>2, <2>3
<1> QED
  BY <1>1, <1>2

(* A message copied to the end of a region extends it.                     *)
LEMMA LaidAppend ==
  ASSUME NEW M, Positive(M), NEW region \in Region(M), NEW first \in Int, NEW last \in Int,
         Laid(region, first, last), NEW m \in M
  PROVE  /\ Append(region, Placed(last, m)) \in Region(M)
         /\ Laid(Append(region, Placed(last, m)), first, last + m.length)
<1> DEFINE longer == Append(region, Placed(last, m))
<1>1. m.length \in Nat \ {0}
  BY DEF Positive
<1>2. first <= last /\ (first = last <=> region = <<>>)
  BY LaidOrder
<1>3. longer \in Region(M)
  BY DEF Region, Placed
<1>4. /\ Len(region) \in Nat
      /\ Len(longer) = Len(region) + 1
      /\ \A i \in 1..Len(region) : longer[i] = region[i]
      /\ longer[Len(region) + 1].at = last
      /\ longer[Len(region) + 1].msg = m
  BY DEF Region, Placed
<1> HIDE DEF longer
<1>5. \A i \in 1..Len(region) :
        region[i].at \in Int /\ region[i].msg.length \in Nat \ {0}
  BY RegionElements
<1>6. longer # <<>> /\ longer[1].at = first
  <2>1. longer # <<>>
    <3>1. Len(longer) # 0
      BY <1>4
    <3> QED
      BY <1>3, <3>1, EmptySeq DEF Region
  <2>2. CASE region = <<>>
    <3>1. Len(region) = 0
      BY <2>2
    <3>2. longer[1].at = last
      BY <1>4, <3>1
    <3> QED
      BY <1>2, <2>1, <2>2, <3>2
  <2>3. CASE region # <<>>
    <3>1. Len(region) # 0 /\ region[1].at = first
      BY <2>3, EmptySeq DEF Laid, Region
    <3>2. longer[1] = region[1]
      BY <1>4, <3>1
    <3> QED
      BY <2>1, <3>1, <3>2
  <2> QED
    BY <2>2, <2>3
<1>7. ASSUME NEW i \in 1..Len(longer)
      PROVE  /\ first <= longer[i].at
             /\ longer[i].at + longer[i].msg.length <= last + m.length
             /\ longer[i].at + longer[i].msg.length =
                  IF i = Len(longer) THEN last + m.length ELSE longer[i + 1].at
  <2>1. CASE i = Len(longer)
    BY <1>1, <1>2, <1>4, <2>1
  <2>2. CASE i # Len(longer)
    <3>1. i \in 1..Len(region) /\ longer[i] = region[i]
      BY <1>4, <2>2
    <3>2. /\ first <= region[i].at
          /\ region[i].at + region[i].msg.length <= last
          /\ region[i].at + region[i].msg.length =
               IF i = Len(region) THEN last ELSE region[i + 1].at
      BY <3>1 DEF Laid
    <3>3. longer[i + 1].at = IF i = Len(region) THEN last ELSE region[i + 1].at
      BY <1>4, <3>1
    <3> QED
      BY <1>1, <1>5, <2>2, <3>1, <3>2, <3>3, SMTT(20)
  <2> QED
    BY <2>1, <2>2
<1>8. ASSUME NEW i \in 1..Len(longer), NEW j \in 1..Len(longer), i < j
      PROVE  longer[i].at + longer[i].msg.length <= longer[j].at
  <2>1. i \in 1..Len(region) /\ longer[i] = region[i]
    BY <1>4, <1>8
  <2>2. CASE j = Len(longer)
    BY <1>4, <2>1, <2>2 DEF Laid
  <2>3. CASE j # Len(longer)
    <3>1. j \in 1..Len(region) /\ longer[j] = region[j]
      BY <1>4, <2>3
    <3>2. region[i].at + region[i].msg.length <= region[j].at
      BY <1>8, <2>1, <3>1 DEF Laid
    <3> QED
      BY <2>1, <3>1, <3>2
  <2> QED
    BY <2>2, <2>3
<1> QED
  BY <1>3, <1>6, <1>7, <1>8 DEF Laid, longer

(* Without its first message a region starts at the second one.            *)
LEMMA LaidTail ==
  ASSUME NEW M, Positive(M), NEW region \in Region(M), NEW first \in Int, NEW last \in Int,
         Laid(region, first, last), region # <<>>
  PROVE  /\ Tail(region) \in Region(M)
         /\ Laid(Tail(region), first + region[1].msg.length, last)
<1> DEFINE rest == Tail(region)
<1>1. /\ Len(region) \in Nat \ {0}
      /\ Len(rest) = Len(region) - 1
      /\ \A i \in 1..Len(rest) : rest[i] = region[i + 1]
  BY DEF Region
<1>2. rest \in Region(M)
  BY DEF Region
<1>3. rest = <<>> <=> Len(region) = 1
  <2>1. rest = <<>> <=> Len(rest) = 0
    BY <1>2, EmptySeq DEF Region
  <2> HIDE DEF rest
  <2> QED
    BY <1>1, <2>1
<1> HIDE DEF rest
<1>4. \A i \in 1..Len(region) :
        region[i].at \in Int /\ region[i].msg.length \in Nat \ {0}
  BY RegionElements
<1>5. region[1].at = first
  BY DEF Laid
<1>6. region[1].at + region[1].msg.length = IF 1 = Len(region) THEN last ELSE region[2].at
  BY <1>1 DEF Laid
<1>7. rest = <<>> => first + region[1].msg.length = last
  BY <1>3, <1>5, <1>6
<1>8. rest # <<>> => rest[1].at = first + region[1].msg.length
  BY <1>1, <1>3, <1>5, <1>6
<1>9. ASSUME NEW i \in 1..Len(rest)
      PROVE  /\ first + region[1].msg.length <= rest[i].at
             /\ rest[i].at + rest[i].msg.length <= last
             /\ rest[i].at + rest[i].msg.length =
                  IF i = Len(rest) THEN last ELSE rest[i + 1].at
  <2>1. i + 1 \in 1..Len(region) /\ 1 \in 1..Len(region) /\ 1 < i + 1 /\ rest[i] = region[i + 1]
    BY <1>1
  <2>2. first + region[1].msg.length <= rest[i].at
    BY <1>5, <2>1 DEF Laid
  <2>3. rest[i].at + rest[i].msg.length <= last
    BY <2>1 DEF Laid
  <2>4. rest[i].at + rest[i].msg.length =
          IF i + 1 = Len(region) THEN last ELSE region[i + 2].at
    BY <2>1 DEF Laid
  <2>5. i # Len(rest) => rest[i + 1] = region[i + 2]
    BY <1>1
  <2> QED
    BY <1>1, <2>2, <2>3, <2>4, <2>5
<1>10. ASSUME NEW i \in 1..Len(rest), NEW j \in 1..Len(rest), i < j
       PROVE  rest[i].at + rest[i].msg.length <= rest[j].at
  <2>1. i + 1 \in 1..Len(region) /\ j + 1 \in 1..Len(region) /\ i + 1 < j + 1
    BY <1>1, <1>10
  <2>2. region[i + 1].at + region[i + 1].msg.length <= region[j + 1].at
    BY <2>1 DEF Laid
  <2> QED
    BY <1>1, <2>2
<1> QED
  BY <1>2, <1>7, <1>8, <1>9, <1>10 DEF Laid, rest
-----------------------------------------------------------------------------
(* A copy keeps the messages it does not overlap.                          *)
LEMMA MemcpyKeeps ==
  ASSUME NEW data, NEW M, Positive(M), NEW region \in Region(M), InPlace(data, region),
         NEW at \in Int, NEW m \in M,
         \A i \in 1..Len(region) : \/ region[i].at + region[i].msg.length <= at
                                   \/ at + m.length <= region[i].at
  PROVE  InPlace(Memcpy(data, at, m), region)
<1>1. SUFFICES ASSUME NEW i \in 1..Len(region)
               PROVE  /\ region[i].at \in DOMAIN Memcpy(data, at, m)
                      /\ Memcpy(data, at, m)[region[i].at] = region[i].msg
  BY DEF InPlace
<1>2. region[i].at \in Int /\ region[i].msg.length \in Nat \ {0} /\ m.length \in Nat \ {0}
  BY RegionElements DEF Positive
<1>3. region[i].at \in DOMAIN data /\ data[region[i].at] = region[i].msg
  BY DEF InPlace
<1>4. region[i].at # at
  BY <1>2
<1>5. Intact(data, region[i].at, at, m.length)
  BY <1>3 DEF Intact
<1> QED
  BY <1>3, <1>4, <1>5 DEF Memcpy

LEMMA MemcpyPlaces ==
  ASSUME NEW data, NEW at, NEW m
  PROVE  at \in DOMAIN Memcpy(data, at, m) /\ Memcpy(data, at, m)[at] = m
BY DEF Memcpy

LEMMA InPlaceAppend ==
  ASSUME NEW data, NEW M, Positive(M), NEW region \in Region(M), InPlace(data, region),
         NEW at \in Int, NEW m \in M, at \in DOMAIN data, data[at] = m
  PROVE  InPlace(data, Append(region, Placed(at, m)))
<1> DEFINE longer == Append(region, Placed(at, m))
<1>1. /\ Len(region) \in Nat
      /\ Len(longer) = Len(region) + 1
      /\ \A i \in 1..Len(region) : longer[i] = region[i]
      /\ longer[Len(region) + 1].at = at
      /\ longer[Len(region) + 1].msg = m
  BY DEF Region, Placed
<1> HIDE DEF longer
<1>2. ASSUME NEW i \in 1..Len(longer)
      PROVE  longer[i].at \in DOMAIN data /\ data[longer[i].at] = longer[i].msg
  BY <1>1 DEF InPlace
<1> QED
  BY <1>2 DEF InPlace, longer

(* Forgetting one offset keeps the messages at the others.                 *)
LEMMA ForgetKeeps ==
  ASSUME NEW data, NEW M, Positive(M), NEW region \in Region(M), InPlace(data, region), NEW at,
         \A i \in 1..Len(region) : region[i].at # at
  PROVE  InPlace(Without(data, at), region)
BY DEF InPlace, Without

LEMMA InPlaceTail ==
  ASSUME NEW data, NEW M, Positive(M), NEW region \in Region(M), InPlace(data, region), region # <<>>
  PROVE  InPlace(data, Tail(region))
<1>1. \A i \in 1..Len(Tail(region)) : i + 1 \in 1..Len(region) /\ Tail(region)[i] = region[i + 1]
  BY DEF Region
<1> QED
  BY <1>1 DEF InPlace
-----------------------------------------------------------------------------
LEMMA PayloadType ==
  ASSUME NEW M, Positive(M), NEW region \in Region(M)
  PROVE  /\ Payload(region) \in Seq(M)
         /\ Len(Payload(region)) = Len(region)
         /\ \A i \in 1..Len(region) : Payload(region)[i] = region[i].msg
         /\ Payload(region) = <<>> <=> region = <<>>
<1>1. Len(region) \in Nat
  BY DEF Region
<1>2. \A i \in 1..Len(region) : region[i].msg \in M
  BY RegionElements
<1>3. Payload(region) \in Seq(M) /\ Len(Payload(region)) = Len(region)
  BY <1>1, <1>2, IsASeq DEF Payload
<1>4. \A i \in 1..Len(region) : Payload(region)[i] = region[i].msg
  BY DEF Payload
<1>5. Payload(region) = <<>> <=> Len(Payload(region)) = 0
  BY <1>3, EmptySeq
<1>6. region = <<>> <=> Len(region) = 0
  BY EmptySeq DEF Region
<1> QED
  BY <1>3, <1>4, <1>5, <1>6

LEMMA EmptyPayload ==
  ASSUME NEW M, Positive(M)
  PROVE  Payload(<<>>) = <<>> /\ Payload(<<>>) \in Seq(M)
<1>1. <<>> \in Region(M)
  BY DEF Region
<1> QED
  BY <1>1, PayloadType

LEMMA PayloadAppend ==
  ASSUME NEW M, Positive(M), NEW region \in Region(M), NEW at \in Int, NEW m \in M
  PROVE  Payload(Append(region, Placed(at, m))) = Append(Payload(region), m)
<1> DEFINE longer == Append(region, Placed(at, m))
<1>1. /\ longer \in Region(M)
      /\ Len(region) \in Nat /\ Len(longer) = Len(region) + 1
      /\ \A i \in 1..Len(region) : longer[i] = region[i]
      /\ longer[Len(region) + 1].msg = m
  BY DEF Region, Placed
<1> HIDE DEF longer
<1>2. /\ Payload(region) \in Seq(M) /\ Len(Payload(region)) = Len(region)
      /\ \A i \in 1..Len(region) : Payload(region)[i] = region[i].msg
  BY PayloadType
<1>3. /\ Payload(longer) \in Seq(M) /\ Len(Payload(longer)) = Len(longer)
      /\ \A i \in 1..Len(longer) : Payload(longer)[i] = longer[i].msg
  BY <1>1, PayloadType
<1>4. /\ Append(Payload(region), m) \in Seq(M)
      /\ Len(Append(Payload(region), m)) = Len(region) + 1
      /\ \A i \in 1..Len(region) : Append(Payload(region), m)[i] = Payload(region)[i]
      /\ Append(Payload(region), m)[Len(region) + 1] = m
  BY <1>2, AppendProperties
<1>5. \A i \in 1..Len(longer) : Payload(longer)[i] = Append(Payload(region), m)[i]
  <2> TAKE i \in 1..Len(longer)
  <2>1. CASE i \in 1..Len(region)
    BY <1>1, <1>2, <1>3, <1>4, <2>1
  <2>2. CASE i = Len(region) + 1
    BY <1>1, <1>3, <1>4, <2>2
  <2>3. i \in 1..Len(region) \/ i = Len(region) + 1
    BY <1>1
  <2> QED
    BY <2>1, <2>2, <2>3
<1>6. Payload(longer) = Append(Payload(region), m)
  BY <1>1, <1>3, <1>4, <1>5, SeqEqual
<1> QED
  BY <1>6 DEF longer

LEMMA PayloadTail ==
  ASSUME NEW M, Positive(M), NEW region \in Region(M), region # <<>>
  PROVE  /\ Payload(Tail(region)) = Tail(Payload(region))
         /\ Head(Payload(region)) = region[1].msg
<1>1. /\ Tail(region) \in Region(M)
      /\ Len(region) \in Nat \ {0} /\ Len(Tail(region)) = Len(region) - 1
      /\ \A i \in 1..Len(Tail(region)) : Tail(region)[i] = region[i + 1]
  BY DEF Region
<1>2. /\ Payload(region) \in Seq(M) /\ Len(Payload(region)) = Len(region)
      /\ \A i \in 1..Len(region) : Payload(region)[i] = region[i].msg
      /\ Payload(region) # <<>>
  BY PayloadType
<1>3. /\ Payload(Tail(region)) \in Seq(M)
      /\ Len(Payload(Tail(region))) = Len(Tail(region))
      /\ \A i \in 1..Len(Tail(region)) : Payload(Tail(region))[i] = Tail(region)[i].msg
  BY <1>1, PayloadType
<1>4. /\ Tail(Payload(region)) \in Seq(M)
      /\ Len(Tail(Payload(region))) = Len(region) - 1
      /\ \A i \in 1..(Len(region) - 1) : Tail(Payload(region))[i] = Payload(region)[i + 1]
  BY <1>1, <1>2, HeadTailProperties
<1>5. \A i \in 1..Len(Tail(region)) : Payload(Tail(region))[i] = Tail(Payload(region))[i]
  BY <1>1, <1>2, <1>3, <1>4
<1>6. Payload(Tail(region)) = Tail(Payload(region))
  BY <1>1, <1>3, <1>4, <1>5, SeqEqual
<1>7. Head(Payload(region)) = Payload(region)[1]
  BY <1>1, <1>2
<1> QED
  BY <1>1, <1>2, <1>6, <1>7

(* Taking the head of a concatenation whose first part is not empty.       *)
LEMMA TailOfConcat ==
  ASSUME NEW M, NEW s \in Seq(M), NEW t \in Seq(M), s # <<>>
  PROVE  Head(s \o t) = Head(s) /\ Tail(s \o t) = Tail(s) \o t /\ s \o t # <<>>
<1>1. /\ Len(s) \in Nat \ {0} /\ Len(t) \in Nat
      /\ s \o t \in Seq(M) /\ Len(s \o t) = Len(s) + Len(t)
      /\ \A i \in 1..(Len(s) + Len(t)) :
           (s \o t)[i] = IF i <= Len(s) THEN s[i] ELSE t[i - Len(s)]
  BY ConcatProperties, EmptySeq
<1>2. s \o t # <<>>
  BY <1>1
<1>3. /\ Tail(s) \in Seq(M) /\ Len(Tail(s)) = Len(s) - 1
      /\ \A i \in 1..Len(Tail(s)) : Tail(s)[i] = s[i + 1]
  BY HeadTailProperties
<1>4. /\ Tail(s) \o t \in Seq(M) /\ Len(Tail(s) \o t) = Len(s) - 1 + Len(t)
      /\ \A i \in 1..(Len(s) - 1 + Len(t)) :
           (Tail(s) \o t)[i] = IF i <= Len(s) - 1 THEN Tail(s)[i] ELSE t[i - (Len(s) - 1)]
  BY <1>1, <1>3, ConcatProperties
<1>5. /\ Tail(s \o t) \in Seq(M) /\ Len(Tail(s \o t)) = Len(s) + Len(t) - 1
      /\ \A i \in 1..(Len(s) + Len(t) - 1) : Tail(s \o t)[i] = (s \o t)[i + 1]
  BY <1>1, <1>2, HeadTailProperties
<1>6. \A i \in 1..(Len(s) + Len(t) - 1) : Tail(s \o t)[i] = (Tail(s) \o t)[i]
  <2> TAKE i \in 1..(Len(s) + Len(t) - 1)
  <2>1. CASE i <= Len(s) - 1
    BY <1>1, <1>3, <1>4, <1>5, <2>1
  <2>2. CASE i > Len(s) - 1
    BY <1>1, <1>4, <1>5, <2>2
  <2> QED
    BY <1>1, <2>1, <2>2
<1>7. Tail(s \o t) = Tail(s) \o t
  BY <1>1, <1>4, <1>5, <1>6, SeqEqual
<1>8. Head(s \o t) = (s \o t)[1] /\ Head(s) = s[1] /\ (s \o t)[1] = s[1]
  BY <1>1, <1>2
<1> QED
  BY <1>2, <1>7, <1>8
-----------------------------------------------------------------------------
(* The messages of two regions, oldest first.                              *)
Queued(rA, rB) == Payload(rA) \o Payload(rB)

LEMMA LaidOutFacts ==
  ASSUME NEW M, Positive(M), NEW b, IsBuffer(b),
         NEW rA \in Region(M), NEW rB \in Region(M), LaidOut(b, rA, rB)
  PROVE  /\ b.a_start \in 0..Size /\ b.a_end \in 0..Size /\ b.b_end \in 0..Size
         /\ b.b_inuse \in {0, 1}
         /\ b.a_start <= b.a_end /\ b.b_end <= b.a_start
         /\ b.b_inuse = 1 \/ b.b_end = 0
         /\ b.b_inuse = 1 => Size < 2 * b.a_end
         /\ b.b_inuse = 1 \/ b.a_start <= Size - b.a_end
         /\ b.a_start = b.a_end => b.a_end = 0
         /\ rA = <<>> <=> b.a_start = b.a_end
         /\ rB = <<>> <=> b.b_end = 0
         /\ Payload(rA) \in Seq(M) /\ Payload(rB) \in Seq(M)
<1>1. /\ {b.a_start, b.a_end, b.b_end} \subseteq 0..Size /\ b.b_inuse \in {0, 1}
      /\ Laid(rA, b.a_start, b.a_end) /\ Laid(rB, 0, b.b_end) /\ PointersOK(b)
  BY DEF LaidOut, IsBuffer
<1>2. /\ rA = <<>> <=> b.a_start = b.a_end
      /\ rB = <<>> <=> b.b_end = 0
  BY <1>1, LaidOrder
<1>3. Payload(rA) \in Seq(M) /\ Payload(rB) \in Seq(M)
  BY PayloadType
<1> QED
  BY <1>1, <1>2, <1>3 DEF PointersOK, bipbuf_is_empty

(* The regions after an offer and after a poll.                            *)
GrownA(b, rA, m) == IF b.b_inuse = 1 THEN rA ELSE Append(rA, Placed(b.a_end, m))
GrownB(b, rB, m) == IF b.b_inuse = 1 THEN Append(rB, Placed(b.b_end, m)) ELSE rB
RestA(rA, rB) == IF Tail(rA) = <<>> THEN rB ELSE Tail(rA)
RestB(rA, rB) == IF Tail(rA) = <<>> THEN <<>> ELSE rB

(* An offer copies behind the last message of one region, clear of all     *)
(* others, and queues the message.                                         *)
LEMMA OfferLays ==
  ASSUME NEW M, Positive(M), NEW b, IsBuffer(b),
         NEW rA \in Region(M), NEW rB \in Region(M), LaidOut(b, rA, rB),
         NEW m \in M, Fits(b, m)
  PROVE  /\ IsBuffer(bipbuf_offer(b, m))
         /\ GrownA(b, rA, m) \in Region(M) /\ GrownB(b, rB, m) \in Region(M)
         /\ LaidOut(bipbuf_offer(b, m), GrownA(b, rA, m), GrownB(b, rB, m))
         /\ Queued(GrownA(b, rA, m), GrownB(b, rB, m)) = Append(Queued(rA, rB), m)
<1> DEFINE at == WriteOffset(b)
           r == bipbuf_offer(b, m)
           nA == GrownA(b, rA, m)
           nB == GrownB(b, rB, m)
<1>0. /\ nA = IF b.b_inuse = 1 THEN rA ELSE Append(rA, Placed(b.a_end, m))
      /\ nB = IF b.b_inuse = 1 THEN Append(rB, Placed(b.b_end, m)) ELSE rB
      /\ r = bipbuf_offer(b, m)
  BY DEF GrownA, GrownB
<1> SUFFICES /\ IsBuffer(r) /\ nA \in Region(M) /\ nB \in Region(M)
             /\ LaidOut(r, nA, nB)
             /\ Queued(nA, nB) = Append(Queued(rA, rB), m)
  OBVIOUS
<1> HIDE DEF r, nA, nB
<1>1. /\ PointersOK(b)
      /\ Laid(rA, b.a_start, b.a_end) /\ Laid(rB, 0, b.b_end)
      /\ InPlace(b.data, rA) /\ InPlace(b.data, rB)
  BY DEF LaidOut
<1>2. m.length \in Nat \ {0}
  BY DEF Positive
<1>3. /\ r = [a_start |-> r.a_start, a_end |-> r.a_end, b_end |-> r.b_end,
              b_inuse |-> r.b_inuse, data |-> r.data]
      /\ r.a_start = b.a_start
      /\ r.a_end = IF b.b_inuse = 1 THEN b.a_end ELSE b.a_end + m.length
      /\ r.b_end = IF b.b_inuse = 1 THEN b.b_end + m.length ELSE b.b_end
      /\ r.b_inuse \in {0, 1}
      /\ r.data = Memcpy(b.data, at, m)
      /\ {r.a_start, r.a_end, r.b_end} \subseteq 0..Size
      /\ PointersOK(r)
  BY <1>0, <1>1, <1>2, OfferEffect
<1>4. /\ {b.a_start, b.a_end, b.b_end} \subseteq 0..Size /\ b.b_inuse \in {0, 1}
      /\ \A s \in DOMAIN b.data : s \in 0..Size /\ b.data[s].length \in Nat \ {0}
  BY DEF IsBuffer
<1>5. at = IF b.b_inuse = 1 THEN b.b_end ELSE b.a_end
  BY DEF WriteOffset
<1> HIDE DEF at
<1>6. IsBuffer(r)
  <2>1. \A s \in DOMAIN r.data : s \in 0..Size /\ r.data[s].length \in Nat \ {0}
    BY <1>2, <1>3, <1>4, <1>5 DEF Memcpy
  <2>2. r.data = [s \in DOMAIN r.data |-> r.data[s]]
    BY <1>3 DEF Memcpy
  <2> QED
    BY <1>3, <2>1, <2>2 DEF IsBuffer
<1>7. at \in Int /\ at \in DOMAIN r.data /\ r.data[at] = m
  BY <1>3, <1>4, <1>5, MemcpyPlaces
<1>8. /\ \A i \in 1..Len(rA) : b.a_start <= rA[i].at /\ rA[i].at + rA[i].msg.length <= b.a_end
      /\ \A i \in 1..Len(rB) : rB[i].at + rB[i].msg.length <= b.b_end
  BY <1>1 DEF Laid
<1>9. Payload(rA) \in Seq(M) /\ Payload(rB) \in Seq(M)
  BY PayloadType
<1>10. CASE b.b_inuse = 1
  <2>1. /\ at = b.b_end /\ m.length <= b.a_start - b.b_end
        /\ nA = rA /\ nB = Append(rB, Placed(b.b_end, m))
        /\ r.a_end = b.a_end /\ r.b_end = b.b_end + m.length
    BY <1>0, <1>3, <1>5, <1>10 DEF Fits, bipbuf_unused
  <2>2. \A i \in 1..Len(rA) : at + m.length <= rA[i].at
    <3> TAKE i \in 1..Len(rA)
    <3>1. rA[i].at \in Int
      BY RegionElements
    <3> QED
      BY <1>2, <1>4, <1>8, <2>1, <3>1
  <2>3. InPlace(r.data, rA)
    BY <1>1, <1>3, <1>7, <2>2, MemcpyKeeps
  <2>4. InPlace(r.data, rB)
    BY <1>1, <1>3, <1>7, <1>8, <2>1, MemcpyKeeps
  <2>5. InPlace(r.data, nB)
    BY <1>7, <2>1, <2>4, InPlaceAppend
  <2>6. nB \in Region(M) /\ Laid(nB, 0, r.b_end)
    <3>1. 0 \in Int /\ b.b_end \in Int
      BY <1>4
    <3>2. /\ Append(rB, Placed(b.b_end, m)) \in Region(M)
          /\ Laid(Append(rB, Placed(b.b_end, m)), 0, b.b_end + m.length)
      BY <1>1, <3>1, LaidAppend
    <3> QED
      BY <2>1, <3>2
  <2>7. Payload(nB) = Append(Payload(rB), m)
    BY <1>4, <2>1, PayloadAppend
  <2>8. Append(Payload(rA) \o Payload(rB), m) = Payload(rA) \o Append(Payload(rB), m)
    <3>1. Payload(rA) \o Payload(rB) \in Seq(M) /\ <<m>> \in Seq(M)
      BY <1>9, ConcatProperties
    <3>2. /\ Append(Payload(rA) \o Payload(rB), m) = (Payload(rA) \o Payload(rB)) \o <<m>>
          /\ Append(Payload(rB), m) = Payload(rB) \o <<m>>
      BY <1>9, <3>1, AppendIsConcat
    <3>3. (Payload(rA) \o Payload(rB)) \o <<m>> = Payload(rA) \o (Payload(rB) \o <<m>>)
      BY <1>9, <3>1, ConcatAssociative
    <3> QED
      BY <3>2, <3>3
  <2>9. Queued(nA, nB) = Append(Queued(rA, rB), m)
    BY <2>1, <2>7, <2>8 DEF Queued
  <2> QED
    BY <1>1, <1>3, <1>6, <2>1, <2>3, <2>5, <2>6, <2>9 DEF LaidOut
<1>11. CASE b.b_inuse # 1
  <2>1. /\ at = b.a_end
        /\ nB = rB /\ nA = Append(rA, Placed(b.a_end, m))
        /\ r.b_end = b.b_end /\ r.a_end = b.a_end + m.length
    BY <1>0, <1>3, <1>5, <1>11
  <2>2. rB = <<>>
    BY <1>11, LaidOutFacts
  <2>3. InPlace(r.data, rB)
    BY <2>2 DEF InPlace
  <2>4. InPlace(r.data, rA)
    BY <1>1, <1>3, <1>7, <1>8, <2>1, MemcpyKeeps
  <2>5. InPlace(r.data, nA)
    BY <1>7, <2>1, <2>4, InPlaceAppend
  <2>6. nA \in Region(M) /\ Laid(nA, r.a_start, r.a_end)
    <3>1. b.a_start \in Int /\ b.a_end \in Int
      BY <1>4
    <3>2. /\ Append(rA, Placed(b.a_end, m)) \in Region(M)
          /\ Laid(Append(rA, Placed(b.a_end, m)), b.a_start, b.a_end + m.length)
      BY <1>1, <3>1, LaidAppend
    <3> QED
      BY <1>3, <2>1, <3>2
  <2>7. Payload(nA) = Append(Payload(rA), m) /\ Payload(rB) = <<>>
    BY <1>4, <2>1, <2>2, PayloadAppend, EmptyPayload
  <2>8. /\ Payload(rA) \o <<>> = Payload(rA)
        /\ Append(Payload(rA), m) \o <<>> = Append(Payload(rA), m)
    BY <1>9, AppendProperties, ConcatEmptySeq
  <2>9. Queued(nA, nB) = Append(Queued(rA, rB), m)
    BY <2>1, <2>7, <2>8 DEF Queued
  <2> QED
    BY <1>1, <1>3, <1>6, <2>1, <2>3, <2>5, <2>6, <2>9 DEF LaidOut
<1> QED
  BY <1>10, <1>11

(* A poll takes the first message of region A whole, whether its bytes are *)
(* forgotten or stay where they are.                                       *)
LEMMA PollLays ==
  ASSUME NEW M, Positive(M), NEW b, IsBuffer(b),
         NEW rA \in Region(M), NEW rB \in Region(M), LaidOut(b, rA, rB), rA # <<>>,
         NEW f, f \in {b, Forget(b, b.a_start)}
  PROVE  /\ IsBuffer(bipbuf_poll(f, Head(rA).msg.length))
         /\ RestA(rA, rB) \in Region(M) /\ RestB(rA, rB) \in Region(M)
         /\ LaidOut(bipbuf_poll(f, Head(rA).msg.length), RestA(rA, rB), RestB(rA, rB))
         /\ Head(rA).msg.length \in Nat \ {0} /\ b.a_start + Head(rA).msg.length <= b.a_end
         /\ b.a_start \in DOMAIN b.data /\ b.data[b.a_start] = Head(rA).msg
         /\ Queued(rA, rB) # <<>> /\ Head(Queued(rA, rB)) = Head(rA).msg
         /\ Queued(RestA(rA, rB), RestB(rA, rB)) = Tail(Queued(rA, rB))
         /\ bipbuf_used(bipbuf_poll(f, Head(rA).msg.length)) = bipbuf_used(b) - Head(rA).msg.length
<1> DEFINE length == Head(rA).msg.length
           rest == Tail(rA)
           r == bipbuf_poll(f, length)
           nA == RestA(rA, rB)
           nB == RestB(rA, rB)
<1>0. r = bipbuf_poll(f, length) /\ length = Head(rA).msg.length
  OBVIOUS
<1>1. /\ PointersOK(b)
      /\ Laid(rA, b.a_start, b.a_end) /\ Laid(rB, 0, b.b_end)
      /\ InPlace(b.data, rA) /\ InPlace(b.data, rB)
  BY DEF LaidOut
<1>2. /\ {b.a_start, b.a_end, b.b_end} \subseteq 0..Size
      /\ \A s \in DOMAIN b.data : s \in 0..Size /\ b.data[s].length \in Nat \ {0}
      /\ b.b_end <= b.a_start
  BY <1>1 DEF IsBuffer, PointersOK
<1>3. 1 \in 1..Len(rA) /\ Head(rA) = rA[1]
  BY DEF Region
<1>4. /\ length = rA[1].msg.length /\ length \in Nat \ {0} /\ rA[1].at = b.a_start
      /\ b.a_start + length <= b.a_end
      /\ b.a_start \in DOMAIN b.data /\ b.data[b.a_start] = Head(rA).msg
  <2>1. rA[1].msg.length \in Nat \ {0}
    BY <1>3, RegionElements
  <2> QED
    BY <1>1, <1>3, <2>1 DEF Laid, InPlace
<1>5. rest \in Region(M) /\ Laid(rest, b.a_start + length, b.a_end)
  BY <1>1, <1>2, <1>4, LaidTail
<1>6. InPlace(b.data, rest)
  BY <1>1, InPlaceTail
<1>7. Payload(rest) = Tail(Payload(rA)) /\ Head(Payload(rA)) = Head(rA).msg
  BY <1>3, PayloadTail
<1>8. /\ Payload(rA) # <<>> /\ Payload(rA) \in Seq(M)
      /\ Payload(rB) \in Seq(M) /\ Payload(rest) \in Seq(M)
  BY <1>5, PayloadType
<1>9. /\ Head(Queued(rA, rB)) = Head(rA).msg /\ Queued(rA, rB) # <<>>
      /\ Tail(Queued(rA, rB)) = Payload(rest) \o Payload(rB)
  BY <1>7, <1>8, TailOfConcat, ZenonT(40) DEF Queued
<1>10. nA = (IF rest = <<>> THEN rB ELSE rest) /\ nB = (IF rest = <<>> THEN <<>> ELSE rB)
  BY DEF RestA, RestB
<1> SUFFICES /\ IsBuffer(r) /\ nA \in Region(M) /\ nB \in Region(M)
             /\ LaidOut(r, nA, nB)
             /\ Queued(nA, nB) = Tail(Queued(rA, rB))
             /\ bipbuf_used(r) = bipbuf_used(b) - length
  BY <1>4, <1>9
<1> HIDE DEF length, rest, r, nA, nB
<1>11. rest = <<>> <=> b.a_start + length = b.a_end
  <2>1. b.a_start + length \in Int /\ b.a_end \in Int
    BY <1>2, <1>4
  <2> QED
    BY <1>5, <2>1, LaidOrder
<1>12. /\ r = [a_start |-> r.a_start, a_end |-> r.a_end, b_end |-> r.b_end,
               b_inuse |-> r.b_inuse, data |-> r.data]
       /\ r.data \in {b.data, Without(b.data, b.a_start)}
       /\ b.a_start + length # b.a_end =>
            r.a_start = b.a_start + length /\ r.a_end = b.a_end /\ r.b_end = b.b_end
       /\ b.a_start + length = b.a_end =>
            r.a_start = 0 /\ r.a_end = b.b_end /\ r.b_end = 0
       /\ r.b_inuse \in {0, 1}
       /\ {r.a_start, r.a_end, r.b_end} \subseteq 0..Size
       /\ PointersOK(r)
  BY <1>0, <1>1, <1>4, PollEffect
<1>13. IsBuffer(r)
  <2>1. b.data = [at \in DOMAIN b.data |-> b.data[at]]
    BY DEF IsBuffer
  <2> QED
    BY <1>2, <1>12, <2>1 DEF IsBuffer, Without
<1>14. InPlace(r.data, rB)
  <2>1. \A i \in 1..Len(rB) : rB[i].at # b.a_start
    <3> TAKE i \in 1..Len(rB)
    <3>1. rB[i].at \in Int /\ rB[i].msg.length \in Nat \ {0}
      BY RegionElements
    <3>2. rB[i].at + rB[i].msg.length <= b.b_end
      BY <1>1 DEF Laid
    <3> QED
      BY <1>2, <3>1, <3>2
  <2> QED
    BY <1>1, <1>12, <2>1, ForgetKeeps
<1>15. InPlace(r.data, rest)
  <2>1. \A i \in 1..Len(rest) : rest[i].at # b.a_start
    <3> TAKE i \in 1..Len(rest)
    <3>1. rest[i].at \in Int
      BY <1>5, RegionElements
    <3>2. b.a_start + length <= rest[i].at
      BY <1>5 DEF Laid
    <3> QED
      BY <1>2, <1>4, <3>1, <3>2
  <2> QED
    BY <1>5, <1>6, <1>12, <2>1, ForgetKeeps
<1>16. CASE rest = <<>>
  <2>1. nA = rB /\ nB = <<>>
    BY <1>10, <1>16
  <2>2. r.a_start = 0 /\ r.a_end = b.b_end /\ r.b_end = 0
    BY <1>11, <1>12, <1>16
  <2>3. <<>> \in Region(M) /\ Laid(<<>>, 0, 0) /\ InPlace(r.data, <<>>)
    BY DEF Region, Laid, InPlace
  <2>4. Payload(<<>>) = <<>>
    BY EmptyPayload
  <2>5. Payload(rB) \o <<>> = Payload(rB) /\ <<>> \o Payload(rB) = Payload(rB)
    BY <1>8, ConcatEmptySeq
  <2>6. Queued(nA, nB) = Tail(Queued(rA, rB))
    BY <1>9, <1>16, <2>1, <2>4, <2>5 DEF Queued
  <2>7. bipbuf_used(r) = b.b_end /\ bipbuf_used(b) = length + b.b_end
    BY <1>2, <1>4, <1>11, <1>16, <2>2 DEF bipbuf_used
  <2>8. bipbuf_used(r) = bipbuf_used(b) - length
    BY <1>2, <1>4, <2>7
  <2> QED
    BY <1>1, <1>4, <1>9, <1>12, <1>13, <1>14, <2>1, <2>2, <2>3, <2>6, <2>8 DEF LaidOut
<1>17. CASE rest # <<>>
  <2>1. nA = rest /\ nB = rB
    BY <1>10, <1>17
  <2>2. r.a_start = b.a_start + length /\ r.a_end = b.a_end /\ r.b_end = b.b_end
    BY <1>11, <1>12, <1>17
  <2>3. Queued(nA, nB) = Tail(Queued(rA, rB))
    BY <1>9, <2>1 DEF Queued
  <2>4. bipbuf_used(r) = bipbuf_used(b) - length
    BY <1>2, <1>4, <2>2 DEF bipbuf_used
  <2> QED
    BY <1>1, <1>4, <1>5, <1>9, <1>12, <1>13, <1>14, <1>15, <2>1, <2>2, <2>3, <2>4 DEF LaidOut
<1> QED
  BY <1>16, <1>17
-----------------------------------------------------------------------------
(* A buffer that holds the messages q, oldest first.                       *)
Holds(M, b, q) ==
  /\ IsBuffer(b)
  /\ \E rA, rB \in Region(M) : LaidOut(b, rA, rB) /\ q = Queued(rA, rB)

LEMMA InitLays == IsBuffer(bipbuf_init) /\ LaidOut(bipbuf_init, <<>>, <<>>)
<1>1. IsBuffer(bipbuf_init) /\ PointersOK(bipbuf_init)
  BY SizeAssumption DEF bipbuf_init, IsBuffer, PointersOK, NoData, bipbuf_is_empty
<1>2. bipbuf_init.a_start = 0 /\ bipbuf_init.a_end = 0 /\ bipbuf_init.b_end = 0
  BY DEF bipbuf_init
<1>3. Laid(<<>>, 0, 0) /\ InPlace(bipbuf_init.data, <<>>)
  BY DEF Laid, InPlace
<1> QED
  BY <1>1, <1>2, <1>3 DEF LaidOut

LEMMA InitHolds ==
  ASSUME NEW M, Positive(M)
  PROVE  Holds(M, bipbuf_init, <<>>)
<1>1. <<>> \in Region(M)
  BY DEF Region
<1>2. Queued(<<>>, <<>>) = <<>>
  BY EmptyPayload, ConcatEmptySeq DEF Queued
<1> QED
  BY <1>1, <1>2, InitLays DEF Holds

LEMMA HoldsFacts ==
  ASSUME NEW M, Positive(M), NEW b, NEW q, Holds(M, b, q)
  PROVE  /\ IsBuffer(b) /\ PointersOK(b)
         /\ q \in Seq(M)
         /\ bipbuf_is_empty(b) <=> q = <<>>
<1>1. PICK rA \in Region(M), rB \in Region(M) : LaidOut(b, rA, rB) /\ q = Queued(rA, rB)
  BY DEF Holds
<1>2. IsBuffer(b) /\ PointersOK(b)
  BY <1>1 DEF Holds, LaidOut
<1>3. /\ Payload(rA) \in Seq(M) /\ Payload(rB) \in Seq(M)
      /\ rA = <<>> <=> b.a_start = b.a_end
      /\ rB = <<>> <=> b.b_end = 0
      /\ b.a_start = b.a_end => b.b_end = 0
  <2>1. b.a_start = b.a_end => b.a_end = 0 /\ b.b_end <= b.a_start /\ b.b_end \in 0..Size
    BY <1>1, <1>2, LaidOutFacts
  <2>2. b.a_start = b.a_end => b.b_end = 0
    BY <2>1, SizeAssumption
  <2> QED
    BY <1>1, <1>2, <2>2, LaidOutFacts
<1>4. q \in Seq(M)
  BY <1>1, <1>3, ConcatProperties DEF Queued
<1>5. CASE rA = <<>>
  <2>1. q = <<>>
    BY <1>1, <1>3, <1>5, EmptyPayload, ConcatEmptySeq DEF Queued
  <2> QED
    BY <1>2, <1>3, <1>4, <1>5, <2>1 DEF bipbuf_is_empty
<1>6. CASE rA # <<>>
  <2>1. Payload(rA) # <<>>
    BY <1>6, PayloadType
  <2>2. q # <<>>
    BY <1>1, <1>3, <2>1, TailOfConcat DEF Queued
  <2> QED
    BY <1>2, <1>3, <1>4, <1>6, <2>2 DEF bipbuf_is_empty
<1> QED
  BY <1>5, <1>6

LEMMA OfferHolds ==
  ASSUME NEW M, Positive(M), NEW b, NEW q, Holds(M, b, q), NEW m \in M, Fits(b, m)
  PROVE  Holds(M, bipbuf_offer(b, m), Append(q, m))
<1>1. IsBuffer(b)
  BY DEF Holds
<1>2. PICK rA \in Region(M), rB \in Region(M) : LaidOut(b, rA, rB) /\ q = Queued(rA, rB)
  BY DEF Holds
<1>3. /\ IsBuffer(bipbuf_offer(b, m))
      /\ GrownA(b, rA, m) \in Region(M) /\ GrownB(b, rB, m) \in Region(M)
      /\ LaidOut(bipbuf_offer(b, m), GrownA(b, rA, m), GrownB(b, rB, m))
      /\ Queued(GrownA(b, rA, m), GrownB(b, rB, m)) = Append(q, m)
  BY <1>1, <1>2, OfferLays
<1> QED
  BY <1>3 DEF Holds

(* What a reader finds at the read cursor of a buffer that is not empty.   *)
LEMMA PollHolds ==
  ASSUME NEW M, Positive(M), NEW b, NEW q, Holds(M, b, q), ~bipbuf_is_empty(b),
         NEW f, f \in {b, Forget(b, b.a_start)}
  PROVE  /\ q \in Seq(M) /\ q # <<>> /\ Head(q) \in M
         /\ b.a_start \in DOMAIN b.data /\ b.data[b.a_start] = Head(q)
         /\ CanPoll(b, Head(q).length)
         /\ Holds(M, bipbuf_poll(f, Head(q).length), Tail(q))
<1>1. IsBuffer(b) /\ q \in Seq(M) /\ q # <<>>
  BY HoldsFacts
<1>2. PICK rA \in Region(M), rB \in Region(M) : LaidOut(b, rA, rB) /\ q = Queued(rA, rB)
  BY DEF Holds
<1>3. rA # <<>>
  BY <1>1, <1>2, LaidOutFacts DEF bipbuf_is_empty
<1>4. /\ IsBuffer(bipbuf_poll(f, Head(rA).msg.length))
      /\ RestA(rA, rB) \in Region(M) /\ RestB(rA, rB) \in Region(M)
      /\ LaidOut(bipbuf_poll(f, Head(rA).msg.length), RestA(rA, rB), RestB(rA, rB))
      /\ Head(rA).msg.length \in Nat \ {0} /\ b.a_start + Head(rA).msg.length <= b.a_end
      /\ b.a_start \in DOMAIN b.data /\ b.data[b.a_start] = Head(rA).msg
      /\ Head(Queued(rA, rB)) = Head(rA).msg
      /\ Queued(RestA(rA, rB), RestB(rA, rB)) = Tail(Queued(rA, rB))
  BY <1>1, <1>2, <1>3, PollLays, ZenonT(40)
<1>5. Head(rA).msg = Head(q) /\ Head(q) \in M
  BY <1>1, <1>2, <1>4, HeadTailProperties
<1>6. CanPoll(b, Head(q).length)
  <2>1. b.a_start \in 0..Size /\ b.a_end \in 0..Size
    BY <1>1 DEF IsBuffer
  <2> QED
    BY <1>4, <1>5, <2>1, SizeAssumption DEF CanPoll
<1>7. Holds(M, bipbuf_poll(f, Head(q).length), Tail(q))
  BY <1>2, <1>4, <1>5 DEF Holds
<1> QED
  BY <1>1, <1>4, <1>5, <1>6, <1>7
-----------------------------------------------------------------------------
(***************************************************************************)
(* 2. The Ringbuf class.  The cursors stay ordered, unread bytes are never *)
(* overwritten, and it implements the bounded message queue.               *)
(***************************************************************************)

RingInv ==
  /\ TypeOK
  /\ LayoutOK

LEMMA RingInvFacts ==
  ASSUME RingInv
  PROVE  /\ Positive(Messages) /\ IsBuffer(me)
         /\ regionA \in Region(Messages) /\ regionB \in Region(Messages)
         /\ LaidOut(me, regionA, regionB)
BY MessagesAssumption DEF RingInv, TypeOK, LayoutOK, Positive, Region

LEMMA RingInvFrom ==
  ASSUME NEW b, IsBuffer(b), NEW rA \in Region(Messages), NEW rB \in Region(Messages), LaidOut(b, rA, rB),
         me' = b, regionA' = rA, regionB' = rB
  PROVE  RingInv'
BY DEF RingInv, TypeOK, LayoutOK, Region

LEMMA InitRingInv == Init => RingInv
<1>1. <<>> \in Seq([at : Int, msg : Messages])
  OBVIOUS
<1> QED
  BY <1>1, InitLays DEF Init, RingInv, TypeOK, LayoutOK

LEMMA PushRingInv ==
  ASSUME RingInv, NEW m \in Messages, PushFits(m)
  PROVE  /\ RingInv'
         /\ Unread' = Append(Unread, m)
<1>1. /\ Fits(me, m) /\ me' = bipbuf_offer(me, m)
      /\ regionA' = GrownA(me, regionA, m) /\ regionB' = GrownB(me, regionB, m)
  BY DEF PushFits, GrownA, GrownB
<1>2. /\ IsBuffer(bipbuf_offer(me, m))
      /\ GrownA(me, regionA, m) \in Region(Messages) /\ GrownB(me, regionB, m) \in Region(Messages)
      /\ LaidOut(bipbuf_offer(me, m), GrownA(me, regionA, m), GrownB(me, regionB, m))
      /\ Queued(GrownA(me, regionA, m), GrownB(me, regionB, m)) = Append(Queued(regionA, regionB), m)
  BY <1>1, RingInvFacts, OfferLays
<1>3. RingInv'
  BY <1>1, <1>2, RingInvFrom
<1> QED
  BY <1>1, <1>2, <1>3 DEF Unread, Queued

LEMMA ShiftRingInv ==
  ASSUME RingInv, ShiftMessage
  PROVE  /\ RingInv'
         /\ Unread # <<>> /\ Unread' = Tail(Unread)
         /\ result' = Queue!Shifted(TRUE, Head(Unread))
         /\ bipbuf_used(me') = bipbuf_used(me) - Head(Unread).length
<1>1. /\ regionA # <<>>
      /\ me' = bipbuf_poll(Forget(me, me.a_start), Head(regionA).msg.length)
      /\ result' = Queue!Shifted(TRUE, BytesAt(me, me.a_start, Head(regionA).msg.length))
      /\ regionA' = RestA(regionA, regionB) /\ regionB' = RestB(regionA, regionB)
  BY DEF ShiftMessage, RestA, RestB
<1>2. Forget(me, me.a_start) \in {me, Forget(me, me.a_start)}
  OBVIOUS
<1>3. /\ IsBuffer(bipbuf_poll(Forget(me, me.a_start), Head(regionA).msg.length))
      /\ RestA(regionA, regionB) \in Region(Messages) /\ RestB(regionA, regionB) \in Region(Messages)
      /\ LaidOut(bipbuf_poll(Forget(me, me.a_start), Head(regionA).msg.length),
                 RestA(regionA, regionB), RestB(regionA, regionB))
      /\ me.a_start \in DOMAIN me.data /\ me.data[me.a_start] = Head(regionA).msg
      /\ Queued(regionA, regionB) # <<>> /\ Head(Queued(regionA, regionB)) = Head(regionA).msg
      /\ Queued(RestA(regionA, regionB), RestB(regionA, regionB)) = Tail(Queued(regionA, regionB))
      /\ bipbuf_used(bipbuf_poll(Forget(me, me.a_start), Head(regionA).msg.length))
           = bipbuf_used(me) - Head(regionA).msg.length
  BY <1>1, <1>2, RingInvFacts, PollLays, SMTT(20)
<1>4. RingInv'
  BY <1>1, <1>3, RingInvFrom
<1>5. BytesAt(me, me.a_start, Head(regionA).msg.length) = Head(regionA).msg
  BY <1>3 DEF BytesAt
<1>6. Unread' = Queued(RestA(regionA, regionB), RestB(regionA, regionB))
  BY <1>1 DEF Unread, Queued
<1> QED
  BY <1>1, <1>3, <1>4, <1>5, <1>6 DEF Unread, Queued

LEMMA NextRingInv ==
  ASSUME RingInv, [Next]_vars
  PROVE  RingInv'
<1>1. ASSUME NEW m \in Messages, PushFits(m) PROVE RingInv'
  BY <1>1, PushRingInv
<1>2. CASE ShiftMessage
  BY <1>2, ShiftRingInv
<1>3. ASSUME UNCHANGED <<me, regionA, regionB>> PROVE RingInv'
  BY <1>3, RingInvFacts, RingInvFrom
<1>4. ASSUME NEW m \in Messages, PushRefused(m) PROVE RingInv'
  BY <1>3, <1>4 DEF PushRefused
<1>5. CASE ShiftNothing
  BY <1>3, <1>5 DEF ShiftNothing
<1>6. CASE UNCHANGED vars
  BY <1>3, <1>6 DEF vars
<1> QED
  BY <1>1, <1>2, <1>4, <1>5, <1>6 DEF Next

LEMMA AlwaysRingInv == Spec => []RingInv
BY InitRingInv, NextRingInv, PTL DEF Spec

(* For every array size and all positive message lengths: the cursors stay *)
(* ordered inside the array, and the messages pushed and not yet shifted   *)
(* lie in it back to back, none of their bytes overwritten (bipbuffer.c).  *)
THEOREM Layout == Spec => [](TypeOK /\ LayoutOK)
BY AlwaysRingInv, PTL DEF RingInv
-----------------------------------------------------------------------------
LEMMA InitMaps == Init => Queue!Init
<1> SUFFICES ASSUME Init PROVE Queue!Init
  OBVIOUS
<1>1. me.a_start = 0 /\ me.a_end = 0 /\ me.b_end = 0
  BY DEF Init, bipbuf_init
<1>2. Unread = <<>>
  BY EmptyPayload, InitRingInv, RingInvFacts, ConcatEmptySeq DEF Unread, Init
<1> QED
  BY <1>1, <1>2 DEF Init, Queue!Init, bipbuf_used

(* The cursors of a buffer in use, for the arithmetic of the steps.        *)
LEMMA Cursors ==
  ASSUME RingInv
  PROVE  /\ me.a_start \in 0..Size /\ me.a_end \in 0..Size /\ me.b_end \in 0..Size
         /\ me.b_inuse \in {0, 1}
         /\ me.a_start <= me.a_end /\ me.b_end <= me.a_start
         /\ me.b_inuse = 1 \/ me.b_end = 0
         /\ me.b_inuse = 1 => Size < 2 * me.a_end
         /\ me.b_inuse = 1 \/ me.a_start <= Size - me.a_end
BY RingInvFacts, LaidOutFacts

LEMMA PushMaps ==
  ASSUME RingInv, NEW m \in Messages, PushFits(m)
  PROVE  Queue!Accept(m)
<1>1. m.length \in Nat \ {0}
  BY MessagesAssumption
<1>2. /\ me'.a_start = me.a_start
      /\ me'.a_end = IF me.b_inuse = 1 THEN me.a_end ELSE me.a_end + m.length
      /\ me'.b_end = IF me.b_inuse = 1 THEN me.b_end + m.length ELSE me.b_end
  BY <1>1, OfferEffect DEF PushFits, RingInv, TypeOK, LayoutOK, LaidOut
<1>3. m.length <= IF me.b_inuse = 1 THEN me.a_start - me.b_end ELSE Size - me.a_end
  BY DEF PushFits, Fits, bipbuf_unused
<1>4. bipbuf_used(me) + m.length <= Size
  BY <1>1, <1>3, Cursors, SizeAssumption DEF bipbuf_used
<1>5. bipbuf_used(me') = bipbuf_used(me) + m.length
  BY <1>1, <1>2, Cursors DEF bipbuf_used
<1> QED
  BY <1>4, <1>5, PushRingInv DEF PushFits, Queue!Accept

(* When B is in use A ends in the second half, so A and the message would  *)
(* fill it; otherwise there is at least as much room behind A as before it.*)
LEMMA RefusalMaps ==
  ASSUME RingInv, NEW m \in Messages, PushRefused(m)
  PROVE  Queue!Refuse(m)
<1>1. m.length \in Nat \ {0}
  BY MessagesAssumption
<1>2. m.length > IF me.b_inuse = 1 THEN me.a_start - me.b_end ELSE Size - me.a_end
  BY <1>1, Cursors, SizeAssumption DEF PushRefused, Fits, bipbuf_unused
<1>3. 2 * (bipbuf_used(me) + m.length) > Size
  <2>1. /\ me.a_start \in Int /\ me.a_end \in Int /\ me.b_end \in Int
        /\ me.a_start >= 0 /\ me.b_end >= 0 /\ me.a_start <= me.a_end
        /\ Size \in Int /\ m.length \in Int
    BY <1>1, Cursors, SizeAssumption
  <2>2. CASE me.b_inuse = 1
    <3>1. m.length > me.a_start - me.b_end /\ Size < 2 * me.a_end
      BY <1>2, <2>2, Cursors
    <3> QED
      BY ONLY <2>1, <3>1 DEF bipbuf_used
  <2>3. CASE me.b_inuse # 1
    <3>1. m.length > Size - me.a_end /\ me.a_start <= Size - me.a_end
      BY <1>2, <2>3, Cursors
    <3> QED
      BY ONLY <2>1, <3>1 DEF bipbuf_used
  <2> QED
    BY <2>2, <2>3
<1>4. UNCHANGED <<Unread, bipbuf_used(me)>>
  BY DEF PushRefused, Unread
<1> QED
  BY <1>3, <1>4 DEF PushRefused, Queue!Refuse

LEMMA ShiftMaps ==
  ASSUME RingInv, ShiftMessage
  PROVE  Queue!Take
BY ShiftRingInv DEF Queue!Take

LEMMA ShiftNothingMaps ==
  ASSUME RingInv, ShiftNothing
  PROVE  Queue!TakeNothing
<1>1. Holds(Messages, me, Unread)
  BY RingInvFacts DEF Holds, Unread, Queued
<1>2. Unread = <<>>
  BY <1>1, RingInvFacts, HoldsFacts DEF ShiftNothing
<1> QED
  BY <1>2 DEF ShiftNothing, Queue!TakeNothing, Unread

(* Every step of the ring buffer is a step of the queue, so pushed         *)
(* messages come out whole and in order, and a push is refused only when   *)
(* it would fill more than half of the array (raygun_ringbuf.c).           *)
THEOREM RingBufferImplementsQueue == Spec => ImplementsQueue
<1>1. ASSUME RingInv, [Next]_vars
      PROVE  [Queue!Next]_(Queue!queueVars)
  <2>1. ASSUME NEW m \in Messages, PushFits(m) PROVE Queue!Next
    BY <1>1, <2>1, PushMaps DEF Queue!Next
  <2>2. ASSUME NEW m \in Messages, PushRefused(m) PROVE Queue!Next
    BY <1>1, <2>2, RefusalMaps DEF Queue!Next
  <2>3. CASE ShiftMessage
    BY <1>1, <2>3, ShiftMaps DEF Queue!Next
  <2>4. CASE ShiftNothing
    BY <1>1, <2>4, ShiftNothingMaps DEF Queue!Next
  <2>5. CASE UNCHANGED vars
    BY <2>5 DEF vars, Queue!queueVars, Unread
  <2> QED
    BY <1>1, <2>1, <2>2, <2>3, <2>4, <2>5 DEF Next
<1> QED
  BY <1>1, InitMaps, AlwaysRingInv, PTL DEF Spec, ImplementsQueue, Queue!Spec
-----------------------------------------------------------------------------
(***************************************************************************)
(* 3. The batched sink.  Each branch of rb_rg_batched_sink is a run of     *)
(* few moves: a command is put into a batch, a message is shipped (the     *)
(* ring takes it or refuses it), a batch is discarded.  The lemmas say     *)
(* what each move does to the accounts, as facts about values; the steps   *)
(* of the sink compose them.                                               *)
(***************************************************************************)

Commands == [id : Nat, length : EventSizes]

SinkMessages == [kind : {"batch", "raw"}, sequence : Nat,
             events : Region(Commands), length : Nat \ {0}]

LEMMA CommandsArePositive == Positive(Commands)
BY SizesAssumption DEF Positive, Commands

LEMMA MessagesArePositive == Positive(SinkMessages)
BY DEF Positive, SinkMessages

(* A message is shipped: kept by the ring, or refused by it.               *)
Shipped(m, kept, refs, kept2, refs2) ==
  \/ kept2 = Append(kept, m) /\ refs2 = refs
  \/ kept2 = kept /\ refs2 = Append(refs, m)

LEMMA Appended ==
  ASSUME NEW s \in Seq(SinkMessages), NEW m \in SinkMessages
  PROVE  /\ Append(s, m) \in Seq(SinkMessages)
         /\ Len(s) \in Nat /\ Len(Append(s, m)) = Len(s) + 1
         /\ \A i \in 1..Len(s) : Append(s, m)[i] = s[i] /\ i \in 1..(Len(s) + 1)
         /\ Append(s, m)[Len(s) + 1] = m /\ Len(s) + 1 \in 1..(Len(s) + 1)
         /\ \A i \in 1..(Len(s) + 1) : i \in 1..Len(s) \/ i = Len(s) + 1
BY AppendProperties, LenProperties
-----------------------------------------------------------------------------
(* Numbers of batches.                                                     *)
Counted(n, kept, refs) ==
  /\ Numbers(kept) \cup Numbers(refs) = 0..(n - 1)
  /\ Numbers(kept) \cap Numbers(refs) = {}
  /\ NumbersIncrease(kept) /\ NumbersIncrease(refs)

LEMMA NumbersAppend ==
  ASSUME NEW s \in Seq(SinkMessages), NEW m \in SinkMessages
  PROVE  /\ m.kind = "batch" => Numbers(Append(s, m)) = Numbers(s) \cup {m.sequence}
         /\ m.kind # "batch" => Numbers(Append(s, m)) = Numbers(s)
<1> DEFINE t == Append(s, m)
<1>1. /\ Len(s) \in Nat /\ Len(t) = Len(s) + 1
      /\ \A i \in 1..Len(s) : t[i] = s[i] /\ i \in 1..Len(t)
      /\ t[Len(t)] = m /\ Len(t) \in 1..Len(t)
      /\ \A i \in 1..Len(t) : i \in 1..Len(s) \/ i = Len(t)
  BY Appended
<1> HIDE DEF t
<1>2. Numbers(s) \subseteq Numbers(t)
  BY <1>1 DEF Numbers
<1>3. m.kind = "batch" => m.sequence \in Numbers(t)
  BY <1>1 DEF Numbers
<1>4. ASSUME NEW n \in Numbers(t)
      PROVE  n \in Numbers(s) \/ (m.kind = "batch" /\ n = m.sequence)
  <2>1. PICK i \in 1..Len(t) : t[i].kind = "batch" /\ n = t[i].sequence
    BY DEF Numbers
  <2> QED
    BY <1>1, <2>1 DEF Numbers
<1> QED
  BY <1>2, <1>3, <1>4 DEF t

LEMMA IncreaseAppend ==
  ASSUME NEW s \in Seq(SinkMessages), NEW m \in SinkMessages, NumbersIncrease(s),
         m.kind = "batch" => \A n \in Numbers(s) : n < m.sequence
  PROVE  NumbersIncrease(Append(s, m))
<1> DEFINE t == Append(s, m)
<1>1. /\ Len(s) \in Nat /\ Len(t) = Len(s) + 1
      /\ \A i \in 1..Len(s) : t[i] = s[i]
      /\ t[Len(t)] = m
      /\ \A i \in 1..Len(t) : i \in 1..Len(s) \/ i = Len(t)
  BY Appended
<1> HIDE DEF t
<1>2. ASSUME NEW i \in 1..Len(t), NEW j \in 1..Len(t), i < j, t[i].kind = "batch", t[j].kind = "batch"
      PROVE  t[i].sequence < t[j].sequence
  <2>1. i \in 1..Len(s) /\ t[i] = s[i]
    BY <1>1, <1>2
  <2>2. CASE j \in 1..Len(s)
    BY <1>1, <1>2, <2>1, <2>2 DEF NumbersIncrease
  <2>3. CASE j = Len(t)
    <3>1. s[i].sequence \in Numbers(s)
      BY <1>2, <2>1 DEF Numbers
    <3>2. t[j] = m /\ m.kind = "batch"
      BY <1>1, <1>2, <2>3
    <3> QED
      BY <2>1, <3>1, <3>2
  <2> QED
    BY <1>1, <2>2, <2>3
<1> QED
  BY <1>2 DEF NumbersIncrease, t

(* A shipped batch takes the next number; a raw command takes none.        *)
LEMMA CountShipped ==
  ASSUME NEW n \in Nat, NEW k \in Seq(SinkMessages), NEW x \in Seq(SinkMessages), Counted(n, k, x),
         NEW m \in SinkMessages, m.kind = "batch" => m.sequence = n,
         NEW k2, NEW x2, Shipped(m, k, x, k2, x2)
  PROVE  Counted(IF m.kind = "batch" THEN n + 1 ELSE n, k2, x2)
<1>1. \A i \in Numbers(k) \cup Numbers(x) : i < n /\ i # n
  BY DEF Counted
<1>2. 0..(n + 1 - 1) = 0..(n - 1) \cup {n}
  OBVIOUS
<1>3. n \notin Numbers(k) /\ n \notin Numbers(x)
  BY <1>1
<1>4. CASE k2 = Append(k, m) /\ x2 = x
  <2>1. NumbersIncrease(k2)
    BY <1>1, <1>4, IncreaseAppend DEF Counted
  <2>2. CASE m.kind = "batch"
    <3>1. Numbers(k2) = Numbers(k) \cup {n}
      BY <1>4, <2>2, NumbersAppend
    <3> QED
      BY <1>2, <1>3, <1>4, <2>1, <2>2, <3>1 DEF Counted
  <2>3. CASE m.kind # "batch"
    <3>1. Numbers(k2) = Numbers(k)
      BY <1>4, <2>3, NumbersAppend
    <3> QED
      BY <1>4, <2>1, <2>3, <3>1 DEF Counted
  <2> QED
    BY <2>2, <2>3
<1>5. CASE k2 = k /\ x2 = Append(x, m)
  <2>1. NumbersIncrease(x2)
    BY <1>1, <1>5, IncreaseAppend DEF Counted
  <2>2. CASE m.kind = "batch"
    <3>1. Numbers(x2) = Numbers(x) \cup {n}
      BY <1>5, <2>2, NumbersAppend
    <3> QED
      BY <1>2, <1>3, <1>5, <2>1, <2>2, <3>1 DEF Counted
  <2>3. CASE m.kind # "batch"
    <3>1. Numbers(x2) = Numbers(x)
      BY <1>5, <2>3, NumbersAppend
    <3> QED
      BY <1>5, <2>1, <2>3, <3>1 DEF Counted
  <2> QED
    BY <2>2, <2>3
<1> QED
  BY <1>4, <1>5 DEF Shipped
-----------------------------------------------------------------------------
(* Layout of messages.                                                     *)
AllPacked(s) == \A i \in 1..Len(s) : WellPacked(s[i])

LEMMA PackedShipped ==
  ASSUME NEW k \in Seq(SinkMessages), NEW x, AllPacked(k), NEW m \in SinkMessages, WellPacked(m),
         NEW k2, NEW x2, Shipped(m, k, x, k2, x2)
  PROVE  AllPacked(k2)
<1>1. CASE k2 = k
  BY <1>1
<1>2. CASE k2 = Append(k, m)
  <2>1. ASSUME NEW i \in 1..Len(k2) PROVE WellPacked(k2[i])
    <3>1. /\ Len(k2) = Len(k) + 1 /\ (i \in 1..Len(k) \/ i = Len(k) + 1)
          /\ i \in 1..Len(k) => k2[i] = k[i]
          /\ i = Len(k) + 1 => k2[i] = m
      BY <1>2, Appended
    <3> QED
      BY <3>1 DEF AllPacked
  <2> QED
    BY <2>1 DEF AllPacked
<1> QED
  BY <1>1, <1>2 DEF Shipped
-----------------------------------------------------------------------------
(* Ids of the commands in a message or a batch with the commands evs.      *)
EventIds(evs) == {evs[i].msg.id : i \in 1..Len(evs)}

IdsAscend(evs) == \A i, j \in 1..Len(evs) : i < j => evs[i].msg.id < evs[j].msg.id

(* The accounts: each of the commands 1..n is in one message of the kept   *)
(* ones or of the refused ones, or in the pending batch evs, or among the  *)
(* discarded.  What is pending was encoded last.                           *)
Accounted(n, kept, refs, evs, gone) ==
  /\ IdsOf(kept) \cup IdsOf(refs) \cup EventIds(evs) \cup gone = 1..n
  /\ IdsOf(kept) \cap IdsOf(refs) = {}
  /\ (IdsOf(kept) \cup IdsOf(refs) \cup EventIds(evs)) \cap gone = {}
  /\ InOrder(kept) /\ InOrder(refs)
  /\ IdsAscend(evs)
  /\ \A a \in IdsOf(kept) \cup IdsOf(refs), b \in EventIds(evs) : a < b

LEMMA IdsAppend ==
  ASSUME NEW s \in Seq(SinkMessages), NEW m \in SinkMessages
  PROVE  IdsOf(Append(s, m)) = IdsOf(s) \cup Ids(m)
<1> DEFINE t == Append(s, m)
<1>1. /\ Len(s) \in Nat /\ Len(t) = Len(s) + 1
      /\ \A i \in 1..Len(s) : t[i] = s[i] /\ i \in 1..Len(t)
      /\ t[Len(t)] = m /\ Len(t) \in 1..Len(t)
      /\ \A i \in 1..Len(t) : i \in 1..Len(s) \/ i = Len(t)
  BY Appended
<1> HIDE DEF t
<1>2. ASSUME NEW a \in IdsOf(s) PROVE a \in IdsOf(t)
  <2>1. PICK i \in 1..Len(s) : a \in Ids(s[i])
    BY DEF IdsOf
  <2> QED
    BY <1>1, <2>1 DEF IdsOf
<1>3. Ids(m) \subseteq IdsOf(t)
  BY <1>1 DEF IdsOf
<1>4. ASSUME NEW a \in IdsOf(t) PROVE a \in IdsOf(s) \cup Ids(m)
  <2>1. PICK i \in 1..Len(t) : a \in Ids(t[i])
    BY DEF IdsOf
  <2> QED
    BY <1>1, <2>1 DEF IdsOf
<1> QED
  BY <1>2, <1>3, <1>4 DEF t

LEMMA OrderAppend ==
  ASSUME NEW s \in Seq(SinkMessages), NEW m \in SinkMessages
  PROVE  InOrder(Append(s, m)) <=>
           /\ InOrder(s) /\ IdsAscend(m.events)
           /\ \A a \in IdsOf(s), b \in Ids(m) : a < b
<1> DEFINE t == Append(s, m)
<1>1. /\ Len(s) \in Nat /\ Len(t) = Len(s) + 1
      /\ \A i \in 1..Len(s) : t[i] = s[i] /\ i \in 1..Len(t)
      /\ t[Len(t)] = m /\ Len(t) \in 1..Len(t)
      /\ \A i \in 1..Len(t) : i \in 1..Len(s) \/ i = Len(t)
  BY Appended
<1> HIDE DEF t
<1>2. Ascending(Packet(m)) <=> IdsAscend(m.events)
  <2>1. m.events \in Seq([at : Int, msg : Commands])
    BY DEF SinkMessages, Region
  <2>2. Len(m.events) \in Nat
    BY <2>1, LenProperties
  <2>3. Len(Packet(m)) = Len(m.events)
    BY <2>2 DEF Packet
  <2>4. \A i \in 1..Len(m.events) : Packet(m)[i] = m.events[i].msg.id
    BY DEF Packet
  <2> QED
    BY <2>3, <2>4 DEF Ascending, IdsAscend
<1>3. ASSUME InOrder(t)
      PROVE  /\ InOrder(s) /\ Ascending(Packet(m))
             /\ \A a \in IdsOf(s), b \in Ids(m) : a < b
  <2>1. Ascending(Packet(m))
    BY <1>1, <1>3 DEF InOrder
  <2>2. InOrder(s)
    BY <1>1, <1>3 DEF InOrder
  <2>3. ASSUME NEW a \in IdsOf(s), NEW b \in Ids(m) PROVE a < b
    <3>1. PICK i \in 1..Len(s) : a \in Ids(s[i])
      BY DEF IdsOf
    <3>2. i < Len(t)
      BY <1>1
    <3> QED
      BY <1>1, <1>3, <3>1, <3>2 DEF InOrder
  <2> QED
    BY <2>1, <2>2, <2>3
<1>4. ASSUME InOrder(s), Ascending(Packet(m)), \A a \in IdsOf(s), b \in Ids(m) : a < b
      PROVE  InOrder(t)
  <2>1. ASSUME NEW i \in 1..Len(t) PROVE Ascending(Packet(t[i]))
    BY <1>1, <1>4 DEF InOrder
  <2>2. ASSUME NEW i \in 1..Len(t), NEW j \in 1..Len(t), i < j, NEW a \in Ids(t[i]), NEW b \in Ids(t[j])
        PROVE  a < b
    <3>1. i \in 1..Len(s) /\ t[i] = s[i]
      BY <1>1, <2>2
    <3>2. a \in IdsOf(s)
      BY <2>2, <3>1 DEF IdsOf
    <3>3. CASE j = Len(t)
      <4>1. b \in Ids(m)
        BY <1>1, <2>2, <3>3
      <4> QED
        BY <1>4, <3>2, <4>1
    <3>4. CASE j \in 1..Len(s)
      <4>1. a \in Ids(s[i]) /\ b \in Ids(s[j])
        BY <1>1, <2>2, <3>1, <3>4
      <4> QED
        BY <1>4, <2>2, <3>1, <3>4, <4>1 DEF InOrder
    <3> QED
      BY <1>1, <3>3, <3>4
  <2> QED
    BY <2>1, <2>2 DEF InOrder
<1> QED
  BY <1>2, <1>3, <1>4 DEF t

(* A command is encoded into the pending batch.                            *)
LEMMA EventsPut ==
  ASSUME NEW evs \in Region(Commands), NEW at \in Int, NEW e \in Commands, NEW t,
         t = Append(evs, Placed(at, e))
  PROVE  /\ Len(evs) \in Nat /\ Len(t) = Len(evs) + 1
         /\ \A i \in 1..Len(evs) : t[i] = evs[i] /\ i \in 1..Len(t)
         /\ t[Len(t)].msg.id = e.id /\ Len(t) \in 1..Len(t)
         /\ \A i \in 1..Len(t) : i \in 1..Len(evs) \/ i = Len(t)
<1>1. Placed(at, e) \in [at : Int, msg : Commands] /\ Placed(at, e).msg.id = e.id
  BY DEF Placed
<1>2. evs \in Seq([at : Int, msg : Commands])
  BY DEF Region
<1>3. /\ Len(evs) \in Nat /\ Len(t) = Len(evs) + 1
      /\ \A i \in 1..Len(evs) : t[i] = evs[i]
      /\ t[Len(evs) + 1] = Placed(at, e)
  BY <1>1, <1>2, AppendProperties, LenProperties
<1> QED
  BY <1>1, <1>3

LEMMA PutIds ==
  ASSUME NEW evs \in Region(Commands), NEW at \in Int, NEW e \in Commands
  PROVE  EventIds(Append(evs, Placed(at, e))) = EventIds(evs) \cup {e.id}
<1> DEFINE t == Append(evs, Placed(at, e))
<1>0. t = Append(evs, Placed(at, e))
  OBVIOUS
<1> HIDE DEF t
<1>1. /\ Len(evs) \in Nat /\ Len(t) = Len(evs) + 1
      /\ \A i \in 1..Len(evs) : t[i] = evs[i] /\ i \in 1..Len(t)
      /\ t[Len(t)].msg.id = e.id /\ Len(t) \in 1..Len(t)
      /\ \A i \in 1..Len(t) : i \in 1..Len(evs) \/ i = Len(t)
  BY <1>0, EventsPut
<1>2. EventIds(evs) \subseteq EventIds(t)
  BY <1>1 DEF EventIds
<1>3. e.id \in EventIds(t)
  BY <1>1 DEF EventIds
<1>4. EventIds(t) \subseteq EventIds(evs) \cup {e.id}
  BY <1>1 DEF EventIds
<1> QED
  BY <1>2, <1>3, <1>4 DEF t

LEMMA AccountPut ==
  ASSUME NEW n \in Nat, NEW k, NEW x, NEW evs \in Region(Commands), NEW gone,
         Accounted(n, k, x, evs, gone), NEW at \in Int, NEW e \in Commands, e.id = n + 1
  PROVE  Accounted(n + 1, k, x, Append(evs, Placed(at, e)), gone)
<1> DEFINE t == Append(evs, Placed(at, e))
<1>0. t = Append(evs, Placed(at, e))
  OBVIOUS
<1> HIDE DEF t
<1>1. /\ Len(evs) \in Nat /\ Len(t) = Len(evs) + 1
      /\ \A i \in 1..Len(evs) : t[i] = evs[i] /\ i \in 1..Len(t)
      /\ t[Len(t)].msg.id = n + 1 /\ Len(t) \in 1..Len(t)
      /\ \A i \in 1..Len(t) : i \in 1..Len(evs) \/ i = Len(t)
  BY <1>0, EventsPut
<1>2. EventIds(t) = EventIds(evs) \cup {n + 1}
  BY <1>0, PutIds
<1>3. \A a \in IdsOf(k) \cup IdsOf(x) \cup EventIds(evs) \cup gone : a \in 1..n
  BY DEF Accounted
<1>4. IdsAscend(t)
  <2>1. ASSUME NEW i \in 1..Len(t), NEW j \in 1..Len(t), i < j
        PROVE  t[i].msg.id < t[j].msg.id
    <3>1. i \in 1..Len(evs) /\ t[i] = evs[i]
      BY <1>1, <2>1
    <3>2. CASE j \in 1..Len(evs)
      BY <1>1, <2>1, <3>1, <3>2 DEF Accounted, IdsAscend
    <3>3. CASE j = Len(t)
      <4>1. evs[i].msg.id \in 1..n
        BY <1>3, <3>1 DEF EventIds
      <4> QED
        BY <1>1, <3>1, <3>3, <4>1
    <3> QED
      BY <1>1, <3>2, <3>3
  <2> QED
    BY <2>1 DEF IdsAscend
<1>5. 1..(n + 1) = 1..n \cup {n + 1}
  OBVIOUS
<1>6. \A a \in IdsOf(k) \cup IdsOf(x), b \in EventIds(t) : a < b
  BY <1>2, <1>3 DEF Accounted
<1>7. n + 1 \notin gone
  BY <1>3
<1> QED
  BY <1>2, <1>4, <1>5, <1>6, <1>7 DEF Accounted, t

LEMMA NoEvents == EventIds(<<>>) = {} /\ IdsAscend(<<>>)
BY DEF EventIds, IdsAscend

(* The pending batch is shipped as the message m.                          *)
LEMMA AccountShip ==
  ASSUME NEW n \in Nat, NEW k \in Seq(SinkMessages), NEW x \in Seq(SinkMessages), NEW evs, NEW gone,
         Accounted(n, k, x, evs, gone), NEW m \in SinkMessages, m.events = evs,
         NEW k2, NEW x2, Shipped(m, k, x, k2, x2)
  PROVE  Accounted(n, k2, x2, <<>>, gone)
<1>1. Ids(m) = EventIds(evs)
  BY DEF Ids, EventIds
<1>2. \A a \in IdsOf(k) \cup IdsOf(x), b \in Ids(m) : a < b
  BY <1>1 DEF Accounted
<1>3. \A a \in IdsOf(k) \cup IdsOf(x) \cup Ids(m) : a \in 1..n
  BY <1>1 DEF Accounted
<1>4. \A a \in IdsOf(k) \cup IdsOf(x) : a \notin Ids(m)
  BY <1>2, <1>3
<1>5. CASE k2 = Append(k, m) /\ x2 = x
  <2>1. IdsOf(k2) = IdsOf(k) \cup Ids(m)
    BY <1>5, IdsAppend
  <2>2. InOrder(k2)
    BY <1>2, <1>5, OrderAppend DEF Accounted
  <2> QED
    BY <1>1, <1>4, <1>5, <2>1, <2>2, NoEvents DEF Accounted
<1>6. CASE k2 = k /\ x2 = Append(x, m)
  <2>1. IdsOf(x2) = IdsOf(x) \cup Ids(m)
    BY <1>6, IdsAppend
  <2>2. InOrder(x2)
    BY <1>2, <1>6, OrderAppend DEF Accounted
  <2> QED
    BY <1>1, <1>4, <1>6, <2>1, <2>2, NoEvents DEF Accounted
<1> QED
  BY <1>5, <1>6 DEF Shipped

(* The pending batch is reset.                                             *)
LEMMA AccountDiscard ==
  ASSUME NEW n \in Nat, NEW k, NEW x, NEW evs, NEW gone, Accounted(n, k, x, evs, gone)
  PROVE  Accounted(n, k, x, <<>>, gone \cup EventIds(evs))
<1>1. \A a \in IdsOf(k) \cup IdsOf(x) \cup EventIds(evs) : a \in Nat
  BY DEF Accounted
<1>2. \A a \in IdsOf(k) \cup IdsOf(x) : a \notin EventIds(evs)
  BY <1>1 DEF Accounted
<1> QED
  BY <1>2, NoEvents DEF Accounted
-----------------------------------------------------------------------------
BatchOK(b) ==
  /\ b = [length |-> b.length, events |-> b.events, sequence |-> b.sequence]
  /\ b.length \in Nat \ {0} /\ b.sequence \in Nat
  /\ b.events \in Region(Commands)
  /\ Laid(b.events, RG_BATCH_HEADLEN, b.length)

(* All accounts of a sink with the pending batch b.                        *)
Good(b, n, kept, refs, gone) ==
  /\ BatchOK(b)
  /\ n \in Nat /\ kept \in Seq(SinkMessages) /\ refs \in Seq(SinkMessages)
  /\ AllPacked(kept)
  /\ Counted(b.sequence, kept, refs)
  /\ Accounted(n, kept, refs, b.events, gone)

(* A command is encoded into a batch.                                      *)
LEMMA PutEffect ==
  ASSUME NEW b, BatchOK(b), NEW e \in Commands
  PROVE  /\ BatchOK(rg_encode_into_batch(b, e))
         /\ rg_encode_into_batch(b, e).length = b.length + e.length
         /\ rg_encode_into_batch(b, e).sequence = b.sequence
         /\ rg_encode_into_batch(b, e).events = Append(b.events, Placed(b.length, e))
         /\ EventIds(rg_encode_into_batch(b, e).events) = EventIds(b.events) \cup {e.id}
         /\ Len(rg_encode_into_batch(b, e).events) = Len(b.events) + 1
<1> DEFINE c == rg_encode_into_batch(b, e)
<1>0. c = rg_encode_into_batch(b, e)
  OBVIOUS
<1> HIDE DEF c
<1>1. /\ b = [length |-> b.length, events |-> b.events, sequence |-> b.sequence]
      /\ b.length \in Nat \ {0} /\ b.sequence \in Nat /\ b.events \in Region(Commands)
      /\ Laid(b.events, RG_BATCH_HEADLEN, b.length)
  BY DEF BatchOK
<1>2. e.length \in Nat \ {0}
  BY SizesAssumption DEF Commands
<1>3. /\ c = [length |-> c.length, events |-> c.events, sequence |-> c.sequence]
      /\ c.length = b.length + e.length /\ c.sequence = b.sequence
      /\ c.events = Append(b.events, Placed(b.length, e))
  BY <1>0, <1>1 DEF rg_encode_into_batch
<1>4. RG_BATCH_HEADLEN \in Int /\ b.length \in Int
  BY <1>1, SizesAssumption
<1>5. /\ Append(b.events, Placed(b.length, e)) \in Region(Commands)
      /\ Laid(Append(b.events, Placed(b.length, e)), RG_BATCH_HEADLEN, b.length + e.length)
  BY <1>1, <1>4, CommandsArePositive, LaidAppend
<1>6. EventIds(c.events) = EventIds(b.events) \cup {e.id}
  BY <1>1, <1>3, <1>4, PutIds
<1>7. Len(c.events) = Len(b.events) + 1
  <2>1. Placed(b.length, e) \in [at : Int, msg : Commands] /\ b.events \in Seq([at : Int, msg : Commands])
    BY <1>1, <1>4 DEF Placed, Region
  <2> QED
    BY <1>3, <2>1, AppendProperties
<1>8. BatchOK(c)
  BY <1>1, <1>2, <1>3, <1>5 DEF BatchOK
<1> QED
  BY <1>3, <1>6, <1>7, <1>8 DEF c

LEMMA PutGood ==
  ASSUME NEW b, NEW n, NEW k, NEW x, NEW gone, Good(b, n, k, x, gone),
         NEW e \in Commands, e.id = n + 1
  PROVE  Good(rg_encode_into_batch(b, e), n + 1, k, x, gone)
<1> DEFINE c == rg_encode_into_batch(b, e)
<1>1. /\ BatchOK(b) /\ b.events \in Region(Commands) /\ b.length \in Int
      /\ n \in Nat /\ k \in Seq(SinkMessages) /\ x \in Seq(SinkMessages) /\ AllPacked(k)
      /\ Counted(b.sequence, k, x) /\ Accounted(n, k, x, b.events, gone)
  BY DEF Good, BatchOK
<1>2. BatchOK(c) /\ c.sequence = b.sequence /\ c.events = Append(b.events, Placed(b.length, e))
  BY <1>1, PutEffect
<1> HIDE DEF c
<1>3. Accounted(n + 1, k, x, Append(b.events, Placed(b.length, e)), gone)
  <2> DEFINE evs == b.events
             at == b.length
  <2>1. n \in Nat /\ evs \in Region(Commands) /\ at \in Int /\ Accounted(n, k, x, evs, gone)
    BY <1>1
  <2> HIDE DEF evs, at
  <2>2. Accounted(n + 1, k, x, Append(evs, Placed(at, e)), gone)
    BY <2>1, AccountPut
  <2> QED
    BY <2>2 DEF evs, at
<1> QED
  BY <1>1, <1>2, <1>3 DEF Good, c

LEMMA EmptyRegion ==
  /\ <<>> \in Region(Commands)
  /\ Laid(<<>>, RG_BATCH_HEADLEN, RG_BATCH_HEADLEN)
BY DEF Region, Laid

(* A batch gets its header and is shipped.                                 *)
LEMMA ShipGood ==
  ASSUME NEW b, NEW n, NEW k, NEW x, NEW gone, Good(b, n, k, x, gone),
         b.length <= RG_BATCH_PACKET_SIZE \/ Len(b.events) = 1,
         NEW k2 \in Seq(SinkMessages), NEW x2 \in Seq(SinkMessages), Shipped(Batch(b), k, x, k2, x2),
         NEW c, c = spawn_new_batch(rg_encode_batch_header(b))
  PROVE  /\ Good(c, n, k2, x2, gone)
         /\ c.length = RG_BATCH_HEADLEN /\ c.events = <<>>
<1>1. /\ b = [length |-> b.length, events |-> b.events, sequence |-> b.sequence]
      /\ b.length \in Nat \ {0} /\ b.sequence \in Nat /\ b.events \in Region(Commands)
      /\ Laid(b.events, RG_BATCH_HEADLEN, b.length)
      /\ n \in Nat /\ k \in Seq(SinkMessages) /\ x \in Seq(SinkMessages) /\ AllPacked(k)
      /\ Counted(b.sequence, k, x) /\ Accounted(n, k, x, b.events, gone)
  BY DEF Good, BatchOK
<1> DEFINE m == Batch(b)
<1>2. /\ m \in SinkMessages /\ m.kind = "batch" /\ m.sequence = b.sequence
      /\ m.events = b.events /\ m.length = b.length
  BY <1>1 DEF Batch, SinkMessages
<1>3. Shipped(m, k, x, k2, x2)
  OBVIOUS
<1>4. WellPacked(m)
  BY <1>1, <1>2 DEF WellPacked
<1> HIDE DEF m
<1>5. AllPacked(k2)
  BY <1>1, <1>2, <1>3, <1>4, PackedShipped
<1>6. Counted(b.sequence + 1, k2, x2)
  BY <1>1, <1>2, <1>3, CountShipped
<1>7. Accounted(n, k2, x2, <<>>, gone)
  BY <1>1, <1>2, <1>3, AccountShip
<1>8. /\ c = [length |-> c.length, events |-> c.events, sequence |-> c.sequence]
      /\ c.length = RG_BATCH_HEADLEN /\ c.events = <<>> /\ c.sequence = b.sequence + 1
  BY <1>1 DEF spawn_new_batch, rg_encode_batch_header
<1>9. BatchOK(c)
  BY <1>1, <1>8, EmptyRegion, SizesAssumption DEF BatchOK
<1> QED
  BY <1>1, <1>5, <1>6, <1>7, <1>8, <1>9 DEF Good

(* A raw command is shipped and the pending batch reset.                   *)
LEMMA RawGood ==
  ASSUME NEW b, NEW n, NEW k, NEW x, NEW gone, Good(b, n, k, x, gone),
         NEW e \in Commands, e.id = n + 1,
         NEW k2 \in Seq(SinkMessages), NEW x2 \in Seq(SinkMessages), Shipped(Raw(e), k, x, k2, x2),
         NEW c, c = spawn_new_batch(b)
  PROVE  /\ Good(c, n + 1, k2, x2, gone \cup Ids(b))
         /\ c.length = RG_BATCH_HEADLEN /\ c.events = <<>>
<1>1. /\ b = [length |-> b.length, events |-> b.events, sequence |-> b.sequence]
      /\ b.length \in Nat \ {0} /\ b.sequence \in Nat /\ b.events \in Region(Commands)
      /\ Laid(b.events, RG_BATCH_HEADLEN, b.length)
      /\ n \in Nat /\ k \in Seq(SinkMessages) /\ x \in Seq(SinkMessages) /\ AllPacked(k)
      /\ Counted(b.sequence, k, x) /\ Accounted(n, k, x, b.events, gone)
  BY DEF Good, BatchOK
<1>2. e.length \in Nat \ {0}
  BY SizesAssumption DEF Commands
<1>3. 0 \in Int /\ <<>> \in Region(Commands) /\ Laid(<<>>, 0, 0)
  BY EmptyRegion DEF Laid
<1>4. /\ Append(<<>>, Placed(0, e)) \in Region(Commands)
      /\ Laid(Append(<<>>, Placed(0, e)), 0, 0 + e.length)
  BY <1>3, CommandsArePositive, LaidAppend
<1>5. Append(<<>>, Placed(0, e)) = <<Placed(0, e)>>
  OBVIOUS
<1>6. Ids(b) = EventIds(b.events)
  BY DEF Ids, EventIds
<1>7. Accounted(n, k, x, <<>>, gone \cup Ids(b))
  BY <1>1, <1>6, AccountDiscard
<1>8. Accounted(n + 1, k, x, <<Placed(0, e)>>, gone \cup Ids(b))
  <2> DEFINE evs == <<>>
             all == gone \cup Ids(b)
  <2>1. n \in Nat /\ evs \in Region(Commands) /\ 0 \in Int /\ Accounted(n, k, x, evs, all)
    BY <1>1, <1>3, <1>7
  <2> HIDE DEF evs, all
  <2>2. Accounted(n + 1, k, x, Append(evs, Placed(0, e)), all)
    BY <2>1, AccountPut
  <2> QED
    BY <1>5, <2>2 DEF evs, all
<1> DEFINE m == Raw(e)
<1>9. m \in SinkMessages /\ m.kind = "raw" /\ m.events = <<Placed(0, e)>> /\ m.length = e.length
  BY <1>2, <1>4, <1>5 DEF Raw, SinkMessages
<1>10. WellPacked(m)
  BY <1>2, <1>4, <1>5, <1>9 DEF WellPacked
<1>11. Shipped(m, k, x, k2, x2)
  OBVIOUS
<1> HIDE DEF m
<1>12. AllPacked(k2)
  BY <1>1, <1>9, <1>10, <1>11, PackedShipped
<1>13. Counted(b.sequence, k2, x2)
  BY <1>1, <1>9, <1>11, CountShipped
<1>14. Accounted(n + 1, k2, x2, <<>>, gone \cup Ids(b))
  <2>1. n + 1 \in Nat
    BY <1>1
  <2> QED
    BY <1>1, <1>8, <1>9, <1>11, <2>1, AccountShip
<1>15. /\ c = [length |-> c.length, events |-> c.events, sequence |-> c.sequence]
       /\ c.length = RG_BATCH_HEADLEN /\ c.events = <<>> /\ c.sequence = b.sequence
  BY <1>1 DEF spawn_new_batch
<1>16. BatchOK(c)
  BY <1>1, <1>15, EmptyRegion, SizesAssumption DEF BatchOK
<1> QED
  BY <1>1, <1>12, <1>13, <1>14, <1>15, <1>16 DEF Good
-----------------------------------------------------------------------------
(* The messages of a concatenation.                                        *)
LEMMA IdsConcat ==
  ASSUME NEW s \in Seq(SinkMessages), NEW t \in Seq(SinkMessages)
  PROVE  /\ IdsOf(s) \subseteq IdsOf(s \o t) /\ IdsOf(t) \subseteq IdsOf(s \o t)
         /\ InOrder(s \o t) => \A a \in IdsOf(s), b \in IdsOf(t) : a < b
<1> DEFINE u == s \o t
<1>1. /\ Len(s) \in Nat /\ Len(t) \in Nat /\ Len(u) = Len(s) + Len(t)
      /\ \A i \in 1..Len(s) : i \in 1..Len(u) /\ u[i] = s[i]
      /\ \A i \in 1..Len(t) : Len(s) + i \in 1..Len(u) /\ u[Len(s) + i] = t[i]
  <2>1. /\ Len(s) \in Nat /\ Len(t) \in Nat /\ Len(u) = Len(s) + Len(t)
        /\ \A i \in 1..(Len(s) + Len(t)) : u[i] = IF i <= Len(s) THEN s[i] ELSE t[i - Len(s)]
    BY ConcatProperties, LenProperties
  <2> HIDE DEF u
  <2> QED
    BY <2>1
<1> HIDE DEF u
<1>2. ASSUME NEW a \in IdsOf(s)
      PROVE  \E i \in 1..Len(s) : i \in 1..Len(u) /\ a \in Ids(u[i])
  BY <1>1, <1>2 DEF IdsOf
<1>3. ASSUME NEW b \in IdsOf(t)
      PROVE  \E i \in 1..Len(u) : Len(s) < i /\ b \in Ids(u[i])
  <2>1. PICK i \in 1..Len(t) : b \in Ids(t[i])
    BY <1>3 DEF IdsOf
  <2>2. Len(s) + i \in 1..Len(u) /\ u[Len(s) + i] = t[i] /\ Len(s) < Len(s) + i
    BY <1>1
  <2> QED
    BY <2>1, <2>2
<1>4. IdsOf(s) \subseteq IdsOf(u) /\ IdsOf(t) \subseteq IdsOf(u)
  BY <1>2, <1>3 DEF IdsOf
<1>5. ASSUME InOrder(u), NEW a \in IdsOf(s), NEW b \in IdsOf(t)
      PROVE  a < b
  <2>1. PICK i \in 1..Len(s) : i \in 1..Len(u) /\ a \in Ids(u[i])
    BY <1>2
  <2>2. PICK j \in 1..Len(u) : Len(s) < j /\ b \in Ids(u[j])
    BY <1>3
  <2>3. i < j
    BY <1>1, <2>2
  <2> QED
    BY <1>5, <2>1, <2>2, <2>3 DEF InOrder
<1> QED
  BY <1>4, <1>5 DEF u

LEMMA IdsTail ==
  ASSUME NEW s \in Seq(SinkMessages), s # <<>>
  PROVE  IdsOf(s) = Ids(Head(s)) \cup IdsOf(Tail(s))
<1> DEFINE t == Tail(s)
<1>1. /\ Len(s) \in Nat \ {0} /\ Len(t) = Len(s) - 1 /\ Head(s) = s[1]
      /\ \A i \in 1..Len(t) : t[i] = s[i + 1]
  BY HeadTailProperties, EmptySeq
<1> HIDE DEF t
<1>2. 1 \in 1..Len(s) /\ \A i \in 1..Len(t) : i + 1 \in 1..Len(s)
  BY <1>1
<1>3. ASSUME NEW a \in IdsOf(s) PROVE a \in Ids(Head(s)) \cup IdsOf(t)
  <2>1. PICK i \in 1..Len(s) : a \in Ids(s[i])
    BY <1>3 DEF IdsOf
  <2>2. CASE i = 1
    BY <1>1, <2>1, <2>2
  <2>3. CASE i # 1
    <3>1. i - 1 \in 1..Len(t) /\ i - 1 + 1 = i
      BY <1>1, <2>3
    <3>2. a \in Ids(t[i - 1])
      BY <1>1, <2>1, <3>1
    <3> QED
      BY <3>1, <3>2 DEF IdsOf
  <2> QED
    BY <2>2, <2>3
<1>4. Ids(Head(s)) \subseteq IdsOf(s)
  BY <1>1, <1>2 DEF IdsOf
<1>5. ASSUME NEW a \in IdsOf(t) PROVE a \in IdsOf(s)
  <2>1. PICK i \in 1..Len(t) : a \in Ids(t[i])
    BY <1>5 DEF IdsOf
  <2>2. a \in Ids(s[i + 1]) /\ i + 1 \in 1..Len(s)
    BY <1>1, <1>2, <2>1
  <2> QED
    BY <2>2 DEF IdsOf
<1> QED
  BY <1>3, <1>4, <1>5 DEF t
-----------------------------------------------------------------------------
(* The ring after an offer: it took the message or refused it.             *)
RingOK(r) ==
  /\ r = [me |-> r.me, queued |-> r.queued, refused |-> r.refused]
  /\ Holds(SinkMessages, r.me, r.queued)
  /\ r.queued \in Seq(SinkMessages) /\ r.refused \in Seq(SinkMessages)

LEMMA OfferedFacts ==
  ASSUME NEW r, RingOK(r), NEW p \in Seq(SinkMessages), NEW m \in SinkMessages
  PROVE  /\ RingOK(Offered(r, m))
         /\ p \o Offered(r, m).queued \in Seq(SinkMessages)
         /\ Shipped(m, p \o r.queued, r.refused,
                       p \o Offered(r, m).queued, Offered(r, m).refused)
         /\ IdsOf(Offered(r, m).queued) \subseteq IdsOf(r.queued) \cup Ids(m)
<1> DEFINE o == Offered(r, m)
<1>1. /\ r = [me |-> r.me, queued |-> r.queued, refused |-> r.refused]
      /\ Holds(SinkMessages, r.me, r.queued)
      /\ r.queued \in Seq(SinkMessages) /\ r.refused \in Seq(SinkMessages)
  BY DEF RingOK
<1>2. CASE Fits(r.me, m)
  <2>1. /\ o = [me |-> bipbuf_offer(r.me, m), queued |-> Append(r.queued, m), refused |-> r.refused]
    BY <1>1, <1>2 DEF Offered
  <2> HIDE DEF o
  <2>2. o.me = bipbuf_offer(r.me, m) /\ o.queued = Append(r.queued, m) /\ o.refused = r.refused
    BY <2>1
  <2>3. Append(r.queued, m) \in Seq(SinkMessages)
    BY <1>1, Appended
  <2>4. Holds(SinkMessages, o.me, o.queued)
    BY <1>1, <1>2, <2>2, OfferHolds, MessagesArePositive
  <2>5. RingOK(o)
    BY <1>1, <2>1, <2>2, <2>3, <2>4 DEF RingOK
  <2>6. p \o o.queued = Append(p \o r.queued, m) /\ p \o r.queued \in Seq(SinkMessages)
    <3>1. <<m>> \in Seq(SinkMessages)
      OBVIOUS
    <3>2. Append(r.queued, m) = r.queued \o <<m>>
      BY <1>1, AppendIsConcat
    <3>3. p \o r.queued \in Seq(SinkMessages)
      BY <1>1, ConcatProperties
    <3>4. Append(p \o r.queued, m) = (p \o r.queued) \o <<m>>
      BY <3>3, AppendIsConcat
    <3> QED
      BY <1>1, <2>2, <3>1, <3>2, <3>3, <3>4, ConcatAssociative
  <2>7. IdsOf(o.queued) = IdsOf(r.queued) \cup Ids(m)
    BY <1>1, <2>2, IdsAppend
  <2>8. p \o o.queued \in Seq(SinkMessages)
    BY <2>6, Appended
  <2> QED
    BY <2>2, <2>5, <2>6, <2>7, <2>8 DEF Shipped, o
<1>3. CASE ~Fits(r.me, m)
  <2>1. o = [me |-> r.me, queued |-> r.queued, refused |-> Append(r.refused, m)]
    BY <1>1, <1>3 DEF Offered
  <2> HIDE DEF o
  <2>2. o.me = r.me /\ o.queued = r.queued /\ o.refused = Append(r.refused, m)
    BY <2>1
  <2>3. Append(r.refused, m) \in Seq(SinkMessages)
    BY <1>1, Appended
  <2>4. RingOK(o)
    BY <1>1, <2>1, <2>2, <2>3 DEF RingOK
  <2>5. p \o r.queued \in Seq(SinkMessages)
    BY <1>1, ConcatProperties
  <2> QED
    BY <2>2, <2>4, <2>5 DEF Shipped, o
<1> QED
  BY <1>2, <1>3
-----------------------------------------------------------------------------
(* The invariant of the sink: the accounts of the pending batch, which     *)
(* fits a packet, with the messages polled and those lying in the ring.    *)
SinkInv ==
  /\ Good(batch, encoded, Kept, refused, discarded)
  /\ batch.length <= RG_BATCH_PACKET_SIZE
  /\ Holds(SinkMessages, ring, queued)
  /\ polled \in Seq(SinkMessages)

LEMMA SinkFacts ==
  ASSUME SinkInv
  PROVE  /\ queued \in Seq(SinkMessages) /\ polled \in Seq(SinkMessages) /\ refused \in Seq(SinkMessages)
         /\ Kept \in Seq(SinkMessages)
         /\ RingOK(Now)
         /\ Now.me = ring /\ Now.queued = queued /\ Now.refused = refused
         /\ Now \in [me : {ring}, queued : Seq(SinkMessages), refused : Seq(SinkMessages)]
         /\ Batch(batch) \in SinkMessages
         /\ Ids(Batch(batch)) = Ids(batch) /\ Ids(batch) = EventIds(batch.events)
         /\ Batch(batch).events = batch.events
<1>1. queued \in Seq(SinkMessages)
  BY HoldsFacts, MessagesArePositive DEF SinkInv
<1>2. refused \in Seq(SinkMessages) /\ Kept \in Seq(SinkMessages) /\ polled \in Seq(SinkMessages)
  BY DEF SinkInv, Good
<1>3. Now.me = ring /\ Now.queued = queued /\ Now.refused = refused
  BY DEF Now
<1>4. RingOK(Now)
  BY <1>1, <1>2, <1>3 DEF RingOK, SinkInv, Now
<1>5. Batch(batch) \in SinkMessages
  BY DEF SinkInv, Good, BatchOK, Batch, SinkMessages
<1>6. /\ Ids(Batch(batch)) = Ids(batch) /\ Ids(batch) = EventIds(batch.events)
      /\ Batch(batch).events = batch.events
  BY DEF Ids, EventIds, Batch
<1>7. Now \in [me : {ring}, queued : Seq(SinkMessages), refused : Seq(SinkMessages)]
  BY <1>1, <1>2 DEF Now
<1> QED
  BY <1>1, <1>2, <1>3, <1>4, <1>5, <1>6, <1>7

LEMMA InitSinkInv ==
  ASSUME InitBatchedSink
  PROVE  SinkInv /\ InFlight = {}
<1>1. /\ batch = InitBatch /\ ring = bipbuf_init /\ encoded = 0 /\ queued = <<>>
      /\ polled = <<>> /\ refused = <<>> /\ discarded = {}
  BY DEF InitBatchedSink
<1>2. batch.length = RG_BATCH_HEADLEN /\ batch.events = <<>> /\ batch.sequence = 0
  BY <1>1 DEF InitBatch
<1>3. BatchOK(batch) /\ batch.length <= RG_BATCH_PACKET_SIZE
  BY <1>1, <1>2, EmptyRegion, SizesAssumption DEF BatchOK, InitBatch
<1>4. Holds(SinkMessages, ring, queued)
  BY <1>1, InitHolds, MessagesArePositive
<1>5. <<>> \in Seq(SinkMessages) /\ Kept = <<>> /\ Len(Kept) = 0
  BY <1>1, ConcatEmptySeq DEF Kept
<1>6. IdsOf(<<>>) = {} /\ Numbers(<<>>) = {}
  BY DEF IdsOf, Numbers
<1>7. NumbersIncrease(<<>>) /\ InOrder(<<>>) /\ AllPacked(<<>>)
  BY DEF NumbersIncrease, InOrder, AllPacked
<1>8. Counted(0, <<>>, <<>>)
  BY <1>6, <1>7 DEF Counted
<1>9. Accounted(0, <<>>, <<>>, <<>>, {})
  BY <1>6, <1>7, NoEvents DEF Accounted
<1>10. Good(batch, encoded, Kept, refused, discarded)
  BY <1>1, <1>2, <1>3, <1>5, <1>7, <1>8, <1>9 DEF Good
<1>11. Ids(batch) = {}
  BY <1>2 DEF Ids
<1> QED
  BY <1>1, <1>3, <1>4, <1>5, <1>6, <1>10, <1>11 DEF SinkInv, InFlight

(* What a step of the sink leaves to prove once the moves are composed.    *)
LEMMA SinkInvAfter ==
  ASSUME UNCHANGED polled, polled \in Seq(SinkMessages),
         Good(batch', encoded', polled \o queued', refused', discarded'),
         batch'.length <= RG_BATCH_PACKET_SIZE,
         Holds(SinkMessages, ring', queued')
  PROVE  SinkInv'
BY DEF SinkInv, Kept

LEMMA OfferInv ==
  ASSUME SinkInv, NEW m \in SinkMessages, Offer(m)
  PROVE  /\ Holds(SinkMessages, ring', queued')
         /\ polled \o queued' \in Seq(SinkMessages) /\ refused' \in Seq(SinkMessages)
         /\ Shipped(m, Kept, refused, polled \o queued', refused')
         /\ IdsOf(queued') \subseteq IdsOf(queued) \cup Ids(m)
<1> DEFINE o == Offered(Now, m)
<1>1. ring' = o.me /\ queued' = o.queued /\ refused' = o.refused
  BY DEF Offer, Becomes
<1>2. /\ RingOK(o)
      /\ polled \o o.queued \in Seq(SinkMessages)
      /\ Shipped(m, polled \o queued, refused, polled \o o.queued, o.refused)
      /\ IdsOf(o.queued) \subseteq IdsOf(queued) \cup Ids(m)
  BY SinkFacts, OfferedFacts
<1> HIDE DEF o
<1> QED
  BY <1>1, <1>2 DEF RingOK, Kept

LEMMA OfferBothInv ==
  ASSUME SinkInv, NEW m1 \in SinkMessages, NEW m2 \in SinkMessages, OfferBoth(m1, m2)
  PROVE  /\ Holds(SinkMessages, ring', queued')
         /\ polled \o queued' \in Seq(SinkMessages) /\ refused' \in Seq(SinkMessages)
         /\ IdsOf(queued') \subseteq IdsOf(queued) \cup Ids(m1) \cup Ids(m2)
         /\ \E k \in Seq(SinkMessages), x \in Seq(SinkMessages) :
              /\ Shipped(m1, Kept, refused, k, x)
              /\ Shipped(m2, k, x, polled \o queued', refused')
<1> DEFINE o1 == Offered(Now, m1)
           o2 == Offered(o1, m2)
<1>1. ring' = o2.me /\ queued' = o2.queued /\ refused' = o2.refused
  BY DEF OfferBoth, Becomes
<1>2. /\ RingOK(o1)
      /\ polled \o o1.queued \in Seq(SinkMessages)
      /\ Shipped(m1, polled \o queued, refused, polled \o o1.queued, o1.refused)
      /\ IdsOf(o1.queued) \subseteq IdsOf(queued) \cup Ids(m1)
  BY SinkFacts, OfferedFacts
<1>3. polled \in Seq(SinkMessages)
  BY SinkFacts
<1> HIDE DEF o1
<1>4. /\ RingOK(o2)
      /\ polled \o o2.queued \in Seq(SinkMessages)
      /\ Shipped(m2, polled \o o1.queued, o1.refused, polled \o o2.queued, o2.refused)
      /\ IdsOf(o2.queued) \subseteq IdsOf(o1.queued) \cup Ids(m2)
  BY <1>2, <1>3, OfferedFacts
<1> HIDE DEF o2
<1>5. o1.refused \in Seq(SinkMessages)
  BY <1>2 DEF RingOK
<1> QED
  BY <1>1, <1>2, <1>4, <1>5 DEF RingOK, Kept
-----------------------------------------------------------------------------
LEMMA AppendInv ==
  ASSUME SinkInv, NEW e \in Commands, e.id = encoded + 1, encoded' = encoded + 1,
         UNCHANGED polled, AppendToBatch(e)
  PROVE  /\ SinkInv' /\ InFlight' \subseteq InFlight \cup {encoded + 1}
         /\ Ids(batch)' \subseteq Ids(batch) \cup {encoded + 1}
<1>1. /\ batch' = rg_encode_into_batch(batch, e)
      /\ UNCHANGED <<ring, queued, refused, discarded>>
      /\ batch.length + e.length <= RG_BATCH_PACKET_SIZE
  BY DEF AppendToBatch, RoomInBatch
<1>2. /\ Good(batch', encoded + 1, Kept, refused, discarded)
      /\ batch'.length = batch.length + e.length
      /\ EventIds(batch'.events) = EventIds(batch.events) \cup {encoded + 1}
  <2>1. Good(batch, encoded, Kept, refused, discarded) /\ BatchOK(batch)
    BY DEF SinkInv, Good
  <2> QED
    BY <1>1, <2>1, PutGood, PutEffect
<1>3. Good(batch', encoded', polled \o queued', refused', discarded')
  BY <1>1, <1>2 DEF Kept
<1>4. SinkInv'
  BY <1>1, <1>2, <1>3, SinkInvAfter DEF SinkInv
<1>5. Ids(batch)' = EventIds(batch'.events) /\ Ids(batch) = EventIds(batch.events)
  BY DEF Ids, EventIds
<1> QED
  BY <1>1, <1>2, <1>4, <1>5 DEF InFlight

LEMMA DispatchInv ==
  ASSUME SinkInv, NEW e \in Commands, e.id = encoded + 1, encoded' = encoded + 1,
         UNCHANGED polled, DispatchThenAppend(e)
  PROVE  /\ SinkInv' /\ InFlight' \subseteq InFlight \cup {encoded + 1}
         /\ Ids(batch)' \subseteq Ids(batch) \cup {encoded + 1}
<1> DEFINE c == spawn_new_batch(rg_encode_batch_header(batch))
<1>1. /\ batch' = rg_encode_into_batch(c, e)
      /\ Offer(Batch(batch))
      /\ UNCHANGED discarded
      /\ RG_BATCH_HEADLEN + e.length <= RG_BATCH_PACKET_SIZE
  BY DEF DispatchThenAppend, RoomInNewBatch
<1>2. /\ Holds(SinkMessages, ring', queued')
      /\ polled \o queued' \in Seq(SinkMessages) /\ refused' \in Seq(SinkMessages)
      /\ Shipped(Batch(batch), Kept, refused, polled \o queued', refused')
      /\ IdsOf(queued') \subseteq IdsOf(queued) \cup Ids(batch)
  BY <1>1, OfferInv, SinkFacts
<1>3. /\ Good(c, encoded, polled \o queued', refused', discarded)
      /\ c.length = RG_BATCH_HEADLEN /\ c.events = <<>>
  BY <1>2, ShipGood DEF SinkInv
<1> HIDE DEF c
<1>4. /\ Good(batch', encoded + 1, polled \o queued', refused', discarded)
      /\ batch'.length = c.length + e.length
      /\ EventIds(batch'.events) = EventIds(c.events) \cup {encoded + 1}
  <2>1. BatchOK(c)
    BY <1>3 DEF Good
  <2> QED
    BY <1>1, <1>3, <2>1, PutGood, PutEffect
<1>5. EventIds(batch'.events) = {encoded + 1}
  BY <1>3, <1>4, NoEvents
<1>6. SinkInv'
  BY <1>1, <1>2, <1>3, <1>4, SinkFacts, SinkInvAfter
<1>7. Ids(batch)' = EventIds(batch'.events)
  BY DEF Ids, EventIds
<1> QED
  BY <1>2, <1>5, <1>6, <1>7 DEF InFlight

LEMMA RawInv ==
  ASSUME SinkInv, NEW e \in Commands, e.id = encoded + 1, encoded' = encoded + 1,
         UNCHANGED polled, OfferRaw(e)
  PROVE  /\ SinkInv' /\ InFlight' \subseteq InFlight \cup {encoded + 1}
         /\ Ids(batch)' \subseteq Ids(batch) \cup {encoded + 1}
<1>1. /\ batch' = spawn_new_batch(batch)
      /\ Offer(Raw(e))
      /\ discarded' = discarded \cup Ids(batch)
  BY DEF OfferRaw
<1>2. Raw(e) \in SinkMessages /\ Ids(Raw(e)) = {encoded + 1}
  <2>1. e.length \in Nat \ {0}
    BY SizesAssumption DEF Commands
  <2>2. <<Placed(0, e)>> \in Region(Commands)
    BY DEF Region, Placed
  <2>3. Raw(e) \in SinkMessages
    BY <2>1, <2>2 DEF Raw, SinkMessages
  <2>4. Raw(e).events = <<Placed(0, e)>> /\ Placed(0, e).msg.id = encoded + 1
    BY DEF Raw, Placed
  <2>5. Len(Raw(e).events) = 1 /\ Raw(e).events[1].msg.id = encoded + 1
    BY <2>4
  <2> QED
    BY <2>3, <2>5 DEF Ids
<1>3. /\ Holds(SinkMessages, ring', queued')
      /\ polled \o queued' \in Seq(SinkMessages) /\ refused' \in Seq(SinkMessages)
      /\ Shipped(Raw(e), Kept, refused, polled \o queued', refused')
      /\ IdsOf(queued') \subseteq IdsOf(queued) \cup Ids(Raw(e))
  BY <1>1, <1>2, OfferInv
<1>4. /\ Good(batch', encoded + 1, polled \o queued', refused', discarded \cup Ids(batch))
      /\ batch'.length = RG_BATCH_HEADLEN /\ batch'.events = <<>>
  <2>1. Good(batch, encoded, Kept, refused, discarded)
    BY DEF SinkInv
  <2> DEFINE kept == polled \o queued'
             none == refused'
             next == batch'
  <2>2. /\ kept \in Seq(SinkMessages) /\ none \in Seq(SinkMessages)
        /\ Shipped(Raw(e), Kept, refused, kept, none)
        /\ next = spawn_new_batch(batch)
    BY <1>1, <1>3
  <2> SUFFICES /\ Good(next, encoded + 1, kept, none, discarded \cup Ids(batch))
               /\ next.length = RG_BATCH_HEADLEN /\ next.events = <<>>
    OBVIOUS
  <2> HIDE DEF kept, none, next
  <2> QED
    BY <2>1, <2>2, RawGood
<1>5. batch'.length <= RG_BATCH_PACKET_SIZE
  BY <1>4, SizesAssumption
<1>6. SinkInv'
  BY <1>1, <1>3, <1>4, <1>5, SinkFacts, SinkInvAfter
<1>7. Ids(batch)' = {}
  BY <1>4 DEF Ids
<1> QED
  BY <1>2, <1>3, <1>6, <1>7 DEF InFlight

LEMMA LargeInv ==
  ASSUME SinkInv, NEW e \in Commands, e.id = encoded + 1, encoded' = encoded + 1,
         UNCHANGED polled, DispatchLarge(e)
  PROVE  /\ SinkInv' /\ InFlight' \subseteq InFlight \cup {encoded + 1}
         /\ Ids(batch)' \subseteq Ids(batch) \cup {encoded + 1}
<1> DEFINE c == spawn_new_batch(rg_encode_batch_header(batch))
           large == rg_encode_into_batch(c, e)
<1>1. /\ OfferBoth(Batch(batch), Batch(large))
      /\ batch' = spawn_new_batch(rg_encode_batch_header(large))
      /\ UNCHANGED discarded
  BY DEF DispatchLarge
<1>2. ASSUME NEW k \in Seq(SinkMessages), NEW x \in Seq(SinkMessages),
             Shipped(Batch(batch), Kept, refused, k, x)
      PROVE  /\ Good(large, encoded + 1, k, x, discarded)
             /\ EventIds(large.events) = {encoded + 1}
             /\ Len(large.events) = 1
  <2>1. /\ Good(c, encoded, k, x, discarded)
        /\ c.length = RG_BATCH_HEADLEN /\ c.events = <<>>
    BY <1>2, ShipGood DEF SinkInv
  <2> HIDE DEF c
  <2>2. Good(large, encoded + 1, k, x, discarded)
    BY <2>1, PutGood
  <2>3. BatchOK(c)
    BY <2>1 DEF Good
  <2>4. /\ EventIds(large.events) = EventIds(c.events) \cup {encoded + 1}
        /\ Len(large.events) = Len(c.events) + 1
    BY <2>3, PutEffect, ZenonT(40)
  <2> QED
    BY <2>1, <2>2, <2>4, NoEvents
<1>3. Batch(large) \in SinkMessages /\ Ids(Batch(large)) = {encoded + 1}
  <2>1. \E k \in Seq(SinkMessages), x \in Seq(SinkMessages) : Shipped(Batch(batch), Kept, refused, k, x)
    <3>1. Append(Kept, Batch(batch)) \in Seq(SinkMessages) /\ refused \in Seq(SinkMessages)
      BY SinkFacts, Appended
    <3>2. Shipped(Batch(batch), Kept, refused, Append(Kept, Batch(batch)), refused)
      BY DEF Shipped
    <3> QED
      BY <3>1, <3>2
  <2>2. PICK k \in Seq(SinkMessages), x \in Seq(SinkMessages) : Shipped(Batch(batch), Kept, refused, k, x)
    BY <2>1
  <2>3. Good(large, encoded + 1, k, x, discarded) /\ EventIds(large.events) = {encoded + 1}
    BY <1>2, <2>2
  <2> HIDE DEF large
  <2>4. Batch(large) \in SinkMessages
    BY <2>3 DEF Good, BatchOK, Batch, SinkMessages
  <2>5. Ids(Batch(large)) = EventIds(large.events)
    BY DEF Ids, EventIds, Batch
  <2> QED
    BY <2>3, <2>4, <2>5
<1>4. /\ Holds(SinkMessages, ring', queued')
      /\ polled \o queued' \in Seq(SinkMessages) /\ refused' \in Seq(SinkMessages)
      /\ IdsOf(queued') \subseteq IdsOf(queued) \cup Ids(Batch(batch)) \cup {encoded + 1}
      /\ \E k \in Seq(SinkMessages), x \in Seq(SinkMessages) :
           /\ Shipped(Batch(batch), Kept, refused, k, x)
           /\ Shipped(Batch(large), k, x, polled \o queued', refused')
  <2>1. Batch(batch) \in SinkMessages
    BY SinkFacts
  <2> HIDE DEF large
  <2> QED
    BY <1>1, <1>3, <2>1, OfferBothInv
<1>5. PICK k \in Seq(SinkMessages), x \in Seq(SinkMessages) :
           /\ Shipped(Batch(batch), Kept, refused, k, x)
           /\ Shipped(Batch(large), k, x, polled \o queued', refused')
  BY <1>4
<1>6. Good(large, encoded + 1, k, x, discarded) /\ Len(large.events) = 1
  BY <1>2, <1>5
<1> HIDE DEF large
<1>7. /\ Good(batch', encoded + 1, polled \o queued', refused', discarded)
      /\ batch'.length = RG_BATCH_HEADLEN /\ batch'.events = <<>>
  <2>1. polled \o queued' \in Seq(SinkMessages) /\ refused' \in Seq(SinkMessages)
    BY <1>4
  <2>2. Shipped(Batch(large), k, x, polled \o queued', refused')
    BY <1>5
  <2>3. batch' = spawn_new_batch(rg_encode_batch_header(large))
    BY <1>1
  <2> QED
    BY <1>6, <2>1, <2>2, <2>3, ShipGood, ZenonT(40)
<1>8. batch'.length <= RG_BATCH_PACKET_SIZE
  BY <1>7, SizesAssumption
<1>9. SinkInv'
  BY <1>1, <1>4, <1>7, <1>8, SinkFacts, SinkInvAfter
<1>10. Ids(batch)' = {}
  BY <1>7 DEF Ids
<1> QED
  BY <1>4, <1>9, <1>10, SinkFacts DEF InFlight

LEMMA EncodeInv ==
  ASSUME SinkInv, NEW e \in Commands, e.id = encoded + 1, Encode(e)
  PROVE  /\ SinkInv' /\ InFlight' \subseteq InFlight \cup {encoded + 1}
         /\ Ids(batch)' \subseteq Ids(batch) \cup {encoded + 1}
         /\ encoded' = encoded + 1 /\ UNCHANGED polled
BY AppendInv, DispatchInv, RawInv, LargeInv DEF Encode

LEMMA FlushInv ==
  ASSUME SinkInv, FlushBatch
  PROVE  /\ SinkInv' /\ InFlight' \subseteq InFlight /\ Ids(batch)' = {}
         /\ UNCHANGED <<encoded, polled>>
<1>1. CASE batch.length = RG_BATCH_HEADLEN /\ UNCHANGED sinkVars
  <2>1. /\ batch.events \in Region(Commands) /\ RG_BATCH_HEADLEN \in Int
        /\ Laid(batch.events, RG_BATCH_HEADLEN, RG_BATCH_HEADLEN)
    BY <1>1, SizesAssumption DEF SinkInv, Good, BatchOK
  <2>2. batch.events = <<>>
    BY <2>1, LaidOrder, CommandsArePositive
  <2>3. Ids(batch) = {}
    BY <2>2 DEF Ids
  <2> QED
    BY <1>1, <2>3 DEF sinkVars, SinkInv, Kept, InFlight
<1>2. CASE /\ Offer(Batch(batch))
           /\ batch' = spawn_new_batch(rg_encode_batch_header(batch))
           /\ UNCHANGED <<encoded, polled, discarded>>
  <2>1. /\ Holds(SinkMessages, ring', queued')
        /\ polled \o queued' \in Seq(SinkMessages) /\ refused' \in Seq(SinkMessages)
        /\ Shipped(Batch(batch), Kept, refused, polled \o queued', refused')
        /\ IdsOf(queued') \subseteq IdsOf(queued) \cup Ids(batch)
    BY <1>2, OfferInv, SinkFacts
  <2>2. /\ Good(batch', encoded, polled \o queued', refused', discarded)
        /\ batch'.length = RG_BATCH_HEADLEN /\ batch'.events = <<>>
    BY <1>2, <2>1, ShipGood DEF SinkInv
  <2>3. batch'.length <= RG_BATCH_PACKET_SIZE
    BY <2>2, SizesAssumption
  <2>4. SinkInv'
    BY <1>2, <2>1, <2>2, <2>3, SinkFacts, SinkInvAfter
  <2>5. Ids(batch)' = {}
    BY <2>2 DEF Ids
  <2> QED
    BY <1>2, <2>1, <2>4, <2>5 DEF InFlight
<1> QED
  BY <1>1, <1>2 DEF FlushBatch
-----------------------------------------------------------------------------
(* The sink thread finds the oldest message waiting in the ring at the     *)
(* read cursor, whole.                                                     *)
LEMMA ReaderFinds ==
  ASSUME SinkInv, ~bipbuf_is_empty(ring)
  PROVE  /\ ring.a_start \in DOMAIN ring.data
         /\ queued # <<>> /\ queued \in Seq(SinkMessages)
         /\ NextMessage = Head(queued) /\ Head(queued) \in SinkMessages
         /\ CanPoll(ring, NextMessage.length)
BY PollHolds, MessagesArePositive DEF SinkInv, NextMessage

(* A poll takes the oldest message out of the ring; its commands come      *)
(* before all others in flight.                                            *)
LEMMA PollInv ==
  ASSUME SinkInv, NEW f, f \in {ring, Forget(ring, ring.a_start)}, PollFrom(f)
  PROVE  /\ SinkInv'
         /\ NextMessage \in SinkMessages /\ polled' = Append(polled, NextMessage)
         /\ NextMessage = Head(queued)
         /\ IdsAscend(NextMessage.events)
         /\ InFlight = Ids(NextMessage) \cup InFlight'
         /\ \A a \in Ids(NextMessage), b \in InFlight' : a < b
         /\ \A a \in Ids(NextMessage) : a \in 1..encoded
         /\ UNCHANGED encoded
<1>1. /\ ~bipbuf_is_empty(ring)
      /\ ring' = bipbuf_poll(f, NextMessage.length)
      /\ polled' = Append(polled, NextMessage)
      /\ queued' = Tail(queued)
      /\ UNCHANGED <<batch, encoded, refused, discarded>>
  BY DEF PollFrom
<1>2. /\ queued # <<>> /\ queued \in Seq(SinkMessages)
      /\ NextMessage = Head(queued) /\ NextMessage \in SinkMessages
  BY <1>1, ReaderFinds
<1>3. Holds(SinkMessages, ring', queued')
  BY <1>1, <1>2, PollHolds, MessagesArePositive DEF SinkInv
<1>4. polled \in Seq(SinkMessages) /\ polled' \in Seq(SinkMessages) /\ queued' \in Seq(SinkMessages)
  <2>1. Tail(queued) \in Seq(SinkMessages)
    BY <1>2, HeadTailProperties
  <2> QED
    BY <1>1, <1>2, <2>1, SinkFacts, Appended
<1>5. Kept' = Kept
  <2>1. <<NextMessage>> \in Seq(SinkMessages)
    BY <1>2
  <2>2. polled' = polled \o <<NextMessage>>
    BY <1>1, <1>2, <1>4, AppendIsConcat
  <2>3. queued = <<NextMessage>> \o queued'
    BY <1>1, <1>2
  <2>4. (polled \o <<NextMessage>>) \o queued' = polled \o (<<NextMessage>> \o queued')
    BY <1>4, <2>1, ConcatAssociative
  <2> QED
    BY <2>2, <2>3, <2>4 DEF Kept
<1>6. SinkInv'
  BY <1>1, <1>3, <1>4, <1>5 DEF SinkInv
<1>7. Accounted(encoded, Kept, refused, batch.events, discarded)
  BY DEF SinkInv, Good
<1>8. InOrder(polled' \o queued') /\ Kept = polled' \o queued'
  BY <1>5, <1>7 DEF Accounted, Kept
<1>9. /\ IdsOf(polled') \subseteq IdsOf(Kept) /\ IdsOf(queued') \subseteq IdsOf(Kept)
      /\ \A a \in IdsOf(polled'), b \in IdsOf(queued') : a < b
  BY <1>4, <1>8, IdsConcat
<1>10. IdsOf(polled') = IdsOf(polled) \cup Ids(NextMessage)
  BY <1>1, <1>2, <1>4, IdsAppend
<1>11. IdsAscend(NextMessage.events)
  <2>1. Ascending(Packet(NextMessage))
    <3>1. /\ Len(polled) \in Nat /\ Len(polled') = Len(polled) + 1
          /\ polled'[Len(polled) + 1] = NextMessage
      BY <1>1, <1>2, <1>4, Appended
    <3>2. /\ Len(queued') \in Nat /\ Len(Kept) = Len(polled') + Len(queued')
          /\ \A i \in 1..Len(polled') : Kept[i] = polled'[i]
      <4>1. /\ Len(polled' \o queued') = Len(polled') + Len(queued')
            /\ \A i \in 1..(Len(polled') + Len(queued')) :
                 (polled' \o queued')[i] =
                   IF i <= Len(polled') THEN polled'[i] ELSE queued'[i - Len(polled')]
        BY <1>4, ConcatProperties
      <4>2. Len(queued') \in Nat /\ Len(polled') \in Nat
        BY <1>4, LenProperties
      <4>3. \A i \in 1..Len(polled') : i \in 1..(Len(polled') + Len(queued')) /\ i <= Len(polled')
        BY <4>2
      <4> QED
        BY <1>8, <4>1, <4>2, <4>3
    <3>3. Len(polled') \in 1..Len(Kept) /\ Kept[Len(polled')] = NextMessage
      BY <3>1, <3>2
    <3> QED
      BY <1>8, <3>3 DEF InOrder
  <2>2. NextMessage.events \in Seq([at : Int, msg : Commands])
    BY <1>2 DEF SinkMessages, Region
  <2>3. Len(NextMessage.events) \in Nat
    BY <2>2, LenProperties
  <2>4. Len(Packet(NextMessage)) = Len(NextMessage.events)
    BY <2>3 DEF Packet
  <2>5. \A i \in 1..Len(NextMessage.events) : Packet(NextMessage)[i] = NextMessage.events[i].msg.id
    BY DEF Packet
  <2> QED
    BY <2>1, <2>4, <2>5 DEF Ascending, IdsAscend
<1>12. Ids(batch)' = Ids(batch) /\ Ids(batch) = EventIds(batch.events)
  BY <1>1, SinkFacts
<1>13. IdsOf(queued) = Ids(NextMessage) \cup IdsOf(queued')
  BY <1>1, <1>2, IdsTail
<1>14. InFlight = Ids(NextMessage) \cup InFlight'
  BY <1>12, <1>13 DEF InFlight
<1>15. Ids(NextMessage) \subseteq IdsOf(Kept)
  BY <1>9, <1>10
<1>16. \A a \in Ids(NextMessage), b \in InFlight' : a < b
  BY <1>7, <1>9, <1>10, <1>12, <1>15 DEF InFlight, Accounted
<1>17. \A a \in Ids(NextMessage) : a \in 1..encoded
  BY <1>7, <1>15 DEF Accounted
<1> QED
  BY <1>1, <1>2, <1>6, <1>11, <1>14, <1>16, <1>17

LEMMA NextEventsAreCommands ==
  ASSUME SinkInv, NEW length \in EventSizes
  PROVE  /\ Event(encoded + 1, length) \in Commands
         /\ Event(encoded + 1, length).id = encoded + 1
         /\ encoded \in Nat
BY DEF Event, Commands, SinkInv, Good

LEMMA NextSinkInv ==
  ASSUME SinkInv, [NextBatchedSink]_sinkVars
  PROVE  SinkInv'
<1>1. ASSUME NEW e \in NextEvents, Encode(e) PROVE SinkInv'
  <2>1. e \in Commands /\ e.id = encoded + 1
    BY NextEventsAreCommands DEF NextEvents
  <2> QED
    BY <1>1, <2>1, EncodeInv
<1>2. CASE FlushBatch
  BY <1>2, FlushInv
<1>3. CASE PollMessage
  BY <1>3, PollInv DEF PollMessage
<1>4. CASE UNCHANGED sinkVars
  BY <1>4 DEF sinkVars, SinkInv, Kept
<1> QED
  BY <1>1, <1>2, <1>3, <1>4 DEF NextBatchedSink

(* The accounts of the sink hold in every reachable state: from this all   *)
(* that follows is read off (rb_rg_batched_sink).                          *)
THEOREM AlwaysSinkInv == BatchedSinkSpec => []SinkInv
BY InitSinkInv, NextSinkInv, PTL DEF BatchedSinkSpec

(* The batch and the ring have their types in every reachable state.       *)
THEOREM SinkTypeCorrect == BatchedSinkSpec => []BatchTypeOK
<1>1. SinkInv => BatchTypeOK
  BY HoldsFacts, MessagesArePositive DEF SinkInv, Good, BatchOK, BatchTypeOK
<1> QED
  BY <1>1, AlwaysSinkInv, PTL

LEMMA SinkPacksMessages == SinkInv => PacketSizes
<1> SUFFICES ASSUME SinkInv PROVE PacketSizes
  OBVIOUS
<1>1. BatchOK(batch) /\ AllPacked(Kept) /\ batch.length <= RG_BATCH_PACKET_SIZE
  BY DEF SinkInv, Good
<1>2. WellPacked(Batch(batch))
  BY <1>1 DEF BatchOK, WellPacked, Batch
<1> QED
  BY <1>1, <1>2 DEF PacketSizes, AllPacked

(* Whatever the sizes, the commands of every message lie back to back up   *)
(* to its length, and only a command alone in its batch makes it longer    *)
(* than a packet.                                                          *)
THEOREM MessagesArePacked == BatchedSinkSpec => []PacketSizes
BY SinkPacksMessages, AlwaysSinkInv, PTL

LEMMA SinkCountsBatches == SinkInv => SequenceAccounting
BY DEF SinkInv, Good, Counted, SequenceAccounting

(* Each sequence number below the current one was given to one message.    *)
THEOREM EachNumberIsOneBatch == BatchedSinkSpec => []SequenceAccounting
BY SinkCountsBatches, AlwaysSinkInv, PTL

LEMMA SinkLosesKnowingly == SinkInv => LossAccounting
<1> SUFFICES ASSUME SinkInv PROVE LossAccounting
  OBVIOUS
<1> DEFINE alive == Append(Kept, Batch(batch))
<1>1. /\ Kept \in Seq(SinkMessages) /\ Batch(batch) \in SinkMessages
      /\ Ids(Batch(batch)) = EventIds(batch.events) /\ Batch(batch).events = batch.events
  BY SinkFacts
<1>2. Accounted(encoded, Kept, refused, batch.events, discarded)
  BY DEF SinkInv, Good
<1>3. IdsOf(alive) = IdsOf(Kept) \cup EventIds(batch.events)
  BY <1>1, IdsAppend
<1>4. InOrder(alive)
  <2>1. \A a \in IdsOf(Kept), b \in Ids(Batch(batch)) : a < b
    BY <1>1, <1>2 DEF Accounted
  <2> QED
    BY <1>1, <1>2, <2>1, OrderAppend DEF Accounted
<1> HIDE DEF alive
<1>5. encoded \in Nat
  BY DEF SinkInv, Good
<1>6. \A a \in IdsOf(refused) : a \notin EventIds(batch.events)
  <2>1. \A a \in IdsOf(refused) : a \in 1..encoded
    BY <1>2 DEF Accounted
  <2>2. \A a \in IdsOf(refused), b \in EventIds(batch.events) : a < b
    BY <1>2 DEF Accounted
  <2> QED
    BY <1>5, <2>1, <2>2
<1>7. /\ IdsOf(alive) \cup IdsOf(refused) \cup discarded = 1..encoded
      /\ IdsOf(alive) \cap IdsOf(refused) = {}
      /\ (IdsOf(alive) \cup IdsOf(refused)) \cap discarded = {}
      /\ InOrder(refused)
  BY <1>2, <1>3, <1>6 DEF Accounted
<1> QED
  BY <1>4, <1>7 DEF LossAccounting, alive

(* No command vanishes from the accounts and none is in two places.        *)
THEOREM NothingVanishes == BatchedSinkSpec => []LossAccounting
BY SinkLosesKnowingly, AlwaysSinkInv, PTL
-----------------------------------------------------------------------------
(* The packets of a sequence of messages.                                  *)
Packets(ms) == [i \in 1..Len(ms) |-> Packet(ms[i])]

LEMMA PacketFacts ==
  ASSUME NEW m \in SinkMessages
  PROVE  /\ Len(Packet(m)) \in Nat
         /\ Ids(m) = {Packet(m)[i] : i \in 1..Len(Packet(m))}
         /\ IdsAscend(m.events) => Ascending(Packet(m))
<1>1. m.events \in Seq([at : Int, msg : Commands])
  BY DEF SinkMessages, Region
<1>2. Len(m.events) \in Nat
  BY <1>1, LenProperties
<1>3. Len(Packet(m)) = Len(m.events)
  BY <1>2 DEF Packet
<1>4. \A i \in 1..Len(m.events) : Packet(m)[i] = m.events[i].msg.id
  BY DEF Packet
<1>5. Ids(m) = {Packet(m)[i] : i \in 1..Len(Packet(m))}
  BY <1>3, <1>4 DEF Ids
<1> QED
  BY <1>2, <1>3, <1>4, <1>5 DEF Ascending, IdsAscend

LEMMA PacketsAppend ==
  ASSUME NEW s \in Seq(SinkMessages), NEW m \in SinkMessages
  PROVE  /\ Packets(Append(s, m)) = Append(Packets(s), Packet(m))
         /\ Packets(Append(s, m)) # <<>>
         /\ Packets(Append(s, m))[Len(Packets(Append(s, m)))] = Packet(m)
<1> DEFINE t == Append(s, m)
           All == UNION {{Packet(x)} : x \in SinkMessages}
<1>1. /\ t \in Seq(SinkMessages) /\ Len(s) \in Nat /\ Len(t) = Len(s) + 1
      /\ \A i \in 1..Len(s) : t[i] = s[i] /\ i \in 1..(Len(s) + 1)
      /\ t[Len(s) + 1] = m /\ Len(s) + 1 \in 1..(Len(s) + 1)
      /\ \A i \in 1..(Len(s) + 1) : i \in 1..Len(s) \/ i = Len(s) + 1
  BY Appended
<1> HIDE DEF t
<1>2. Packet(m) \in All /\ \A i \in 1..Len(s) : Packet(s[i]) \in All
  BY ElementOfSeq
<1>3. /\ Packets(s) \in Seq(All) /\ Len(Packets(s)) = Len(s)
      /\ \A i \in 1..Len(s) : Packets(s)[i] = Packet(s[i])
  <2>1. Packets(s) = [i \in 1..Len(s) |-> Packet(s[i])]
    BY DEF Packets
  <2> HIDE DEF All
  <2> QED
    BY <1>1, <1>2, <2>1, IsASeq
<1>4. \A i \in 1..Len(t) : Packet(t[i]) \in All
  BY <1>1, <1>2
<1>5. /\ Packets(t) \in Seq(All) /\ Len(Packets(t)) = Len(t)
      /\ \A i \in 1..Len(t) : Packets(t)[i] = Packet(t[i])
  <2>1. Packets(t) = [i \in 1..Len(t) |-> Packet(t[i])]
    BY DEF Packets
  <2> HIDE DEF All
  <2> QED
    BY <1>1, <1>4, <2>1, IsASeq
<1> HIDE DEF All
<1>6. /\ Append(Packets(s), Packet(m)) \in Seq(All)
      /\ Len(Append(Packets(s), Packet(m))) = Len(s) + 1
      /\ \A i \in 1..Len(s) : Append(Packets(s), Packet(m))[i] = Packet(s[i])
      /\ Append(Packets(s), Packet(m))[Len(s) + 1] = Packet(m)
  BY <1>2, <1>3, AppendProperties
<1>7. \A i \in 1..Len(Packets(t)) : Packets(t)[i] = Append(Packets(s), Packet(m))[i]
  BY <1>1, <1>5, <1>6
<1>8. Packets(t) = Append(Packets(s), Packet(m))
  BY <1>1, <1>5, <1>6, <1>7, SeqEqual
<1>9. Packets(t) # <<>> /\ Packets(t)[Len(Packets(t))] = Packet(m)
  BY <1>1, <1>5, EmptySeq
<1> QED
  BY <1>8, <1>9 DEF t

(* A packet of the oldest commands of a channel's pipe.                    *)
LEMMA PacketIsDelivered ==
  ASSUME NEW m \in SinkMessages, IdsAscend(m.events), NEW pipe, NEW rest,
         pipe = Ids(m) \cup rest, NEW n \in Nat, \A a \in Ids(m) : a \in 1..n,
         \A a \in Ids(m), b \in rest : a < b
  PROVE  /\ \A i \in 1..Len(Packet(m)) : Packet(m)[i] \in pipe
         /\ \A i, j \in 1..Len(Packet(m)) : i < j => Packet(m)[i] < Packet(m)[j]
         /\ rest = pipe \ {Packet(m)[i] : i \in 1..Len(Packet(m))}
         /\ \A i \in 1..Len(Packet(m)) : \A later \in rest : Packet(m)[i] < later
<1>1. /\ Ids(m) = {Packet(m)[i] : i \in 1..Len(Packet(m))}
      /\ Ascending(Packet(m))
  BY PacketFacts
<1>2. \A a \in Ids(m) : a \notin rest
  <2>1. \A a \in Ids(m) : a \in Int
    OBVIOUS
  <2> QED
    BY <2>1
<1>3. \A i \in 1..Len(Packet(m)) : Packet(m)[i] \in Ids(m)
  BY <1>1
<1> QED
  BY <1>1, <1>2, <1>3 DEF Ascending

(* Every step of the sink is a step of a channel that may lose commands    *)
(* but neither reorders nor duplicates any.                                *)
THEOREM SinkIsALossyChannel == BatchedSinkSpec => DeliversInOrder
<1> USE DEF Channel!channelVars
<1>1. InitBatchedSink => Channel!Init
  <2> SUFFICES ASSUME InitBatchedSink PROVE Channel!Init
    OBVIOUS
  <2>1. InFlight = {} /\ encoded = 0 /\ polled = <<>>
    BY InitSinkInv DEF InitBatchedSink
  <2>2. [i \in 1..Len(polled) |-> Packet(polled[i])] = <<>>
    BY <2>1
  <2> QED
    BY <2>1, <2>2 DEF Channel!Init
<1>2. ASSUME SinkInv, [NextBatchedSink]_sinkVars
      PROVE  [Channel!Next]_(Channel!channelVars)
  <2>1. ASSUME NEW e \in NextEvents, Encode(e) PROVE Channel!Encode
    <3>1. e \in Commands /\ e.id = encoded + 1
      BY <1>2, NextEventsAreCommands DEF NextEvents
    <3>2. InFlight' \subseteq InFlight \cup {encoded + 1} /\ encoded' = encoded + 1 /\ polled' = polled
      BY <1>2, <2>1, <3>1, EncodeInv
    <3> QED
      BY <3>2 DEF Channel!Encode
  <2>2. CASE FlushBatch
    <3>1. InFlight' \subseteq InFlight /\ encoded' = encoded /\ polled' = polled
      BY <1>2, <2>2, FlushInv
    <3> QED
      BY <3>1 DEF Channel!Next, Channel!Lose
  <2>3. CASE PollMessage
    <3>1. PollFrom(Forget(ring, ring.a_start))
      BY <2>3 DEF PollMessage
    <3>2. /\ NextMessage \in SinkMessages /\ polled' = Append(polled, NextMessage)
          /\ IdsAscend(NextMessage.events)
          /\ InFlight = Ids(NextMessage) \cup InFlight'
          /\ \A a \in Ids(NextMessage), b \in InFlight' : a < b
          /\ \A a \in Ids(NextMessage) : a \in 1..encoded
          /\ encoded' = encoded
      BY <1>2, <3>1, PollInv
    <3>3. polled \in Seq(SinkMessages) /\ encoded \in Nat
      BY <1>2 DEF SinkInv, Good
    <3>4. /\ \A i \in 1..Len(Packet(NextMessage)) : Packet(NextMessage)[i] \in InFlight
          /\ \A i, j \in 1..Len(Packet(NextMessage)) :
               i < j => Packet(NextMessage)[i] < Packet(NextMessage)[j]
          /\ InFlight' = InFlight \ {Packet(NextMessage)[i] : i \in 1..Len(Packet(NextMessage))}
          /\ \A i \in 1..Len(Packet(NextMessage)) : \A later \in InFlight' :
               Packet(NextMessage)[i] < later
      BY <3>2, <3>3, PacketIsDelivered
    <3>5. /\ Packets(polled') = Append(Packets(polled), Packet(NextMessage))
          /\ Packets(polled') # <<>>
          /\ Packets(polled')[Len(Packets(polled'))] = Packet(NextMessage)
      BY <3>2, <3>3, PacketsAppend
    <3> DEFINE delivered == [i \in 1..Len(polled) |-> Packet(polled[i])]
    <3>6. delivered = Packets(polled) /\ delivered' = Packets(polled')
      BY DEF Packets
    <3>7. /\ delivered' = Append(delivered, Packet(NextMessage))
          /\ delivered' # <<>>
          /\ delivered'[Len(delivered')] = Packet(NextMessage)
      BY <3>5, <3>6
    <3>8. Channel!Deliver(Packet(NextMessage))
      BY <3>2, <3>4, <3>7 DEF Channel!Deliver
    <3>9. Channel!Deliver(delivered'[Len(delivered')])
      BY <3>7, <3>8
    <3> QED
      BY <3>7, <3>9 DEF Channel!Next
  <2>4. CASE UNCHANGED sinkVars
    BY <2>4 DEF sinkVars, InFlight
  <2> QED
    BY <1>2, <2>1, <2>2, <2>3, <2>4 DEF NextBatchedSink, Channel!Next
<1> QED
  BY <1>1, <1>2, AlwaysSinkInv, PTL DEF BatchedSinkSpec, DeliversInOrder, Channel!Spec
-----------------------------------------------------------------------------
(***************************************************************************)
(* 4. The dispatch threads.  What the two transports share comes first;    *)
(* each transport then needs its own steps only.                           *)
(***************************************************************************)

Places == {"awake", "asleep", "jitter", "sending", "done"}
SinkRecord == [pc : Places, bytes : Nat, at : Nat, size : Nat, jittered_sends : Nat]

(* Nothing encoded before process_ended flushed is pending any more, and   *)
(* once the sink thread has ended nothing of it is in the ring either.     *)
Draining ==
  /\ main = "tracing" => running
  /\ ended \in Nat /\ ended <= encoded
  /\ main # "tracing" => \A id \in Ids(batch) : id > ended
  /\ sink.pc = "done" => main # "tracing" /\ \A id \in InFlight : id > ended
  /\ main = "joined" => sink.pc = "done"

ThreadInv == SinkInv /\ sink \in SinkRecord /\ Draining

LEMMA SinkIs ==
  ASSUME sink \in SinkRecord, NEW from, NEW to \in Places, SinkSteps(from, to)
  PROVE  /\ sink' \in SinkRecord /\ sink'.pc = to /\ sink.pc = from
         /\ sink'.jittered_sends = sink.jittered_sends
         /\ UNCHANGED <<running, timer, main, ended>>
BY DEF SinkSteps, SinkRecord, Places

LEMMA EncodedIsNat == SinkInv => encoded \in Nat
BY DEF SinkInv, Good

(* Commands encoded since are younger than the flush.                      *)
LEMMA DrainingKept ==
  ASSUME Draining, encoded \in Nat, UNCHANGED ended, encoded' \in {encoded, encoded + 1},
         running' = running \/ main' # "tracing",
         main' = "tracing" <=> main = "tracing",
         main' = "joined" => sink.pc = "done",
         sink'.pc = "done" <=> sink.pc = "done",
         InFlight' \subseteq InFlight \cup {encoded + 1},
         Ids(batch)' \subseteq Ids(batch) \cup {encoded + 1}
  PROVE  Draining'
<1>1. ended \in Nat /\ ended <= encoded /\ encoded + 1 > ended /\ ended' = ended
  BY DEF Draining
<1>2. ended' \in Nat /\ ended' <= encoded'
  BY <1>1
<1>3. main' # "tracing" => \A id \in Ids(batch)' : id > ended'
  BY <1>1 DEF Draining
<1>4. sink'.pc = "done" => main' # "tracing" /\ \A id \in InFlight' : id > ended'
  BY <1>1 DEF Draining
<1>5. main' = "tracing" => running'
  BY DEF Draining
<1>6. main' = "joined" => sink'.pc = "done"
  OBVIOUS
<1> QED
  BY <1>2, <1>3, <1>4, <1>5, <1>6 DEF Draining

(* A step that leaves the batch and the ring alone.                        *)
LEMMA ThreadsOnly ==
  ASSUME ThreadInv, UNCHANGED sinkVars, UNCHANGED ended, sink' \in SinkRecord,
         running' = running \/ main' # "tracing",
         main' = "tracing" <=> main = "tracing",
         main' = "joined" => sink.pc = "done",
         sink'.pc = "done" <=> sink.pc = "done"
  PROVE  ThreadInv' /\ InFlight' = InFlight /\ UNCHANGED <<encoded, polled>>
<1>1. /\ UNCHANGED <<encoded, polled>> /\ InFlight' = InFlight
      /\ Ids(batch)' = Ids(batch) /\ SinkInv'
  BY DEF sinkVars, InFlight, ThreadInv, SinkInv, Kept
<1>2. encoded \in Nat
  BY EncodedIsNat DEF ThreadInv
<1>3. Draining'
  BY <1>1, <1>2, DrainingKept DEF ThreadInv
<1> QED
  BY <1>1, <1>3 DEF ThreadInv
-----------------------------------------------------------------------------
LEMMA InitThreadInv ==
  ASSUME InitThreads
  PROVE  ThreadInv
<1>1. SinkInv /\ InFlight = {} /\ encoded = 0
  BY InitSinkInv DEF InitThreads, InitBatchedSink
<1>2. /\ running = TRUE /\ main = "tracing" /\ ended = 0
      /\ sink = [pc |-> "awake", bytes |-> 0, at |-> 0, size |-> 0, jittered_sends |-> 0]
  BY DEF InitThreads
<1>3. sink \in SinkRecord /\ sink.pc = "awake"
  BY <1>2 DEF SinkRecord, Places
<1> QED
  BY <1>1, <1>2, <1>3 DEF ThreadInv, Draining

LEMMA ApplicationStep ==
  ASSUME ThreadInv, ApplicationEncodes
  PROVE  /\ ThreadInv' /\ UNCHANGED threadVars /\ UNCHANGED polled
         /\ encoded' = encoded + 1 /\ InFlight' \subseteq InFlight \cup {encoded + 1}
<1>1. PICK e \in NextEvents : Encode(e)
  BY DEF ApplicationEncodes
<1>2. e \in Commands /\ e.id = encoded + 1 /\ encoded \in Nat
  BY NextEventsAreCommands DEF NextEvents, ThreadInv
<1>3. /\ SinkInv' /\ InFlight' \subseteq InFlight \cup {encoded + 1}
      /\ Ids(batch)' \subseteq Ids(batch) \cup {encoded + 1}
      /\ encoded' = encoded + 1 /\ UNCHANGED polled
  BY <1>1, <1>2, EncodeInv DEF ThreadInv
<1>4. UNCHANGED threadVars /\ UNCHANGED <<running, sink, main, ended>>
  BY DEF ApplicationEncodes, threadVars
<1>5. Draining'
  BY <1>2, <1>3, <1>4, DrainingKept DEF ThreadInv, Draining
<1> QED
  BY <1>3, <1>4, <1>5 DEF ThreadInv

LEMMA TimerTickStep ==
  ASSUME ThreadInv, NEW to, TimerTick(to)
  PROVE  /\ ThreadInv' /\ UNCHANGED <<encoded, polled, sink, payload, sends>>
         /\ InFlight' \subseteq InFlight
<1>1. /\ SinkInv' /\ InFlight' \subseteq InFlight /\ Ids(batch)' = {}
      /\ UNCHANGED <<encoded, polled>>
  BY FlushInv DEF TimerTick, ThreadInv
<1>2. UNCHANGED <<running, sink, payload, main, sends, ended>>
  BY DEF TimerTick
<1>3. Draining'
  BY <1>1, <1>2, EncodedIsNat, DrainingKept DEF ThreadInv, Draining
<1> QED
  BY <1>1, <1>2, <1>3 DEF ThreadInv

(* The flush of process_ended empties the batch; no later command is older *)
(* than it.                                                                *)
LEMMA ShutdownFlushStep ==
  ASSUME ThreadInv, ShutdownFlush
  PROVE  /\ ThreadInv' /\ UNCHANGED <<encoded, polled, sink, payload, sends>>
         /\ InFlight' \subseteq InFlight
<1>1. /\ SinkInv' /\ InFlight' \subseteq InFlight /\ Ids(batch)' = {}
      /\ UNCHANGED <<encoded, polled>>
  BY FlushInv DEF ShutdownFlush, ThreadInv
<1>2. /\ UNCHANGED <<sink, payload, sends, running>> /\ ended' = encoded
      /\ main = "tracing" /\ main' = "flushed"
  BY DEF ShutdownFlush, MainSteps
<1>3. sink.pc # "done" /\ encoded \in Nat
  BY <1>2, EncodedIsNat DEF ThreadInv, Draining
<1>4. Draining'
  BY <1>1, <1>2, <1>3 DEF Draining
<1> QED
  BY <1>1, <1>2, <1>4 DEF ThreadInv

LEMMA EncodeProcessEndedStep ==
  ASSUME ThreadInv, EncodeProcessEnded
  PROVE  /\ ThreadInv' /\ UNCHANGED <<polled, sink, payload, sends>>
         /\ encoded' = encoded + 1 /\ InFlight' \subseteq InFlight \cup {encoded + 1}
<1> DEFINE e == Event(encoded + 1, ProcessEndedSize)
<1>1. Encode(e) /\ UNCHANGED <<sink, payload, sends, running, ended>> /\ main = "flushed" /\ main' = "ended"
  BY DEF EncodeProcessEnded, MainSteps
<1>2. e \in Commands /\ e.id = encoded + 1 /\ encoded \in Nat
  BY NextEventsAreCommands, ProcessEndedAssumption DEF ThreadInv
<1> HIDE DEF e
<1>3. /\ SinkInv' /\ InFlight' \subseteq InFlight \cup {encoded + 1}
      /\ Ids(batch)' \subseteq Ids(batch) \cup {encoded + 1}
      /\ encoded' = encoded + 1 /\ UNCHANGED polled
  BY <1>1, <1>2, EncodeInv DEF ThreadInv
<1>4. Draining'
  BY <1>1, <1>2, <1>3, DrainingKept DEF ThreadInv
<1> QED
  BY <1>1, <1>3, <1>4 DEF ThreadInv

LEMMA QuietSteps ==
  ASSUME ThreadInv,
         \/ TimerCheck \/ StopRunning \/ Joined \/ JoinTimesOut \/ ProcessExits
         \/ Exited \/ (UNCHANGED sinkVars /\ UNCHANGED threadVars)
  PROVE  /\ ThreadInv' /\ InFlight' = InFlight
         /\ UNCHANGED <<encoded, polled, sink, payload, sends>>
<1>1. /\ UNCHANGED sinkVars /\ UNCHANGED <<sink, payload, sends, ended>>
  BY DEF TimerCheck, StopRunning, Joined, JoinTimesOut, ProcessExits, Exited, MainSteps, threadVars
<1>2. running' = running \/ main' # "tracing"
  BY DEF TimerCheck, StopRunning, Joined, JoinTimesOut, ProcessExits, Exited, MainSteps, threadVars
<1>3. main' = "tracing" <=> main = "tracing"
  BY DEF TimerCheck, StopRunning, Joined, JoinTimesOut, ProcessExits, Exited, MainSteps, threadVars
<1>4. main' = "joined" => sink.pc = "done"
  BY DEF TimerCheck, StopRunning, Joined, JoinTimesOut, ProcessExits, Exited, MainSteps, threadVars,
         ThreadInv, Draining
<1> QED
  BY <1>1, <1>2, <1>3, <1>4, ThreadsOnly DEF ThreadInv

LEMMA RestStep ==
  ASSUME ThreadInv, SinkRests \/ SinkWakes
  PROVE  /\ ThreadInv' /\ InFlight' = InFlight /\ UNCHANGED <<encoded, polled, payload, sends>>
         /\ sink'.jittered_sends = sink.jittered_sends
         /\ sink.pc \in {"awake", "asleep"} /\ sink'.pc \in {"awake", "asleep"}
<1>1. CASE SinkRests
  <2>1. /\ SinkSteps("awake", "asleep") /\ UNCHANGED sinkVars /\ UNCHANGED <<payload, sends>>
    BY <1>1 DEF SinkRests
  <2>2. /\ sink' \in SinkRecord /\ sink'.pc = "asleep" /\ sink.pc = "awake"
        /\ sink'.jittered_sends = sink.jittered_sends /\ UNCHANGED <<running, main, ended>>
    BY <2>1, SinkIs DEF ThreadInv, Places
  <2> QED
    BY <2>1, <2>2, ThreadsOnly DEF ThreadInv, Draining
<1>2. CASE SinkWakes
  <2>1. /\ sink' = [sink EXCEPT !.pc = "awake", !.bytes = 0] /\ sink.pc = "asleep"
        /\ UNCHANGED sinkVars /\ UNCHANGED <<payload, sends, running, main, ended>>
    BY <1>2 DEF SinkWakes
  <2>2. /\ sink' \in SinkRecord /\ sink'.pc = "awake"
        /\ sink'.jittered_sends = sink.jittered_sends
    BY <2>1 DEF ThreadInv, SinkRecord, Places
  <2> QED
    BY <2>1, <2>2, ThreadsOnly DEF ThreadInv, Draining
<1> QED
  BY <1>1, <1>2

(* The sink thread ends only on an empty ring, after the flush.            *)
LEMMA ExitStep ==
  ASSUME ThreadInv, SinkExits
  PROVE  /\ ThreadInv' /\ InFlight' = InFlight /\ UNCHANGED <<encoded, polled, payload, sends>>
         /\ sink'.jittered_sends = sink.jittered_sends
         /\ sink.pc = "awake" /\ sink'.pc = "done"
<1>1. /\ ~running /\ bipbuf_is_empty(ring) /\ SinkSteps("awake", "done")
      /\ UNCHANGED sinkVars /\ UNCHANGED <<payload, sends>>
  BY DEF SinkExits, MayExit, Empty
<1>2. /\ sink' \in SinkRecord /\ sink'.pc = "done" /\ sink.pc = "awake"
      /\ sink'.jittered_sends = sink.jittered_sends /\ UNCHANGED <<running, main, ended>>
  BY <1>1, SinkIs DEF ThreadInv, Places
<1>3. /\ UNCHANGED <<encoded, polled>> /\ InFlight' = InFlight
      /\ Ids(batch)' = Ids(batch) /\ SinkInv'
  BY <1>1 DEF sinkVars, InFlight, ThreadInv, SinkInv, Kept
<1>4. queued = <<>>
  BY <1>1, HoldsFacts, MessagesArePositive DEF ThreadInv, SinkInv
<1>5. InFlight = Ids(batch)
  BY <1>4 DEF InFlight, IdsOf
<1>6. main # "tracing"
  BY <1>1 DEF ThreadInv, Draining
<1>7. Draining'
  BY <1>2, <1>3, <1>5, <1>6 DEF ThreadInv, Draining
<1> QED
  BY <1>1, <1>2, <1>3, <1>7 DEF ThreadInv

(* A poll, whatever the sink thread does with the message.                 *)
LEMMA PollStep ==
  ASSUME ThreadInv, NEW f, f \in {ring, Forget(ring, ring.a_start)}, PollFrom(f),
         sink' \in SinkRecord, sink.pc = "awake", sink'.pc # "done",
         UNCHANGED <<running, main, ended>>
  PROVE  ThreadInv'
<1>1. /\ SinkInv' /\ InFlight = Ids(NextMessage) \cup InFlight' /\ UNCHANGED encoded
  BY PollInv DEF ThreadInv
<1>2. Ids(batch)' = Ids(batch)
  BY DEF PollFrom
<1>3. InFlight' \subseteq InFlight
  BY <1>1
<1>4. Draining'
  BY <1>1, <1>2, <1>3, EncodedIsNat, DrainingKept DEF ThreadInv, Draining
<1> QED
  BY <1>1, <1>4 DEF ThreadInv
-----------------------------------------------------------------------------
(* A log of anything.                                                      *)
IsLog(s) == \E S : s \in Seq(S)

LEMMA LogAppend ==
  ASSUME NEW s, IsLog(s), NEW x
  PROVE  /\ IsLog(Append(s, x))
         /\ Len(s) \in Nat /\ Len(Append(s, x)) = Len(s) + 1
         /\ \A i \in 1..Len(s) : Append(s, x)[i] = s[i]
         /\ Append(s, x)[Len(s) + 1] = x
<1>1. PICK S : s \in Seq(S)
  BY DEF IsLog
<1> DEFINE T == S \cup {x}
<1>2. /\ Len(s) \in Nat /\ \A i \in 1..Len(s) : s[i] \in T
      /\ s = [i \in 1..Len(s) |-> s[i]]
  BY <1>1, LenProperties, ElementOfSeq
<1>3. x \in T
  OBVIOUS
<1> HIDE DEF T
<1>4. s \in Seq(T)
  BY <1>2, IsASeq
<1> QED
  BY <1>2, <1>3, <1>4, AppendProperties DEF IsLog

(* The log of the payloads, and the payload in hand.                       *)
InStep == HandledOnce /\ (sink.pc = "sending" => payload = polled[Len(polled)])

LEMMA InStepKept ==
  ASSUME InStep, UNCHANGED <<sends, polled, payload>>,
         \/ sink' = sink
         \/ sink.pc \notin {"jitter", "sending"} /\ sink'.pc \notin {"jitter", "sending"}
  PROVE  InStep'
<1>1. InHand' = InHand /\ (sink'.pc = "sending" => sink.pc = "sending")
  BY DEF InHand
<1> QED
  BY <1>1 DEF InStep, HandledOnce

LEMMA InStepPolled ==
  ASSUME InStep, polled \in Seq(SinkMessages), NEW m \in SinkMessages, polled' = Append(polled, m),
         IsLog(sends), UNCHANGED sends, sink.pc = "awake",
         sink'.pc = "jitter" \/ (sink'.pc = "sending" /\ payload' = m)
  PROVE  InStep'
<1>1. InHand = 0 /\ InHand' = 1
  BY DEF InHand
<1>2. /\ Len(polled) \in Nat /\ Len(polled') = Len(polled) + 1
      /\ \A i \in 1..Len(polled) : polled'[i] = polled[i]
      /\ polled'[Len(polled) + 1] = m
  BY Appended
<1>3. Len(sends) = Len(polled) /\ \A i \in 1..Len(sends) : sends[i].msg = polled[i]
  <2>1. Len(sends) \in Nat
    BY LogAppend
  <2> QED
    BY <1>1, <1>2, <2>1 DEF InStep, HandledOnce
<1>4. HandledOnce'
  BY <1>1, <1>2, <1>3 DEF HandledOnce
<1>5. sink'.pc = "sending" => payload' = polled'[Len(polled')]
  BY <1>2
<1> QED
  BY <1>4, <1>5 DEF InStep

LEMMA InStepDone ==
  ASSUME InStep, IsLog(sends), NEW sent, DoneWith(payload, sent),
         UNCHANGED <<polled, payload>>, sink.pc = "sending", sink'.pc = "awake"
  PROVE  InStep' /\ IsLog(sends)'
<1> DEFINE x == [msg |-> payload, sent |-> sent]
<1>1. InHand = 1 /\ InHand' = 0
  BY DEF InHand
<1>2. sends' = Append(sends, x) /\ x.msg = payload
  BY DEF DoneWith
<1> HIDE DEF x
<1>3. /\ IsLog(sends)' /\ Len(sends) \in Nat /\ Len(sends') = Len(sends) + 1
      /\ \A i \in 1..Len(sends) : sends'[i] = sends[i]
      /\ sends'[Len(sends) + 1] = x
  BY <1>2, LogAppend
<1>4. /\ Len(polled) = Len(sends) + 1 /\ payload = polled[Len(polled)]
      /\ \A i \in 1..Len(sends) : sends[i].msg = polled[i]
  BY <1>1 DEF InStep, HandledOnce
<1>5. \A i \in 1..Len(sends') : sends'[i].msg = polled'[i]
  <2>1. ASSUME NEW i \in 1..Len(sends') PROVE sends'[i].msg = polled[i]
    <3>1. CASE i \in 1..Len(sends)
      BY <1>3, <1>4, <3>1
    <3>2. CASE i = Len(sends) + 1
      BY <1>2, <1>3, <1>4, <3>2
    <3>3. i \in 1..Len(sends) \/ i = Len(sends) + 1
      BY <1>3
    <3> QED
      BY <3>1, <3>2, <3>3
  <2> QED
    BY <2>1
<1>6. Len(sends') + InHand' = Len(polled')
  BY <1>1, <1>3, <1>4
<1> QED
  BY <1>3, <1>5, <1>6 DEF InStep, HandledOnce

LEMMA InStepUnsent ==
  ASSUME InStep, IsLog(sends), polled \in Seq(SinkMessages), NEW m \in SinkMessages,
         polled' = Append(polled, m), NEW sent, DoneWith(m, sent),
         sink.pc = "awake", sink'.pc = "awake"
  PROVE  InStep' /\ IsLog(sends)'
<1> DEFINE x == [msg |-> m, sent |-> sent]
<1>1. InHand = 0 /\ InHand' = 0
  BY DEF InHand
<1>2. sends' = Append(sends, x) /\ x.msg = m
  BY DEF DoneWith
<1> HIDE DEF x
<1>3. /\ IsLog(sends)' /\ Len(sends) \in Nat /\ Len(sends') = Len(sends) + 1
      /\ \A i \in 1..Len(sends) : sends'[i] = sends[i]
      /\ sends'[Len(sends) + 1] = x
  BY <1>2, LogAppend
<1>4. /\ Len(polled) \in Nat /\ Len(polled') = Len(polled) + 1
      /\ \A i \in 1..Len(polled) : polled'[i] = polled[i]
      /\ polled'[Len(polled) + 1] = m
  BY Appended
<1>5. Len(polled) = Len(sends) /\ \A i \in 1..Len(sends) : sends[i].msg = polled[i]
  BY <1>1, <1>3, <1>4 DEF InStep, HandledOnce
<1>6. \A i \in 1..Len(sends') : sends'[i].msg = polled'[i]
  <2>1. ASSUME NEW i \in 1..Len(sends') PROVE sends'[i].msg = polled'[i]
    <3>1. CASE i \in 1..Len(sends)
      BY <1>3, <1>4, <1>5, <3>1
    <3>2. CASE i = Len(sends) + 1
      BY <1>2, <1>3, <1>4, <1>5, <3>2
    <3>3. i \in 1..Len(sends) \/ i = Len(sends) + 1
      BY <1>3
    <3> QED
      BY <3>1, <3>2, <3>3
  <2> QED
    BY <2>1
<1>7. Len(sends') + InHand' = Len(polled')
  BY <1>1, <1>3, <1>4, <1>5
<1> QED
  BY <1>3, <1>6, <1>7 DEF InStep, HandledOnce

LEMMA InitInStep ==
  ASSUME InitThreads
  PROVE  InStep /\ IsLog(sends)
<1>1. sends = <<>> /\ polled = <<>> /\ sink.pc = "awake"
  BY DEF InitThreads, InitBatchedSink
<1>2. Len(sends) = 0 /\ Len(polled) = 0 /\ InHand = 0
  BY <1>1 DEF InHand
<1>3. IsLog(sends)
  BY <1>1, EmptySeq DEF IsLog
<1> QED
  BY <1>1, <1>2, <1>3 DEF InStep, HandledOnce
-----------------------------------------------------------------------------
(* UDP: the log is in step with the polls until the first wait.            *)
UdpInv ==
  /\ ThreadInv
  /\ IsLog(sends)
  /\ sink.jittered_sends = 0 => InStep

LEMMA InitUdpInv == InitThreads => UdpInv
BY InitThreadInv, InitInStep DEF UdpInv

LEMMA UdpQuiet ==
  ASSUME UdpInv, ThreadInv', UNCHANGED <<sends, polled, payload>>,
         sink'.jittered_sends = sink.jittered_sends,
         \/ sink' = sink
         \/ sink.pc \notin {"jitter", "sending"} /\ sink'.pc \notin {"jitter", "sending"}
  PROVE  UdpInv'
BY InStepKept DEF UdpInv

LEMMA UdpPoll ==
  ASSUME UdpInv, PollThenCopy \/ PollThenWait
  PROVE  UdpInv'
<1>1. PICK f \in {ring, Forget(ring, ring.a_start)}, to \in {"sending", "jitter"} :
        /\ PollFrom(f) /\ SinkTakes(to)
        /\ to = "sending" => payload' = NextMessage
  BY DEF PollThenCopy, PollThenWait, PollMessage
<1>2. NextMessage \in SinkMessages /\ polled' = Append(polled, NextMessage) /\ polled \in Seq(SinkMessages)
  BY <1>1, PollInv DEF UdpInv, ThreadInv, SinkInv
<1>3. /\ sink.pc = "awake"
      /\ sink' = [sink EXCEPT !.pc = to, !.bytes = @ + NextMessage.length,
                              !.at = ring.a_start, !.size = NextMessage.length]
      /\ UNCHANGED <<running, timer, main, sends, ended>>
  BY <1>1 DEF SinkTakes
<1>4. ring.a_start \in Nat /\ NextMessage.length \in Nat
  <2>1. IsBuffer(ring)
    BY HoldsFacts, MessagesArePositive DEF UdpInv, ThreadInv, SinkInv
  <2>2. ring.a_start \in Nat
    BY <2>1, SizeAssumption DEF IsBuffer
  <2> QED
    BY <1>2, <2>2 DEF SinkMessages
<1>5. sink' \in SinkRecord /\ sink'.pc = to /\ sink'.jittered_sends = sink.jittered_sends
  <2>1. sink \in SinkRecord /\ to \in Places
    BY DEF UdpInv, ThreadInv, Places
  <2>2. sink.bytes + NextMessage.length \in Nat
    BY <1>4, <2>1 DEF SinkRecord
  <2>3. sink' \in SinkRecord
    BY ONLY <1>3, <1>4, <2>1, <2>2 DEF SinkRecord
  <2> QED
    BY <1>3, <2>1, <2>3 DEF SinkRecord
<1>6. ThreadInv'
  BY <1>1, <1>3, <1>5, PollStep DEF UdpInv
<1>7. sink.jittered_sends = 0 => InStep'
  BY <1>1, <1>2, <1>3, <1>5, InStepPolled DEF UdpInv
<1> QED
  BY <1>3, <1>5, <1>6, <1>7 DEF UdpInv

LEMMA UdpSend ==
  ASSUME UdpInv, SendSucceeds \/ SendFails
  PROVE  UdpInv'
<1>1. PICK sent \in BOOLEAN : DoneWith(payload, sent)
  BY DEF SendSucceeds, SendFails
<1>2. SinkSteps("sending", "awake") /\ UNCHANGED sinkVars /\ UNCHANGED payload
  BY DEF SendSucceeds, SendFails
<1>3. /\ sink' \in SinkRecord /\ sink'.pc = "awake" /\ sink.pc = "sending"
      /\ sink'.jittered_sends = sink.jittered_sends
      /\ UNCHANGED <<running, timer, main, ended>>
  BY <1>2, SinkIs DEF UdpInv, ThreadInv, Places
<1>4. ThreadInv' /\ UNCHANGED polled
  BY <1>2, <1>3, ThreadsOnly DEF UdpInv, ThreadInv, Draining
<1>5. IsLog(sends)'
  BY <1>1, LogAppend DEF DoneWith, UdpInv
<1>6. sink.jittered_sends = 0 => InStep'
  BY <1>1, <1>2, <1>3, <1>4, InStepDone DEF UdpInv
<1> QED
  BY <1>3, <1>4, <1>5, <1>6 DEF UdpInv

LEMMA UdpCopy ==
  ASSUME UdpInv, CopyAfterWait
  PROVE  UdpInv'
<1>1. /\ sink' = [sink EXCEPT !.pc = "sending", !.bytes = 0, !.jittered_sends = @ + 1]
      /\ sink.pc = "jitter" /\ UNCHANGED sinkVars /\ UNCHANGED <<running, main, sends, ended>>
  BY DEF CopyAfterWait
<1>2. sink' \in SinkRecord /\ sink'.pc = "sending" /\ sink'.jittered_sends # 0
  <2>1. sink \in SinkRecord /\ "sending" \in Places
    BY DEF UdpInv, ThreadInv, Places
  <2>2. sink.jittered_sends + 1 \in Nat /\ sink.jittered_sends + 1 # 0
    BY <2>1 DEF SinkRecord
  <2>3. sink' \in SinkRecord
    BY ONLY <1>1, <2>1, <2>2 DEF SinkRecord
  <2> QED
    BY <1>1, <2>1, <2>2, <2>3 DEF SinkRecord
<1>3. ThreadInv'
  BY <1>1, <1>2, ThreadsOnly DEF UdpInv, ThreadInv, Draining
<1> QED
  BY <1>1, <1>2, <1>3 DEF UdpInv

LEMMA NextUdpInv ==
  ASSUME UdpInv, [UdpNext]_udpVars
  PROVE  UdpInv'
<1>0. ThreadInv
  BY DEF UdpInv
<1>1. CASE ApplicationEncodes
  BY <1>0, <1>1, ApplicationStep, UdpQuiet DEF threadVars
<1>2. CASE SinkThread
  BY <1>0, <1>2, RestStep, ExitStep, UdpQuiet, UdpPoll, UdpCopy, UdpSend DEF SinkThread
<1>3. CASE UdpTimer
  BY <1>0, <1>3, QuietSteps, TimerTickStep, UdpQuiet DEF UdpTimer
<1>4. CASE ShutdownFlush \/ UdpMain \/ JoinTimesOut
  BY <1>0, <1>4, ShutdownFlushStep, EncodeProcessEndedStep, QuietSteps, UdpQuiet DEF UdpMain
<1>5. CASE Exited \/ UNCHANGED udpVars
  BY <1>0, <1>5, QuietSteps, UdpQuiet DEF udpVars
<1> QED
  BY <1>1, <1>2, <1>3, <1>4, <1>5 DEF UdpNext

(* With every thread running, the sink keeps its accounts, a shutdown is   *)
(* on its way, and the sends are in step until the first wait.             *)
THEOREM AlwaysUdpInv == UdpSpec => []UdpInv
BY InitUdpInv, NextUdpInv, PTL DEF UdpSpec

(* The sink thread can always poll what the ring says is next, so it never *)
(* takes the branches that end it on a bad length or an empty poll.        *)
THEOREM ReaderSucceeds == UdpSpec => []PollSucceeds
<1>1. UdpInv => PollSucceeds
  BY ReaderFinds DEF UdpInv, ThreadInv, PollSucceeds, Empty
<1> QED
  BY <1>1, AlwaysUdpInv, PTL

(* Each message polled has one send, until the thread waits with a message *)
(* it has polled and not copied.                                           *)
THEOREM EachPolledIsSentOnce == UdpSpec => []PolledIsSent
<1>1. UdpInv => PolledIsSent
  BY DEF UdpInv, InStep, PolledIsSent
<1> QED
  BY <1>1, AlwaysUdpInv, PTL

(* Once process_ended has joined the sink thread nothing that was encoded  *)
(* before it was called is left behind.                                    *)
THEOREM UdpShutdownDrains == UdpSpec => []ShutdownDrains
<1>1. UdpInv => ShutdownDrains
  BY DEF UdpInv, ThreadInv, Draining, ShutdownDrains
<1> QED
  BY <1>1, AlwaysUdpInv, PTL

(* The accounts of the sink also hold with the threads around it: packets  *)
(* keep their limit, every number is one batch and no command vanishes,    *)
(* although the sink thread waits with bytes that the ring may reuse.      *)
THEOREM UdpKeepsAccounts == UdpSpec => [](PacketSizes /\ SequenceAccounting /\ LossAccounting)
<1>1. UdpInv => PacketSizes /\ SequenceAccounting /\ LossAccounting
  BY SinkPacksMessages, SinkCountsBatches, SinkLosesKnowingly DEF UdpInv, ThreadInv
<1> QED
  BY <1>1, AlwaysUdpInv, PTL
-----------------------------------------------------------------------------
(* TCP: connects of the setup and of the timer thread race with each other *)
(* and with a write that is about to fail.                                 *)
Stray == (1..opened) \ (broken \cup {sock})
SocketsOK ==
  /\ opened \in Nat
  /\ sock \in 0..opened
  /\ writing \in 0..opened
  /\ sink \in SinkRecord
  /\ sink.pc = "sending" => writing # NoSocket

(* The sink thread writes to a socket that sock no longer holds.           *)
WritesElsewhere == writing \notin {NoSocket, sock}

(* A socket is abandoned when a connect returns over another.  It takes    *)
(* the setup to be late, or the timer thread to have begun its connect     *)
(* while the setup was connecting; either can happen once.  And a failing  *)
(* write forgets a socket that works only in place of its own.             *)
OneRace ==
  /\ setup = "connecting" =>
       Stray = {} /\ ~WritesElsewhere /\ (timer = "connecting" => sock = NoSocket)
  /\ timer = "connecting" /\ sock # NoSocket => Stray = {} /\ ~WritesElsewhere
  /\ WritesElsewhere => Stray \subseteq {writing}
  /\ \A a, b \in Stray : a = b

SocketInv == SocketsOK /\ OneRace
-----------------------------------------------------------------------------
LEMMA InitSocketInv == TcpInit => SocketInv
<1> SUFFICES ASSUME TcpInit PROVE SocketInv OBVIOUS
<1>1. /\ sock = 0 /\ opened = 0 /\ writing = 0 /\ timer = "check"
      /\ sink = [pc |-> "awake", bytes |-> 0, at |-> 0, size |-> 0, jittered_sends |-> 0]
  BY DEF TcpInit, InitThreads, NoSocket
<1>2. sink \in SinkRecord /\ sink.pc = "awake" BY <1>1 DEF SinkRecord, Places
<1>3. SocketsOK BY <1>1, <1>2 DEF SocketsOK
<1>4. Stray = {} BY <1>1 DEF Stray
<1>5. ~WritesElsewhere BY <1>1 DEF WritesElsewhere, NoSocket
<1>6. OneRace BY <1>1, <1>4, <1>5 DEF OneRace
<1> QED BY <1>3, <1>6 DEF SocketInv

(* Steps that touch no socket and begin neither a write nor a connect.     *)
LEMMA OtherSteps ==
  ASSUME SocketInv, UNCHANGED socketVars, sink' \in SinkRecord, sink'.pc = sink.pc \/ sink'.pc # "sending",
         timer' = timer \/ timer' # "connecting"
  PROVE  SocketInv'
<1>1. UNCHANGED <<sock, opened, broken, writing, setup>> BY DEF socketVars
<1>2. SocketsOK' BY <1>1 DEF SocketInv, SocketsOK
<1>3. Stray' = Stray /\ (WritesElsewhere' <=> WritesElsewhere) BY <1>1 DEF Stray, WritesElsewhere
<1>4. OneRace' BY <1>1, <1>3 DEF SocketInv, OneRace
<1> QED BY <1>2, <1>4 DEF SocketInv

LEMMA TracesKeeps == ASSUME SocketInv, Traces PROVE SocketInv'
BY OtherSteps DEF Traces, ApplicationEncodes, threadVars, SocketInv, SocketsOK

LEMMA MainKeeps == ASSUME SocketInv, ProcessEnds \/ TcpMain PROVE SocketInv'
<1>1. UNCHANGED socketVars /\ UNCHANGED <<sink, timer>>
  BY DEF ProcessEnds, TcpMain, ShutdownFlush, EncodeProcessEnded, StopRunning, Joined, JoinTimesOut,
         ProcessExits, MainSteps
<1> QED BY <1>1, OtherSteps DEF SocketInv, SocketsOK

LEMMA ExitedKeeps == ASSUME SocketInv, (Exited /\ UNCHANGED socketVars) \/ UNCHANGED tcpVars PROVE SocketInv'
BY OtherSteps DEF Exited, tcpVars, threadVars, SocketInv, SocketsOK

(* A new socket is 1 + opened, so it was not among the old ones.           *)
LEMMA Connected ==
  ASSUME SocketInv, ConnectReturns
  PROVE  /\ sock' \in 0..opened' /\ writing' = writing /\ writing' \in 0..opened' /\ opened' \in Nat
         /\ broken' = broken
         /\ Stray' \subseteq Stray \cup {sock} /\ (sock = NoSocket => Stray' \subseteq Stray)
<1>1. opened \in Nat /\ sock \in 0..opened /\ writing \in 0..opened BY DEF SocketInv, SocketsOK
<1>2. writing' = writing /\ broken' = broken BY DEF ConnectReturns
<1>3. CASE opened' = opened + 1 /\ sock' = opened + 1 BY <1>1, <1>2, <1>3 DEF Stray, NoSocket
<1>4. CASE sock' = NoSocket /\ UNCHANGED opened BY <1>1, <1>2, <1>4 DEF Stray, NoSocket
<1> QED BY <1>3, <1>4 DEF ConnectReturns

LEMMA SetupConnectsKeeps == ASSUME SocketInv, SetupConnects PROVE SocketInv'
<1>1. setup = "connecting" /\ setup' = "done" /\ ConnectReturns /\ UNCHANGED <<sink, timer>>
  BY DEF SetupConnects, threadVars
<1>2. /\ sock' \in 0..opened' /\ writing' = writing /\ writing' \in 0..opened' /\ opened' \in Nat
      /\ Stray' \subseteq Stray \cup {sock} /\ (sock = NoSocket => Stray' \subseteq Stray)
  BY <1>1, Connected
<1>3. Stray = {} /\ (writing = NoSocket \/ writing = sock) /\ (timer = "connecting" => sock = NoSocket)
  BY <1>1 DEF SocketInv, OneRace, WritesElsewhere
<1>4. SocketsOK' BY <1>1, <1>2 DEF SocketInv, SocketsOK
<1>5. timer' = "connecting" => Stray' = {} /\ ~WritesElsewhere'
  BY <1>1, <1>2, <1>3 DEF WritesElsewhere
<1>6. WritesElsewhere' => Stray' \subseteq {writing'} BY <1>2, <1>3 DEF WritesElsewhere
<1>7. \A a, b \in Stray' : a = b BY <1>2, <1>3
<1> QED BY <1>1, <1>4, <1>5, <1>6, <1>7 DEF SocketInv, OneRace

LEMMA TimerConnectsKeeps == ASSUME SocketInv, TimerConnects PROVE SocketInv'
<1>1. timer = "connecting" /\ timer' = "check" /\ ConnectReturns /\ UNCHANGED <<sink, setup>>
  BY DEF TimerConnects, TimerMoves
<1>2. /\ sock' \in 0..opened' /\ writing' = writing /\ writing' \in 0..opened' /\ opened' \in Nat
      /\ Stray' \subseteq Stray \cup {sock} /\ (sock = NoSocket => Stray' \subseteq Stray)
  BY <1>1, Connected
<1>3. SocketsOK' BY <1>1, <1>2 DEF SocketInv, SocketsOK
<1>4. sock # NoSocket => Stray = {} /\ (writing = NoSocket \/ writing = sock)
  BY <1>1 DEF SocketInv, OneRace, WritesElsewhere
<1>5. setup' = "connecting" => Stray' = {} /\ ~WritesElsewhere'
  BY <1>1, <1>2 DEF SocketInv, OneRace, WritesElsewhere
<1>6. ASSUME WritesElsewhere' PROVE Stray' \subseteq {writing'}
  <2>1. CASE sock = NoSocket
    <3>1. WritesElsewhere BY <1>2, <1>6, <2>1 DEF WritesElsewhere
    <3> QED BY <1>2, <2>1, <3>1 DEF SocketInv, OneRace
  <2>2. CASE sock # NoSocket BY <1>2, <1>4, <1>6, <2>2 DEF WritesElsewhere
  <2> QED BY <2>1, <2>2
<1>7. \A a, b \in Stray' : a = b BY <1>2, <1>4 DEF SocketInv, OneRace
<1> QED BY <1>1, <1>3, <1>5, <1>6, <1>7 DEF SocketInv, OneRace

(* The timer thread begins to connect only where there is no socket.       *)
LEMMA TcpTimerKeeps == ASSUME SocketInv, TcpTimer PROVE SocketInv'
<1>1. CASE TimerFindsNoSocket
  <2>1. sock = NoSocket /\ timer' = "connecting" /\ UNCHANGED <<sock, opened, broken, writing, setup, sink>>
    BY <1>1 DEF TimerFindsNoSocket, TimerMoves, MayReconnect, socketVars
  <2>2. SocketsOK' BY <2>1 DEF SocketInv, SocketsOK
  <2>3. Stray' = Stray /\ (WritesElsewhere' <=> WritesElsewhere) BY <2>1 DEF Stray, WritesElsewhere
  <2>4. OneRace' BY <2>1, <2>3 DEF SocketInv, OneRace
  <2> QED BY <2>2, <2>4 DEF SocketInv
<1>2. CASE (TimerCheck \/ TimerTick("flushed") \/ TimerFindsSocket) /\ UNCHANGED socketVars
  <2>1. timer' # "connecting" /\ UNCHANGED sink
    BY <1>2 DEF TimerCheck, TimerTick, TimerFindsSocket, TimerMoves
  <2> QED BY <1>2, <2>1, OtherSteps DEF SocketInv, SocketsOK
<1> QED BY <1>1, <1>2 DEF TcpTimer, TimerFindsSocket

LEMMA SinkRunsKeeps == ASSUME SocketInv, SinkRuns PROVE SocketInv'
<1>1. CASE (SinkRests \/ SinkExits) /\ UNCHANGED socketVars
  <2>1. PICK to \in {"asleep", "done"} : SinkSteps("awake", to) BY <1>1 DEF SinkRests, SinkExits
  <2>2. sink' \in SinkRecord /\ sink'.pc # "sending" /\ timer' = timer BY <2>1, SinkIs DEF SocketInv, SocketsOK, Places
  <2> QED BY <1>1, <2>2, OtherSteps
<1>2. CASE SinkWakes /\ UNCHANGED socketVars
  <2>1. sink' = [sink EXCEPT !.pc = "awake", !.bytes = 0] /\ timer' = timer BY <1>2 DEF SinkWakes
  <2>2. sink' \in SinkRecord /\ sink'.pc # "sending" BY <2>1 DEF SocketInv, SocketsOK, SinkRecord, Places
  <2> QED BY <1>2, <2>1, <2>2, OtherSteps
<1>3. CASE PollWithoutSocket
  <2>1. SinkSteps("awake", "awake") /\ UNCHANGED <<sock, opened, broken, writing, setup>>
    BY <1>3 DEF PollWithoutSocket, socketVars
  <2>2. sink' \in SinkRecord /\ sink'.pc = "awake" /\ timer' = timer BY <2>1, SinkIs DEF SocketInv, SocketsOK, Places
  <2>3. SocketsOK' BY <2>1, <2>2 DEF SocketInv, SocketsOK
  <2>4. Stray' = Stray /\ (WritesElsewhere' <=> WritesElsewhere) BY <2>1 DEF Stray, WritesElsewhere
  <2>5. OneRace' BY <2>1, <2>2, <2>4 DEF SocketInv, OneRace
  <2> QED BY <2>3, <2>5 DEF SocketInv
<1>4. CASE PollThenWrite
  <2>1. sock # NoSocket /\ SinkSteps("awake", "sending") /\ writing' = sock /\ UNCHANGED <<sock, opened, broken, setup>>
    BY <1>4 DEF PollThenWrite
  <2>2. sink' \in SinkRecord /\ timer' = timer BY <2>1, SinkIs DEF SocketInv, SocketsOK, Places
  <2>3. SocketsOK' BY <2>1, <2>2 DEF SocketInv, SocketsOK
  <2>4. Stray' = Stray /\ ~WritesElsewhere' BY <2>1 DEF Stray, WritesElsewhere
  <2>5. OneRace' BY <2>1, <2>2, <2>4 DEF SocketInv, OneRace
  <2> QED BY <2>3, <2>5 DEF SocketInv
<1> QED BY <1>1, <1>2, <1>3, <1>4 DEF SinkRuns

LEMMA WriteKeeps == ASSUME SocketInv, WriteSucceeds \/ WriteFails PROVE SocketInv'
<1>1. SinkSteps("sending", "awake") /\ writing' = NoSocket /\ UNCHANGED <<opened, setup>>
  BY DEF WriteSucceeds, WriteFails
<1>2. sink' \in SinkRecord /\ sink'.pc = "awake" /\ sink.pc = "sending" /\ timer' = timer BY <1>1, SinkIs DEF SocketInv, SocketsOK, Places
<1>3. ~WritesElsewhere' BY <1>1 DEF WritesElsewhere
<1>4. opened \in Nat /\ sock \in 0..opened /\ writing \in 0..opened /\ writing # NoSocket
  BY <1>2 DEF SocketInv, SocketsOK
<1>5. CASE WriteSucceeds
  <2>1. UNCHANGED <<sock, broken>> BY <1>5 DEF WriteSucceeds
  <2>2. SocketsOK' BY <1>1, <1>2, <1>4, <2>1 DEF SocketsOK, NoSocket
  <2>3. Stray' = Stray BY <1>1, <2>1 DEF Stray
  <2>4. OneRace' BY <1>1, <1>2, <1>3, <2>1, <2>3 DEF SocketInv, OneRace
  <2> QED BY <2>2, <2>4 DEF SocketInv
<1>6. CASE WriteFails
  <2>1. sock' = NoSocket /\ broken' = broken \cup {writing} BY <1>6 DEF WriteFails
  <2>2. SocketsOK' BY <1>1, <1>2, <1>4, <2>1 DEF SocketsOK, NoSocket
  <2>3. Stray' \subseteq (Stray \cup {sock}) \ {writing}
    BY <1>1, <2>1 DEF Stray
  <2>4. CASE WritesElsewhere
    <3>1. Stray' \subseteq {sock} BY <2>3, <2>4 DEF SocketInv, OneRace
    <3>2. setup' # "connecting" BY <1>1, <2>4 DEF SocketInv, OneRace
    <3> QED BY <1>3, <2>1, <2>2, <3>1, <3>2 DEF SocketInv, OneRace
  <2>5. CASE ~WritesElsewhere
    <3>1. writing = sock BY <1>4, <2>5 DEF WritesElsewhere
    <3>2. Stray' \subseteq Stray BY <2>3, <3>1
    <3> QED BY <1>1, <1>2, <1>3, <2>1, <2>2, <3>2 DEF SocketInv, OneRace
  <2> QED BY <2>4, <2>5
<1> QED BY <1>5, <1>6

LEMMA NextSocketInv == SocketInv /\ [TcpNext]_tcpVars => SocketInv'
BY TracesKeeps, SetupConnectsKeeps, TcpTimerKeeps, TimerConnectsKeeps, SinkRunsKeeps, WriteKeeps, MainKeeps,
   ExitedKeeps DEF TcpNext

LEMMA AlwaysSocketInv == TcpSpec => []SocketInv
BY InitSocketInv, NextSocketInv, PTL DEF TcpSpec

(* Whatever the order in which connects return and writes fail, and        *)
(* however many there are, at most one working socket is abandoned.        *)
THEOREM OneStraySocket == TcpSpec => []AtMostOneStraySocket
<1>1. ASSUME SocketInv PROVE AtMostOneStraySocket
  <2>1. Stray = {} \/ \E x : Stray = {x} BY <1>1 DEF SocketInv, OneRace
  <2>2. Cardinality(Stray) \in {0, 1} BY <2>1, FS_EmptySet, FS_Singleton
  <2>3. Cardinality(Stray) <= 1 BY <2>2
  <2> QED BY <2>3 DEF AtMostOneStraySocket, Stray
<1> QED BY <1>1, AlwaysSocketInv, PTL
-----------------------------------------------------------------------------
(* What the sink thread is writing comes before all that waits.            *)
InHandFirst ==
  sink.pc = "sending" =>
    /\ payload \in SinkMessages /\ IdsAscend(payload.events)
    /\ \A a \in Ids(payload) : a \in 1..encoded
    /\ \A a \in Ids(payload), b \in InFlight : a < b

TcpInv == ThreadInv /\ IsLog(sends) /\ InStep /\ InHandFirst

TcpPipe == (IF sink.pc = "sending" THEN Ids(payload) ELSE {}) \cup InFlight

(* The three things a step can do to the channel, and the fourth is        *)
(* nothing.                                                                *)
ChannelStep ==
  \/ /\ encoded' = encoded + 1 /\ TcpPipe' \subseteq TcpPipe \cup {encoded + 1}
     /\ UNCHANGED sends
  \/ /\ encoded' = encoded /\ TcpPipe' \subseteq TcpPipe /\ UNCHANGED sends
  \/ /\ encoded' = encoded /\ TcpPipe' \subseteq TcpPipe
     /\ \E m : DoneWith(m, FALSE)
  \/ /\ encoded' = encoded /\ sink.pc = "sending" /\ TcpPipe' = InFlight
     /\ DoneWith(payload, TRUE)

LEMMA InitTcpInv == TcpInit => TcpInv
<1> SUFFICES ASSUME TcpInit PROVE TcpInv
  OBVIOUS
<1>1. InitThreads /\ sink.pc = "awake"
  BY DEF TcpInit, InitThreads
<1> QED
  BY <1>1, InitThreadInv, InitInStep DEF TcpInv, InHandFirst

(* The message in hand stays the oldest while others are encoded.          *)
LEMMA InHandKept ==
  ASSUME InHandFirst, encoded \in Nat, encoded' \in {encoded, encoded + 1},
         UNCHANGED payload, sink'.pc = "sending" => sink.pc = "sending",
         InFlight' \subseteq InFlight \cup {encoded + 1}
  PROVE  InHandFirst'
<1>1. SUFFICES ASSUME sink'.pc = "sending"
               PROVE  /\ payload \in SinkMessages /\ IdsAscend(payload.events)
                      /\ \A a \in Ids(payload) : a \in 1..encoded'
                      /\ \A a \in Ids(payload), b \in InFlight' : a < b
  BY DEF InHandFirst
<1>2. /\ payload \in SinkMessages /\ IdsAscend(payload.events)
      /\ \A a \in Ids(payload) : a \in 1..encoded
      /\ \A a \in Ids(payload), b \in InFlight : a < b
  BY <1>1 DEF InHandFirst
<1>3. \A a \in Ids(payload) : a \in 1..encoded' /\ a < encoded + 1
  BY <1>2
<1> QED
  BY <1>2, <1>3

LEMMA TcpQuiet ==
  ASSUME TcpInv, ThreadInv', UNCHANGED <<sends, polled, payload>>,
         \/ sink' = sink
         \/ sink.pc \notin {"jitter", "sending"} /\ sink'.pc \notin {"jitter", "sending"},
         \/ encoded' = encoded /\ InFlight' \subseteq InFlight
         \/ encoded' = encoded + 1 /\ InFlight' \subseteq InFlight \cup {encoded + 1}
  PROVE  TcpInv' /\ ChannelStep
<1>1. encoded \in Nat /\ (sink'.pc = "sending" <=> sink.pc = "sending")
  BY EncodedIsNat DEF TcpInv, ThreadInv
<1>2. InHandFirst'
  BY <1>1, InHandKept DEF TcpInv
<1>3. InStep'
  BY InStepKept DEF TcpInv
<1>4. ChannelStep
  BY <1>1 DEF ChannelStep, TcpPipe
<1> QED
  BY <1>2, <1>3, <1>4 DEF TcpInv

LEMMA TcpPollFacts ==
  ASSUME TcpInv, PollMessage
  PROVE  /\ NextMessage \in SinkMessages /\ polled' = Append(polled, NextMessage) /\ polled \in Seq(SinkMessages)
         /\ IdsAscend(NextMessage.events)
         /\ InFlight = Ids(NextMessage) \cup InFlight'
         /\ \A a \in Ids(NextMessage), b \in InFlight' : a < b
         /\ \A a \in Ids(NextMessage) : a \in 1..encoded
         /\ UNCHANGED encoded
         /\ \E f \in {ring, Forget(ring, ring.a_start)} : PollFrom(f)
<1>1. SinkInv /\ PollFrom(Forget(ring, ring.a_start))
  BY DEF TcpInv, ThreadInv, PollMessage
<1>2. polled \in Seq(SinkMessages)
  BY <1>1 DEF SinkInv
<1> QED
  BY <1>1, <1>2, PollInv

LEMMA TcpPollWithoutSocket ==
  ASSUME TcpInv, PollWithoutSocket
  PROVE  TcpInv' /\ ChannelStep
<1>1. PollMessage /\ SinkSteps("awake", "awake") /\ DoneWith(NextMessage, FALSE)
  BY DEF PollWithoutSocket
<1>2. /\ NextMessage \in SinkMessages /\ polled' = Append(polled, NextMessage) /\ polled \in Seq(SinkMessages)
      /\ InFlight = Ids(NextMessage) \cup InFlight' /\ UNCHANGED encoded
      /\ \E f \in {ring, Forget(ring, ring.a_start)} : PollFrom(f)
  BY <1>1, TcpPollFacts
<1>3. /\ sink' \in SinkRecord /\ sink'.pc = "awake" /\ sink.pc = "awake"
      /\ UNCHANGED <<running, timer, main, ended>>
  BY <1>1, SinkIs DEF TcpInv, ThreadInv, Places
<1>4. ThreadInv'
  BY <1>2, <1>3, PollStep DEF TcpInv
<1>5. InStep' /\ IsLog(sends)'
  BY <1>1, <1>2, <1>3, InStepUnsent DEF TcpInv
<1>6. InHandFirst'
  BY <1>3 DEF InHandFirst
<1>7. ChannelStep
  BY <1>1, <1>2, <1>3 DEF ChannelStep, TcpPipe
<1> QED
  BY <1>4, <1>5, <1>6, <1>7 DEF TcpInv

LEMMA TcpPollThenWrite ==
  ASSUME TcpInv, PollThenWrite
  PROVE  TcpInv' /\ ChannelStep
<1>1. PollMessage /\ SinkSteps("awake", "sending") /\ payload' = NextMessage /\ UNCHANGED sends
  BY DEF PollThenWrite
<1>2. /\ NextMessage \in SinkMessages /\ polled' = Append(polled, NextMessage) /\ polled \in Seq(SinkMessages)
      /\ IdsAscend(NextMessage.events)
      /\ InFlight = Ids(NextMessage) \cup InFlight'
      /\ \A a \in Ids(NextMessage), b \in InFlight' : a < b
      /\ \A a \in Ids(NextMessage) : a \in 1..encoded
      /\ UNCHANGED encoded
      /\ \E f \in {ring, Forget(ring, ring.a_start)} : PollFrom(f)
  BY <1>1, TcpPollFacts
<1>3. /\ sink' \in SinkRecord /\ sink'.pc = "sending" /\ sink.pc = "awake"
      /\ UNCHANGED <<running, timer, main, ended>>
  BY <1>1, SinkIs DEF TcpInv, ThreadInv, Places
<1>4. ThreadInv'
  BY <1>2, <1>3, PollStep DEF TcpInv
<1>5. InStep' /\ IsLog(sends)'
  BY <1>1, <1>2, <1>3, InStepPolled DEF TcpInv
<1>6. InHandFirst'
  BY <1>1, <1>2 DEF InHandFirst
<1>7. ChannelStep
  <2>1. Ids(payload)' = Ids(NextMessage)
    BY <1>1 DEF Ids
  <2> QED
    BY <1>1, <1>2, <1>3, <2>1 DEF ChannelStep, TcpPipe
<1> QED
  BY <1>4, <1>5, <1>6, <1>7 DEF TcpInv

LEMMA TcpWrite ==
  ASSUME TcpInv, WriteSucceeds \/ WriteFails
  PROVE  TcpInv' /\ ChannelStep
<1>1. SinkSteps("sending", "awake") /\ UNCHANGED sinkVars /\ UNCHANGED payload
  BY DEF WriteSucceeds, WriteFails
<1>2. DoneWith(payload, TRUE) \/ DoneWith(payload, FALSE)
  BY DEF WriteSucceeds, WriteFails
<1>3. /\ sink' \in SinkRecord /\ sink'.pc = "awake" /\ sink.pc = "sending"
      /\ UNCHANGED <<running, timer, main, ended>>
  BY <1>1, SinkIs DEF TcpInv, ThreadInv, Places
<1>4. ThreadInv' /\ InFlight' = InFlight /\ UNCHANGED <<encoded, polled>>
  BY <1>1, <1>3, ThreadsOnly DEF TcpInv, ThreadInv, Draining
<1>5. InStep' /\ IsLog(sends)'
  BY <1>1, <1>2, <1>3, <1>4, InStepDone DEF TcpInv
<1>6. InHandFirst'
  BY <1>3 DEF InHandFirst
<1>7. TcpPipe' = InFlight /\ InFlight \subseteq TcpPipe
  BY <1>3, <1>4 DEF TcpPipe
<1>8. ChannelStep
  BY <1>2, <1>3, <1>4, <1>7 DEF ChannelStep
<1> QED
  BY <1>4, <1>5, <1>6, <1>8 DEF TcpInv

LEMMA NextTcpInv ==
  ASSUME TcpInv, [TcpNext]_tcpVars
  PROVE  TcpInv' /\ ChannelStep
<1>0. ThreadInv
  BY DEF TcpInv
<1>1. CASE Traces
  <2>1. ApplicationEncodes
    BY <1>1 DEF Traces
  <2> QED
    BY <1>0, <2>1, ApplicationStep, TcpQuiet DEF threadVars
<1>2. CASE SetupConnects \/ TcpTimer \/ TcpMain \/ ProcessEnds \/ TimerConnects
  <2>1. CASE SetupConnects \/ TimerFindsSocket \/ TimerFindsNoSocket \/ TimerConnects
    <3>1. UNCHANGED sinkVars /\ UNCHANGED <<running, sink, payload, main, sends, ended>>
      BY <2>1 DEF SetupConnects, TimerFindsSocket, TimerFindsNoSocket, TimerConnects, TimerMoves, threadVars
    <3>2. ThreadInv' /\ InFlight' = InFlight /\ UNCHANGED <<encoded, polled>>
      BY <1>0, <3>1, ThreadsOnly DEF ThreadInv, Draining
    <3> QED
      BY <3>1, <3>2, TcpQuiet
  <2>2. CASE TimerCheck \/ StopRunning \/ Joined \/ JoinTimesOut \/ ProcessExits
    BY <1>0, <2>2, QuietSteps, TcpQuiet
  <2>3. CASE TimerTick("flushed")
    BY <1>0, <2>3, TimerTickStep, TcpQuiet
  <2>4. CASE ShutdownFlush
    BY <1>0, <2>4, ShutdownFlushStep, TcpQuiet
  <2>5. CASE EncodeProcessEnded
    BY <1>0, <2>5, EncodeProcessEndedStep, TcpQuiet
  <2> QED
    BY <1>2, <2>1, <2>2, <2>3, <2>4, <2>5 DEF TcpTimer, TcpMain, ProcessEnds
<1>3. CASE SinkRuns
  <2>1. CASE SinkRests \/ SinkWakes
    BY <1>0, <2>1, RestStep, TcpQuiet
  <2>2. CASE SinkExits
    BY <1>0, <2>2, ExitStep, TcpQuiet
  <2> QED
    BY <1>3, <2>1, <2>2, TcpPollWithoutSocket, TcpPollThenWrite DEF SinkRuns
<1>4. CASE WriteSucceeds \/ WriteFails
  BY <1>4, TcpWrite
<1>5. CASE Exited \/ UNCHANGED tcpVars
  BY <1>0, <1>5, QuietSteps, TcpQuiet DEF tcpVars
<1> QED
  BY <1>1, <1>2, <1>3, <1>4, <1>5 DEF TcpNext

(* Over TCP the sends are always in step, and what is written is older     *)
(* than all that waits.                                                    *)
THEOREM AlwaysTcpInv == TcpSpec => []TcpInv
BY InitTcpInv, NextTcpInv, PTL DEF TcpSpec

(* Each message polled is written once, or fails once, or meets no socket. *)
THEOREM EachPolledIsWrittenOnce == TcpSpec => []PolledIsWritten
<1>1. TcpInv => PolledIsWritten
  BY DEF TcpInv, InStep, PolledIsWritten
<1> QED
  BY <1>1, AlwaysTcpInv, PTL

(* The shutdown over TCP drains the ring as well, when the join returns    *)
(* because the sink thread ended.                                          *)
THEOREM TcpShutdownDrains == TcpSpec => []ShutdownDrains
<1>1. TcpInv => ShutdownDrains
  BY DEF TcpInv, ThreadInv, Draining, ShutdownDrains
<1> QED
  BY <1>1, AlwaysTcpInv, PTL

(* The accounts of the sink hold over TCP too, whatever connects, failed   *)
(* writes and polls without a socket do around it.                         *)
THEOREM TcpKeepsAccounts == TcpSpec => [](PacketSizes /\ SequenceAccounting /\ LossAccounting)
<1>1. TcpInv => PacketSizes /\ SequenceAccounting /\ LossAccounting
  BY SinkPacksMessages, SinkCountsBatches, SinkLosesKnowingly DEF TcpInv, ThreadInv
<1> QED
  BY <1>1, AlwaysTcpInv, PTL
-----------------------------------------------------------------------------
(* What the sends put on the wire.                                         *)
OnWire(s) == [i \in 1..Len(s) |-> Written(s[i])]

LEMMA OnWireAppend ==
  ASSUME NEW s, IsLog(s), NEW x
  PROVE  /\ OnWire(Append(s, x)) = Append(OnWire(s), Written(x))
         /\ OnWire(Append(s, x)) # <<>>
         /\ OnWire(Append(s, x))[Len(OnWire(Append(s, x)))] = Written(x)
<1> DEFINE t == Append(s, x)
           All == {Written(s[i]) : i \in 1..Len(s)} \cup {Written(x)}
<1>1. /\ Len(s) \in Nat /\ Len(t) = Len(s) + 1
      /\ \A i \in 1..Len(s) : t[i] = s[i]
      /\ t[Len(s) + 1] = x
  BY LogAppend
<1> HIDE DEF t
<1>2. Written(x) \in All /\ \A i \in 1..Len(s) : Written(s[i]) \in All
  OBVIOUS
<1> HIDE DEF All
<1>3. \A i \in 1..Len(t) : i \in 1..Len(s) \/ i = Len(s) + 1
  BY <1>1
<1>4. \A i \in 1..Len(t) : Written(t[i]) \in All
  BY <1>1, <1>2, <1>3
<1>5. /\ OnWire(s) \in Seq(All) /\ Len(OnWire(s)) = Len(s)
      /\ \A i \in 1..Len(s) : OnWire(s)[i] = Written(s[i])
  BY <1>1, <1>2, IsASeq DEF OnWire
<1>6. /\ OnWire(t) \in Seq(All) /\ Len(OnWire(t)) = Len(t)
      /\ \A i \in 1..Len(t) : OnWire(t)[i] = Written(t[i])
  BY <1>1, <1>4, IsASeq DEF OnWire
<1>7. /\ Append(OnWire(s), Written(x)) \in Seq(All)
      /\ Len(Append(OnWire(s), Written(x))) = Len(s) + 1
      /\ \A i \in 1..Len(s) : Append(OnWire(s), Written(x))[i] = Written(s[i])
      /\ Append(OnWire(s), Written(x))[Len(s) + 1] = Written(x)
  BY <1>2, <1>5, AppendProperties
<1>8. \A i \in 1..Len(OnWire(t)) : OnWire(t)[i] = Append(OnWire(s), Written(x))[i]
  <2>1. ASSUME NEW i \in 1..Len(t) PROVE OnWire(t)[i] = Append(OnWire(s), Written(x))[i]
    <3>1. CASE i \in 1..Len(s)
      BY <1>1, <1>6, <1>7, <3>1
    <3>2. CASE i = Len(s) + 1
      BY <1>1, <1>6, <1>7, <3>2
    <3> QED
      BY <1>3, <3>1, <3>2
  <2> QED
    BY <1>6, <2>1
<1>9. OnWire(t) = Append(OnWire(s), Written(x))
  BY <1>1, <1>6, <1>7, <1>8, SeqEqual
<1>10. OnWire(t) # <<>> /\ OnWire(t)[Len(OnWire(t))] = Written(x)
  <2>1. Len(OnWire(t)) = Len(s) + 1 /\ Len(s) + 1 \in 1..Len(t)
    BY <1>1, <1>6
  <2>2. OnWire(t) # <<>>
    BY <1>1, <1>6, <2>1, EmptySeq
  <2> QED
    BY <1>1, <1>6, <2>1, <2>2
<1> QED
  BY <1>9, <1>10 DEF t

(* A payload put on the wire, or lost, is a step of the channel.           *)
LEMMA SendIsDelivery ==
  ASSUME IsLog(sends), NEW m, NEW sent \in BOOLEAN, DoneWith(m, sent), encoded' = encoded,
         NEW packet, packet = IF sent THEN Packet(m) ELSE <<>>,
         \A i \in 1..Len(packet) : packet[i] \in TcpPipe,
         \A i, j \in 1..Len(packet) : i < j => packet[i] < packet[j],
         TcpPipe' \subseteq TcpPipe \ {packet[i] : i \in 1..Len(packet)},
         \A i \in 1..Len(packet) : \A later \in TcpPipe' : packet[i] < later
  PROVE  WireChannel!Next
<1> DEFINE delivered == OnWire(sends)
           x == [msg |-> m, sent |-> sent]
<1>1. sends' = Append(sends, x) /\ Written(x) = packet
  BY DEF DoneWith, Written
<1> HIDE DEF x
<1>2. /\ OnWire(sends') = Append(OnWire(sends), packet)
      /\ OnWire(sends') # <<>>
      /\ OnWire(sends')[Len(OnWire(sends'))] = packet
  BY <1>1, OnWireAppend
<1>3. WireChannel!Deliver(packet)
  BY <1>2 DEF WireChannel!Deliver, OnWire, TcpPipe
<1>4. WireChannel!Deliver(OnWire(sends')[Len(OnWire(sends'))])
  BY <1>2, <1>3
<1> QED
  BY <1>2, <1>4 DEF WireChannel!Next, OnWire

(* Whatever is lost with a connection, what the Agent reads over TCP is in *)
(* the order it was encoded, and no command comes twice.                   *)
THEOREM WireIsALossyChannel == TcpSpec => WireInOrder
<1>1. TcpInit => WireChannel!Init
  <2> SUFFICES ASSUME TcpInit PROVE WireChannel!Init
    OBVIOUS
  <2>1. InFlight = {} /\ encoded = 0 /\ sends = <<>> /\ sink.pc = "awake"
    BY InitSinkInv DEF TcpInit, InitThreads, InitBatchedSink
  <2>2. [i \in 1..Len(sends) |-> Written(sends[i])] = <<>>
    BY <2>1
  <2> QED
    BY <2>1, <2>2 DEF WireChannel!Init
<1>2. ASSUME TcpInv, [TcpNext]_tcpVars
      PROVE  [WireChannel!Next]_(WireChannel!channelVars)
  <2>0. TcpInv' /\ ChannelStep
    BY <1>2, NextTcpInv
  <2>1. CASE /\ encoded' = encoded + 1 /\ TcpPipe' \subseteq TcpPipe \cup {encoded + 1}
             /\ UNCHANGED sends
    BY <2>1 DEF WireChannel!Next, WireChannel!Encode, TcpPipe
  <2>2. CASE encoded' = encoded /\ TcpPipe' \subseteq TcpPipe /\ UNCHANGED sends
    BY <2>2 DEF WireChannel!Next, WireChannel!Lose, TcpPipe
  <2>3. CASE /\ encoded' = encoded /\ TcpPipe' \subseteq TcpPipe
             /\ \E m : DoneWith(m, FALSE)
    <3>1. PICK m : DoneWith(m, FALSE)
      BY <2>3
    <3> DEFINE packet == <<>>
    <3>2. packet = IF FALSE THEN Packet(m) ELSE <<>>
      OBVIOUS
    <3>3. Len(packet) = 0 /\ 1..0 = {}
      OBVIOUS
    <3>4. IsLog(sends)
      BY <1>2 DEF TcpInv
    <3> HIDE DEF packet
    <3>5. {packet[i] : i \in 1..Len(packet)} = {}
      BY <3>3
    <3>6. /\ \A i \in 1..Len(packet) : packet[i] \in TcpPipe
          /\ \A i, j \in 1..Len(packet) : i < j => packet[i] < packet[j]
          /\ TcpPipe' \subseteq TcpPipe \ {packet[i] : i \in 1..Len(packet)}
          /\ \A i \in 1..Len(packet) : \A later \in TcpPipe' : packet[i] < later
      BY <2>3, <3>3, <3>5
    <3>7. WireChannel!Next
      BY <2>3, <3>1, <3>2, <3>4, <3>6, SendIsDelivery, ZenonT(40)
    <3> QED
      BY <3>7
  <2>4. CASE /\ encoded' = encoded /\ sink.pc = "sending" /\ TcpPipe' = InFlight
             /\ DoneWith(payload, TRUE)
    <3>1. /\ payload \in SinkMessages /\ IdsAscend(payload.events)
          /\ \A a \in Ids(payload) : a \in 1..encoded
          /\ \A a \in Ids(payload), b \in InFlight : a < b
          /\ encoded \in Nat /\ IsLog(sends)
      BY <1>2, <2>4, EncodedIsNat DEF TcpInv, InHandFirst, ThreadInv
    <3>2. TcpPipe = Ids(payload) \cup InFlight
      BY <2>4 DEF TcpPipe
    <3>3. /\ \A i \in 1..Len(Packet(payload)) : Packet(payload)[i] \in TcpPipe
          /\ \A i, j \in 1..Len(Packet(payload)) :
               i < j => Packet(payload)[i] < Packet(payload)[j]
          /\ InFlight = TcpPipe \ {Packet(payload)[i] : i \in 1..Len(Packet(payload))}
          /\ \A i \in 1..Len(Packet(payload)) : \A later \in InFlight : Packet(payload)[i] < later
      BY <3>1, <3>2, PacketIsDelivered
    <3> DEFINE packet == Packet(payload)
    <3>4. packet = IF TRUE THEN Packet(payload) ELSE <<>>
      OBVIOUS
    <3>5. /\ \A i \in 1..Len(packet) : packet[i] \in TcpPipe
          /\ \A i, j \in 1..Len(packet) : i < j => packet[i] < packet[j]
          /\ TcpPipe' \subseteq TcpPipe \ {packet[i] : i \in 1..Len(packet)}
          /\ \A i \in 1..Len(packet) : \A later \in TcpPipe' : packet[i] < later
      BY <2>4, <3>3
    <3> HIDE DEF packet
    <3>6. WireChannel!Next
      BY <2>4, <3>1, <3>4, <3>5, SendIsDelivery, ZenonT(40)
    <3> QED
      BY <3>6
  <2> QED
    BY <2>0, <2>1, <2>2, <2>3, <2>4 DEF ChannelStep
<1> QED
  BY <1>1, <1>2, AlwaysTcpInv, PTL DEF TcpSpec, WireInOrder, WireChannel!Spec
=============================================================================
