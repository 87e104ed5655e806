---------------------------- MODULE BatchedSink ----------------------------
(***************************************************************************)
(* rb_rg_batched_sink: encoded commands are packed into a batch of at most *)
(* RG_BATCH_PACKET_SIZE bytes; a full batch gets its header, with the next *)
(* sequence number, and is offered to the ring buffer that a dispatch      *)
(* thread empties.  One call runs without a thread switch (the GVL is held *)
(* until the trailing rb_thread_schedule), so it is one step.              *)
(***************************************************************************)
EXTENDS BipBuffer

CONSTANTS RG_BATCH_HEADLEN, RG_BATCH_PACKET_SIZE, RG_MAX_BATCH_PACKET_SIZE,
          EventSizes,  \* encoded lengths of commands
          MaxEvents    \* bound: commands encoded in a run

ASSUME SizesAssumption ==
  /\ RG_BATCH_HEADLEN \in Nat \ {0}
  /\ RG_BATCH_PACKET_SIZE \in Nat /\ RG_MAX_BATCH_PACKET_SIZE \in Nat
  /\ RG_BATCH_HEADLEN <= RG_BATCH_PACKET_SIZE
  /\ RG_BATCH_PACKET_SIZE <= RG_MAX_BATCH_PACKET_SIZE - 2
  /\ EventSizes \subseteq Nat \ {0}

VARIABLES
  batch,      \* the batch being filled: length, commands with their
              \* offsets, sequence
  ring,       \* the ring buffer
  encoded,    \* history: number of commands given to the sink
  queued,     \* history: messages offered to the ring and not yet polled
  polled,     \* history: messages the dispatch thread took from the ring
  refused,    \* history: messages the full ring turned away
  discarded   \* history: ids of the commands in batches reset unoffered

sinkVars == <<batch, ring, encoded, queued, polled, refused, discarded>>

Event(id, length) == [id |-> id, length |-> length]
NextEvents == {Event(encoded + 1, length) : length \in EventSizes}

(* What is offered to the ring: a batch with its header, or a bare command *)
Batch(b) == [kind |-> "batch", sequence |-> b.sequence,
             events |-> b.events, length |-> b.length]
Raw(e) == [kind |-> "raw", sequence |-> 0,
           events |-> <<Placed(0, e)>>, length |-> e.length]

(* The commands of a message, and those of a sequence of messages.         *)
Ids(m) == {m.events[i].msg.id : i \in 1..Len(m.events)}
IdsOf(ms) == UNION {Ids(ms[i]) : i \in 1..Len(ms)}

InitBatch == [length |-> RG_BATCH_HEADLEN, events |-> <<>>, sequence |-> 0]

SpawnKeepingCommands(b) == [b EXCEPT !.length = RG_BATCH_HEADLEN]
spawn_new_batch(b) == [b EXCEPT !.length = RG_BATCH_HEADLEN, !.events = <<>>]

rg_encode_into_batch(b, e) ==
  [b EXCEPT !.length = @ + e.length, !.events = Append(@, Placed(b.length, e))]

(* The header is encoded with the current number, then the number advances *)
HeaderTwice(b) == [b EXCEPT !.sequence = @]
rg_encode_batch_header(b) == [b EXCEPT !.sequence = @ + 1]

(* The ring takes a message, or finds no room for it.                      *)
Offered(r, m) ==
  IF Fits(r.me, m)
  THEN [r EXCEPT !.me = bipbuf_offer(@, m), !.queued = Append(@, m)]
  ELSE [r EXCEPT !.refused = Append(@, m)]

Now == [me |-> ring, queued |-> queued, refused |-> refused]

Becomes(r) ==
  /\ ring' = r.me
  /\ queued' = r.queued
  /\ refused' = r.refused

Offer(m) == Becomes(Offered(Now, m))

OfferNewestFirst(m1, m2) == Becomes(Offered(Offered(Now, m2), m1))
OfferBoth(m1, m2) == Becomes(Offered(Offered(Now, m1), m2))

NoRoomCheck(length) == TRUE
RoomInBatch(length) == batch.length + length <= RG_BATCH_PACKET_SIZE
RoomInNewBatch(length) == RG_BATCH_HEADLEN + length <= RG_BATCH_PACKET_SIZE
RawSize(length) == length >= RG_MAX_BATCH_PACKET_SIZE - 2

InitBatchedSink ==
  /\ batch = InitBatch
  /\ ring = bipbuf_init
  /\ encoded = 0
  /\ queued = <<>>
  /\ polled = <<>>
  /\ refused = <<>>
  /\ discarded = {}
-----------------------------------------------------------------------------
(* The branches of rb_rg_batched_sink, in the order they are tried.        *)
AppendToBatch(e) ==
  /\ RoomInBatch(e.length)
  /\ batch' = rg_encode_into_batch(batch, e)
  /\ UNCHANGED <<ring, queued, refused, discarded>>

DispatchThenAppend(e) ==
  /\ ~RoomInBatch(e.length)
  /\ RoomInNewBatch(e.length)
  /\ Offer(Batch(batch))
  /\ batch' = rg_encode_into_batch(spawn_new_batch(rg_encode_batch_header(batch)), e)
  /\ UNCHANGED discarded

(* A command for which a batch has no room is sent outside of any batch,   *)
(* and the pending batch is reset without being offered.                   *)
OfferRaw(e) ==
  /\ ~RoomInBatch(e.length)
  /\ ~RoomInNewBatch(e.length)
  /\ RawSize(e.length)
  /\ Offer(Raw(e))
  /\ batch' = spawn_new_batch(batch)
  /\ discarded' = discarded \cup Ids(batch)

(* A command larger than a packet gets a batch of its own, after the       *)
(* pending one.                                                            *)
DispatchLarge(e) ==
  /\ ~RoomInBatch(e.length)
  /\ ~RoomInNewBatch(e.length)
  /\ ~RawSize(e.length)
  /\ LET large == rg_encode_into_batch(spawn_new_batch(rg_encode_batch_header(batch)), e)
     IN /\ OfferBoth(Batch(batch), Batch(large))
        /\ batch' = spawn_new_batch(rg_encode_batch_header(large))
  /\ UNCHANGED discarded

Encode(e) ==
  /\ encoded' = encoded + 1
  /\ UNCHANGED polled
  /\ \/ AppendToBatch(e)
     \/ DispatchThenAppend(e)
     \/ OfferRaw(e)
     \/ DispatchLarge(e)

FlushNothing == UNCHANGED sinkVars

(* The NULL event: the partial batch is dispatched unless it is empty.     *)
FlushBatch ==
  \/ /\ batch.length # RG_BATCH_HEADLEN
     /\ Offer(Batch(batch))
     /\ batch' = spawn_new_batch(rg_encode_batch_header(batch))
     /\ UNCHANGED <<encoded, polled, discarded>>
  \/ /\ batch.length = RG_BATCH_HEADLEN
     /\ UNCHANGED sinkVars

(* A dispatch thread reads the length of the next message from the ring    *)
(* and polls that many bytes.                                              *)
NextMessage == ring.data[ring.a_start]

PollFrom(me) ==
  /\ ~bipbuf_is_empty(ring)
  /\ CanPoll(ring, NextMessage.length)
  /\ ring' = bipbuf_poll(me, NextMessage.length)
  /\ polled' = Append(polled, NextMessage)
  /\ queued' = Tail(queued)
  /\ UNCHANGED <<batch, encoded, refused, discarded>>

PollMessage == PollFrom(Forget(ring, ring.a_start))

NextBatchedSink ==
  \/ encoded < MaxEvents /\ \E e \in NextEvents : Encode(e)
  \/ FlushBatch
  \/ PollMessage

BatchedSinkSpec == InitBatchedSink /\ [][NextBatchedSink]_sinkVars
-----------------------------------------------------------------------------
(* Taken by the ring, by now polled or not.                                *)
Kept == polled \o queued

(* Encoded and neither polled by the dispatch thread nor dropped.          *)
InFlight == IdsOf(queued) \cup Ids(batch)

Packet(m) == [i \in 1..Len(m.events) |-> m.events[i].msg.id]

Channel == INSTANCE LossyChannel WITH
  pipe <- InFlight, delivered <- [i \in 1..Len(polled) |-> Packet(polled[i])]

(* The batch under construction and the ring have their types.             *)
BatchTypeOK ==
  /\ IsBuffer(ring)
  /\ PointersOK(ring)
  /\ batch.length \in Nat /\ batch.sequence \in Nat
  /\ encoded \in Nat

(* The commands of a message lie back to back from its header to the       *)
(* length that a dispatch thread reads from it.  A batch exceeds a packet  *)
(* only when it carries a single command, and the batch being filled never *)
(* does (rb_rg_batched_sink).                                              *)
WellPacked(m) ==
  /\ Laid(m.events, IF m.kind = "batch" THEN RG_BATCH_HEADLEN ELSE 0, m.length)
  /\ m.kind = "batch" => m.length <= RG_BATCH_PACKET_SIZE \/ Len(m.events) = 1

PacketSizes ==
  /\ WellPacked(Batch(batch))
  /\ batch.length <= RG_BATCH_PACKET_SIZE
  /\ \A i \in 1..Len(Kept) : WellPacked(Kept[i])

Numbers(ms) == {ms[i].sequence : i \in {j \in 1..Len(ms) : ms[j].kind = "batch"}}

NumbersIncrease(ms) ==
  \A i, j \in 1..Len(ms) :
    i < j /\ ms[i].kind = "batch" /\ ms[j].kind = "batch" => ms[i].sequence < ms[j].sequence

(* The Agent can tell a lost batch by its number: each number below the    *)
(* current one was given to exactly one message, sent, waiting or refused, *)
(* and the numbers of messages sent or waiting increase.                   *)
SequenceAccounting ==
  /\ Numbers(Kept) \cup Numbers(refused) = 0..(batch.sequence - 1)
  /\ Numbers(Kept) \cap Numbers(refused) = {}
  /\ NumbersIncrease(Kept) /\ NumbersIncrease(refused)

Ascending(packet) == \A i, j \in 1..Len(packet) : i < j => packet[i] < packet[j]

(* The commands of the messages ms were encoded in the order they are in.  *)
InOrder(ms) ==
  /\ \A i \in 1..Len(ms) : Ascending(Packet(ms[i]))
  /\ \A i, j \in 1..Len(ms) :
       i < j => \A a \in Ids(ms[i]), b \in Ids(ms[j]) : a < b

(* Nothing vanishes and nothing is there twice: each command encoded is in *)
(* exactly one of the messages polled or waiting in the ring, the pending  *)
(* batch, the messages refused and the batches reset for a raw command.    *)
LossAccounting ==
  LET alive == Append(Kept, Batch(batch))
  IN /\ IdsOf(alive) \cup IdsOf(refused) \cup discarded = 1..encoded
     /\ IdsOf(alive) \cap IdsOf(refused) = {}
     /\ (IdsOf(alive) \cup IdsOf(refused)) \cap discarded = {}
     /\ InOrder(alive) /\ InOrder(refused)

(* Commands reach the dispatch thread in the order they were encoded, none *)
(* twice (rb_rg_batched_sink, bipbuf_offer, bipbuf_poll).                  *)
DeliversInOrder == Channel!Spec
=============================================================================
