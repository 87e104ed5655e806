----------------------------- MODULE RingBuffer -----------------------------
(***************************************************************************)
(* Raygun::Apm::Ringbuf (raygun_ringbuf.c): the bip buffer with push and   *)
(* shift, used the way the dispatch threads and the tests use it: a shift  *)
(* asks for exactly the length of the next message.                        *)
(*                                                                         *)
(* regionA and regionB are history variables: the messages lying in each   *)
(* region, with the offsets they were copied to, oldest first.             *)
(***************************************************************************)
EXTENDS BipBuffer

CONSTANTS Messages,  \* records with a length; what is pushed
          Nil        \* Qnil

ASSUME MessagesAssumption == \A m \in Messages : m.length \in Nat \ {0}

VARIABLES me, regionA, regionB, result

vars == <<me, regionA, regionB, result>>

Unread == Payload(regionA) \o Payload(regionB)

Queue == INSTANCE MessageQueue WITH queue <- Unread, used <- bipbuf_used(me)

Init ==
  /\ me = bipbuf_init
  /\ regionA = <<>>
  /\ regionB = <<>>
  /\ result = Queue!Idle

(* rb_rg_ringbuf_push                                                      *)
PushFits(m) ==
  /\ Fits(me, m)
  /\ me' = bipbuf_offer(me, m)
  /\ IF me.b_inuse = 1
     THEN /\ regionB' = Append(regionB, Placed(me.b_end, m))
          /\ UNCHANGED regionA
     ELSE /\ regionA' = Append(regionA, Placed(me.a_end, m))
          /\ UNCHANGED regionB
  /\ result' = Queue!Pushed(TRUE, m)

PushRefused(m) ==
  /\ ~Fits(me, m)
  /\ result' = Queue!Pushed(FALSE, m)
  /\ UNCHANGED <<me, regionA, regionB>>

(* rb_rg_ringbuf_shift: the bytes are copied out before anything else runs *)
ShiftMessage ==
  /\ regionA # <<>>
  /\ LET length == Head(regionA).msg.length IN
     /\ CanPoll(me, length)
     /\ me' = bipbuf_poll(Forget(me, me.a_start), length)
     /\ result' = Queue!Shifted(TRUE, BytesAt(me, me.a_start, length))
  /\ IF Tail(regionA) = <<>>
     THEN regionA' = regionB /\ regionB' = <<>>
     ELSE regionA' = Tail(regionA) /\ UNCHANGED regionB

ShiftNothing ==
  /\ bipbuf_is_empty(me)
  /\ result' = Queue!Shifted(FALSE, Nil)
  /\ UNCHANGED <<me, regionA, regionB>>

Next ==
  \/ \E m \in Messages : PushFits(m) \/ PushRefused(m)
  \/ ShiftMessage
  \/ ShiftNothing

Spec == Init /\ [][Next]_vars
-----------------------------------------------------------------------------
(* The buffer's fields and the two regions have their types.               *)
TypeOK ==
  /\ IsBuffer(me)
  /\ regionA \in Seq([at : Int, msg : Messages])
  /\ regionB \in Seq([at : Int, msg : Messages])

(* The cursors stay ordered inside the array, B never reaches A, and the   *)
(* two regions hold exactly the messages pushed and not yet shifted, back  *)
(* to back, none of their bytes overwritten (bipbuf_offer, bipbuf_poll).   *)
LayoutOK == LaidOut(me, regionA, regionB)

(* The buffer implements the bounded queue: it returns the pushed messages *)
(* whole and in order, says empty only when it is, and turns a message     *)
(* away only when it would fill more than half of the array.               *)
ImplementsQueue == Queue!Spec
=============================================================================
