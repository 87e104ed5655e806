---------------------------- MODULE MessageQueue ----------------------------
(***************************************************************************)
(* What the ring buffer promises its users: a bounded first-in first-out   *)
(* queue of whole messages.  A message may be turned away, but never while *)
(* it would leave the buffer at most half full; a message taken is the     *)
(* oldest one, complete.                                                   *)
(***************************************************************************)
EXTENDS Integers, Sequences

CONSTANTS Size,      \* bytes the queue can hold
          Messages,  \* the messages, records with a length
          Nil        \* what an empty queue returns

VARIABLES queue,   \* the messages held, oldest first
          used,    \* the bytes they occupy
          result   \* the last call and its outcome

queueVars == <<queue, used, result>>

Pushed(ok, m) == [op |-> "push", ok |-> ok, length |-> m.length]
Shifted(ok, m) == [op |-> "shift", ok |-> ok, msg |-> m]
Idle == [op |-> "none", ok |-> TRUE, msg |-> Nil]

Init ==
  /\ queue = <<>>
  /\ used = 0
  /\ result = Idle

Accept(m) ==
  /\ used + m.length <= Size
  /\ queue' = Append(queue, m)
  /\ used' = used + m.length
  /\ result' = Pushed(TRUE, m)

Refuse(m) ==
  /\ 2 * (used + m.length) > Size
  /\ result' = Pushed(FALSE, m)
  /\ UNCHANGED <<queue, used>>

Take ==
  /\ queue # <<>>
  /\ queue' = Tail(queue)
  /\ used' = used - Head(queue).length
  /\ result' = Shifted(TRUE, Head(queue))

TakeNothing ==
  /\ queue = <<>>
  /\ result' = Shifted(FALSE, Nil)
  /\ UNCHANGED <<queue, used>>

Next ==
  \/ \E m \in Messages : Accept(m) \/ Refuse(m)
  \/ Take
  \/ TakeNothing

Spec == Init /\ [][Next]_queueVars
=============================================================================
