---------------------------- MODULE LossyChannel ----------------------------
(***************************************************************************)
(* What the dispatch of events to the Agent promises: commands, numbered   *)
(* as they are encoded, reach the wire in packets, in the order they were  *)
(* encoded, none twice, none that was not encoded.  Some may be lost on    *)
(* the way.                                                                *)
(***************************************************************************)
EXTENDS Integers, Sequences

VARIABLES encoded,    \* number of commands encoded
          pipe,       \* the commands encoded and neither sent nor lost
          delivered   \* the packets put on the wire, in order; one whose
                      \* commands are lost with it is empty

channelVars == <<encoded, pipe, delivered>>

Init == encoded = 0 /\ pipe = {} /\ delivered = <<>>

Encode ==
  /\ encoded' = encoded + 1
  /\ pipe' \subseteq pipe \cup {encoded + 1}
  /\ UNCHANGED delivered

Lose ==
  /\ pipe' \subseteq pipe
  /\ UNCHANGED <<encoded, delivered>>

(* A packet takes the oldest commands, in order; others may be lost as it  *)
(* is sent.                                                                *)
Deliver(packet) ==
  /\ \A i \in 1..Len(packet) : packet[i] \in pipe
  /\ \A i, j \in 1..Len(packet) : i < j => packet[i] < packet[j]
  /\ pipe' \subseteq pipe \ {packet[i] : i \in 1..Len(packet)}
  /\ \A i \in 1..Len(packet) : \A later \in pipe' : packet[i] < later
  /\ delivered' = Append(delivered, packet)
  /\ UNCHANGED encoded

Next ==
  \/ Encode
  \/ Lose
  \/ delivered' # <<>> /\ Deliver(delivered'[Len(delivered')])

Spec == Init /\ [][Next]_channelVars
=============================================================================
