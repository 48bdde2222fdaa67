---------------------------- MODULE PacketChannel ----------------------------
(***************************************************************************)
(* What one direction of a connection promises to the code above it: the   *)
(* packets that were sent come out once, whole and in order, and, unless   *)
(* an end closes, all of them come out.                                    *)
(***************************************************************************)
EXTENDS Naturals, Sequences

CONSTANTS
  Packets, \* what can be sent
  MaxSent  \* bound on how many are sent

VARIABLES
  sent,     \* every packet that was given to the channel
  received, \* every packet that came out
  closed    \* an end has closed

channel == << sent, received, closed >>

Init == sent = << >> /\ received = << >> /\ closed = FALSE

Send(packet) ==
  /\ Len(sent) < MaxSent
  /\ sent' = Append(sent, packet)
  /\ UNCHANGED << received, closed >>

\* What is on its way when the writer closes may still be received.
Receive ==
  /\ Len(received) < Len(sent)
  /\ received' = Append(received, sent[Len(received) + 1])
  /\ UNCHANGED << sent, closed >>

Close == closed' = TRUE /\ UNCHANGED << sent, received >>

Next == (\E packet \in Packets : Send(packet)) \/ Receive \/ Close

Spec == Init /\ [][Next]_channel

\* Unless an end closes, every packet that is sent is received.
Delivery ==
  \A n \in 1..MaxSent : Len(sent) >= n ~> (Len(received) >= n \/ closed)
=============================================================================
