------------------------------- MODULE Framing -------------------------------
(***************************************************************************)
(* One direction of a connection: PacketIO and PacketSerializer over the   *)
(* loops of TlsTransport, which move as many bytes at a time as there is   *)
(* room for, or as have arrived.  The unit is the cell of PacketCodec.     *)
(***************************************************************************)
EXTENDS PacketCodec, FiniteSets

CONSTANTS
  Messages,    \* what the program sends
  MaxMessages, \* bound on how many it sends
  Window       \* how many cells the connection holds

ASSUME FramingAssumption ==
  /\ \A m \in Messages : IsMessage(m)
  /\ MaxMessages \in Nat /\ Window \in Nat \ {0}

VARIABLES
  asked,    \* every message given to sendPacket
  writing,  \* what sendAll has still to write
  stream,   \* the bytes in flight
  header,   \* the header receivePacket has read, << >> while it reads one
  partial,  \* what recvAll has got of the header or the payload
  received, \* every packet receivePacket has returned
  writer,   \* "open", or "closed": its end is closed or its send has failed
  reader    \* "open", or "closed": its end is closed or its receive has failed

vars == << asked, writing, stream, header, partial, received, writer, reader >>

Init ==
  /\ asked = << >> /\ writing = << >> /\ stream = << >>
  /\ header = << >> /\ partial = << >> /\ received = << >>
  /\ writer = "open" /\ reader = "open"

HeaderSize == 2

TypeOK ==
  /\ Len(asked) <= MaxMessages /\ Len(received) <= Len(asked)
  /\ Len(stream) <= Window
  /\ Len(header) \in {0, HeaderSize}
  /\ header = << >> => Len(partial) < HeaderSize
  /\ header # << >> => Len(partial) < header[2]
  /\ writer \in {"open", "closed"} /\ reader \in {"open", "closed"}

-----------------------------------------------------------------------------
\* A mutant of Serialize: the builder has not set payload_size.
SerializeUnsized(packet) == << packet.type, 0 >> \o packet.payload

\* The header, with type and size, and the payload in one buffer.
Serialize(packet) == << packet.type, Len(packet.payload) >> \o packet.payload

\* The call of sendPacket: from here on the thread is in sendAll.
SendPacket(message) ==
  /\ writer = "open" /\ writing = << >> /\ Len(asked) < MaxMessages
  /\ asked' = Append(asked, message)
  /\ writing' = Serialize(Build(message))
  /\ UNCHANGED << stream, header, partial, received, writer, reader >>

\* One round of the loop of sendAll: the first n cells have been written.
Write(n) ==
  /\ writer = "open" /\ reader = "open"
  /\ n <= Len(writing) /\ Len(stream) + n <= Window
  /\ stream' = stream \o SubSeq(writing, 1, n)
  /\ writing' = SubSeq(writing, n + 1, Len(writing))
  /\ UNCHANGED << asked, header, partial, received, writer, reader >>

\* The peer has closed.
WriteFails ==
  /\ writer = "open" /\ writing # << >> /\ reader = "closed"
  /\ writer' = "closed" /\ writing' = << >>
  /\ UNCHANGED << asked, stream, header, partial, received, reader >>

\* How much recvAll has been asked for.
Wanted == IF header = << >> THEN HeaderSize ELSE header[2]

\* A mutant of Arrived: the buffer is not emptied after a header.
ArrivedKeepingHeader(cells) ==
  IF header = << >> /\ cells[2] > 0
  THEN header' = cells /\ partial' = cells /\ UNCHANGED received
  ELSE /\ received' = Append(received, [type |-> (header \o cells)[1], payload |-> cells])
       /\ header' = << >> /\ partial' = << >>

\* recvAll has got all of a header or a payload, which completes the packet if
\* it was the payload or if there is none.
Arrived(cells) ==
  IF header = << >> /\ cells[2] > 0
  THEN header' = cells /\ partial' = << >> /\ UNCHANGED received
  ELSE /\ received' = Append(received,
            [ type    |-> (header \o cells)[1],
              payload |-> IF header = << >> THEN << >> ELSE cells ])
       /\ header' = << >> /\ partial' = << >>

\* A mutant of ReadSome: no loop, all that is wanted has to arrive together.
ReadAtOnce(n) ==
  /\ reader = "open"
  /\ n <= Len(stream) /\ n = Wanted
  /\ stream' = SubSeq(stream, n + 1, Len(stream))
  /\ Arrived(SubSeq(stream, 1, n))
  /\ UNCHANGED << asked, writing, writer, reader >>

\* One round of the loop of recvAll: n cells of what has arrived.
ReadSome(n) ==
  /\ reader = "open"
  /\ n <= Len(stream) /\ Len(partial) + n <= Wanted
  /\ stream' = SubSeq(stream, n + 1, Len(stream))
  /\ LET cells == partial \o SubSeq(stream, 1, n) IN
     \/ Len(cells) = Wanted /\ Arrived(cells)
     \/ /\ Len(cells) < Wanted
        /\ partial' = cells /\ UNCHANGED << header, received >>
  /\ UNCHANGED << asked, writing, writer, reader >>

\* receivePacket gives up: the peer has closed and nothing is left to read.
ReadFails ==
  /\ reader = "open" /\ writer = "closed" /\ stream = << >>
  /\ reader' = "closed" /\ header' = << >> /\ partial' = << >>
  /\ UNCHANGED << asked, writing, stream, received, writer >>

\* The writer disconnects or dies, possibly in the middle of a packet.  If the
\* connection is reset, what is in flight is lost as well.
WriterCloses ==
  /\ writer = "open"
  /\ writer' = "closed" /\ writing' = << >>
  /\ stream' \in {stream, << >>}
  /\ UNCHANGED << asked, header, partial, received, reader >>

ReaderCloses ==
  /\ reader = "open"
  /\ reader' = "closed" /\ stream' = << >>
  /\ header' = << >> /\ partial' = << >>
  /\ UNCHANGED << asked, writing, received, writer >>

Next ==
  \/ \E message \in Messages : SendPacket(message)
  \/ \E n \in 1..Window : Write(n) \/ ReadSome(n)
  \/ WriteFails \/ ReadFails \/ WriterCloses \/ ReaderCloses

\* A thread in sendAll and a thread in recvAll are scheduled, and TCP delivers.
Spec ==
  /\ Init /\ [][Next]_vars
  /\ WF_vars(\E n \in 1..Window : Write(n))
  /\ WF_vars(\E n \in 1..Window : ReadSome(n))

-----------------------------------------------------------------------------
Sent == [ i \in 1..Len(asked) |-> Build(asked[i]) ]

Channel ==
  INSTANCE PacketChannel
    WITH Packets <- { Build(m) : m \in Messages }, MaxSent <- MaxMessages,
         sent    <- Sent,
         closed  <- writer = "closed" \/ reader = "closed"

\* However sendAll and recvAll cut packets into pieces, and wherever an end
\* closes, receivePacket returns the packets that were sent, whole and in order.
FramingImplementsChannel == Channel!Spec

\* sendPacket and receivePacket get every packet through, although a packet may
\* be larger than what the connection holds.
EveryPacketArrives == Channel!Delivery

\* Every message whose strings fit is parsed back into what was asked for, also
\* after one with a string that does not fit: such a string garbles the fields
\* of its own packet and never the packets behind it.
ParsedAsAsked ==
  \A i \in 1..Len(received) :
    LET message == asked[i]
        kinds   == Layout[message.type]
    IN  (\A k \in 1..Len(kinds) : Short(kinds[k], message.fields[k]))
        => /\ received[i].type = message.type
           /\ Parse(received[i]) = [ ok |-> TRUE, left |-> << >>,
                                     fields |-> message.fields ]
=============================================================================
