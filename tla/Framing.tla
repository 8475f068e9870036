------------------------------ MODULE Framing ------------------------------
(***************************************************************************)
(* Packet and Unpack of go/tcpserver/proto/packet.go (and the same code in *)
(* go/tcpclient): messages with a header and a length go over a stream,    *)
(* which is read in pieces of any size.  A byte is a number; the header    *)
(* and the length field are shorter here than in the code.                 *)
(***************************************************************************)
EXTENDS Integers, Sequences
LOCAL INSTANCE SequencesExt

CONSTANTS
    ConstHeader,            \* the bytes of the header
    Data,                   \* the messages, sequences of bytes
    Noise,                  \* bytes that may be between packets
    MaxMessages, MaxNoise, MaxRead

ConstHeaderLength == Len(ConstHeader)
ConstSaveDataLength == 1

VARIABLES
    sent,       \* the messages that were written
    noise,      \* the number of bytes of noise that were written
    wire,       \* the bytes that were written and not read
    tmpBuffer,  \* what Unpack returned last
    delivered   \* the messages that went into readerChannel

vars == <<sent, noise, wire, tmpBuffer, delivered>>

Init ==
    /\ sent = <<>> /\ noise = 0 /\ wire = <<>>
    /\ tmpBuffer = <<>> /\ delivered = <<>>

-----------------------------------------------------------------------------
(* Packet: header, length, message. *)
Packet(message) == ConstHeader \o <<Len(message)>> \o message

head == ConstHeaderLength + ConstSaveDataLength

(* Whether the header is at index i (0-based, as in the code), the length  *)
(* behind it, and the index behind the message.                            *)
header_at(buffer, i) == SubSeq(buffer, i + 1, i + ConstHeaderLength) = ConstHeader
messageLength(buffer, i) == buffer[i + head]

(* Mutant: the search goes on inside the message. *)
behind_inside(buffer, i) == i + head
behind(buffer, i) == i + head + messageLength(buffer, i)

data(buffer, i) == SubSeq(buffer, i + head + 1, i + head + messageLength(buffer, i))

incomplete(buffer, i) == Len(buffer) < i + head + messageLength(buffer, i)

rest(buffer, i) == SubSeq(buffer, i + 1, Len(buffer))

(* Unpack: bytes in front of a header are dropped, complete messages go to *)
(* the channel, and what may be the start of a packet is returned.         *)
Unpack(buffer) ==
    LET length == Len(buffer)
        from[i \in 0..length] ==
            LET next == from[behind(buffer, i)]
            IN  IF length < i + head \/ (header_at(buffer, i) /\ incomplete(buffer, i))
                  THEN [out |-> <<>>, rest |-> rest(buffer, i)]
                ELSE IF header_at(buffer, i)
                  THEN [out |-> <<data(buffer, i)>> \o next.out, rest |-> next.rest]
                ELSE from[i + 1]
    IN  from[0]

-----------------------------------------------------------------------------
Write(message) ==
    /\ Len(sent) < MaxMessages
    /\ sent' = Append(sent, message)
    /\ wire' = wire \o Packet(message)
    /\ UNCHANGED <<noise, tmpBuffer, delivered>>

WriteNoise(b) ==
    /\ noise < MaxNoise
    /\ noise' = noise + 1
    /\ wire' = Append(wire, b)
    /\ UNCHANGED <<sent, tmpBuffer, delivered>>

(* tmpBuffer = Unpack(append(tmpBuffer, ibuf[:length]...), readerChannel) *)
Read(length) ==
    /\ length <= Len(wire)
    /\ LET r == Unpack(tmpBuffer \o SubSeq(wire, 1, length))
       IN  tmpBuffer' = r.rest /\ delivered' = delivered \o r.out
    /\ wire' = SubSeq(wire, length + 1, Len(wire))
    /\ UNCHANGED <<sent, noise>>

Next ==
    \/ \E message \in Data : Write(message)
    \/ \E b \in Noise : WriteNoise(b)
    \/ \E length \in 1..MaxRead : Read(length)

Spec == Init /\ [][Next]_vars

-----------------------------------------------------------------------------
(* However the stream is cut into reads, Unpack gives the messages whole   *)
(* and in order, also when a message contains the header, and it holds     *)
(* none back: when all was read, all was delivered.                        *)
Delivered == IsPrefix(delivered, sent) /\ (wire = <<>> => delivered = sent)

(* What is kept between two reads is shorter than the next packet, or than *)
(* a header when there is none.                                            *)
Bounded ==
    \/ Len(tmpBuffer) < head
    \/ delivered # sent /\ Len(tmpBuffer) < Len(Packet(sent[Len(delivered) + 1]))
=============================================================================
