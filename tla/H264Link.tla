------------------------------ MODULE H264Link ------------------------------
(***************************************************************************)
(* One TCP connection between the camera board and the PC: the framing of  *)
(* TCP_Client_SendH264 (client_rk3568/tcp_client.c), called by the encoder *)
(* thread, and of TCP_Server_RecvH264 (server_pc/tcp_server.c), called by  *)
(* the receive thread.                                                     *)
(*                                                                         *)
(* TCP carries bytes and no message boundaries: send takes as many of the  *)
(* bytes as it likes, recv gives as many as it likes, and either end may   *)
(* go away in between.  A byte is a record that says what it is a byte of; *)
(* headers and payloads are a few bytes long.                              *)
(***************************************************************************)
EXTENDS Naturals, Sequences

CONSTANTS HeaderSize,      \* TCP_HEADER_SIZE
          MaxPayloadSize,  \* TCP_MAX_PAYLOAD_SIZE, on both sides
          Window,          \* bytes the two kernels hold between send and recv
          SequenceMod,     \* sequence numbers are uint32_t: 2^32
          MaxPackets       \* bound: packets the encoder makes

ASSUME LinkAssumption ==
    /\ {HeaderSize, MaxPayloadSize, Window, SequenceMod} \subseteq Nat \ {0}
    /\ MaxPackets \in Nat

VARIABLES
    wire,            \* bytes between send and recv
    link,            \* "up", "closed" by the client, "reset"
    connected, sequence,               \* TCP_Client
    sendPc, rest,                      \* SendPacket: what tcp_send_all has left
    packet,                            \* SendPacket's arguments
    encoded, submitted,                \* history: packets made, packets begun
    sequence_initialized, last_sequence, recv_buffer,   \* TCP_Server
    recvPc, header, payload_len, filled,                \* RecvH264
    warned,          \* history: a sequence warning was printed
    delivered        \* history: what RecvH264 returned, in order

client  == <<connected, sequence, sendPc, rest, packet, encoded, submitted>>
reading == <<recvPc, header, payload_len, filled>>
checks  == <<sequence_initialized, last_sequence, warned>>
server  == <<reading, checks, recv_buffer, delivered>>
vars    == <<wire, link, client, server>>

NoData == [part |-> "none"]       \* what realloc leaves behind the old bytes
Idle   == [number |-> 0, len |-> 0]

Init ==
    /\ wire = <<>> /\ link = "up"
    /\ connected = TRUE /\ sequence = 0
    /\ sendPc = "idle" /\ rest = <<>> /\ packet = Idle
    /\ encoded = 0 /\ submitted = <<>>
    /\ sequence_initialized = FALSE /\ last_sequence = 0 /\ recv_buffer = <<>>
    /\ recvPc = "header" /\ header = <<>> /\ payload_len = 0 /\ filled = 0
    /\ warned = FALSE /\ delivered = <<>>

-----------------------------------------------------------------------------
(* TCP_Client_SendH264.                                                    *)

HeaderBytes(len, seq) ==
    [i \in 1 .. HeaderSize |->
        [part |-> "header", at |-> i, len |-> len, sequence |-> seq]]
PayloadBytes(p) ==
    [i \in 1 .. p.len |-> [part |-> "payload", at |-> i, number |-> p.number]]

\* SendPacket's first checks: a connection, and a length the receiver accepts.
MutantNotConnected(len) == len <= MaxPayloadSize
MayBegin(len) == connected /\ len <= MaxPayloadSize

\* The encoder has a packet and the client takes it: the header goes first.
SendBegin(len) ==
    /\ sendPc = "idle" /\ link # "closed"
    /\ encoded < MaxPackets /\ MayBegin(len)
    /\ encoded' = encoded + 1
    /\ packet' = [number |-> encoded + 1, len |-> len]
    /\ submitted' = Append(submitted, [packet |-> packet', sequence |-> sequence])
    /\ rest' = HeaderBytes(len, sequence)
    /\ sendPc' = "header"
    /\ UNCHANGED <<wire, link, connected, sequence, server>>

\* SendPacket returns -1 before it sends anything; the encoder thread goes on
\* with the next packet.
SendRefused(len) ==
    /\ sendPc = "idle" /\ link # "closed"
    /\ encoded < MaxPackets /\ ~MayBegin(len)
    /\ encoded' = encoded + 1
    /\ UNCHANGED <<wire, link, connected, sequence, sendPc, rest, packet, submitted,
                   server>>

\* send() of tcp_send_all takes n of the bytes.
SendSome(n) ==
    /\ sendPc \in {"header", "payload"} /\ link = "up"
    /\ n <= Len(rest) /\ Len(wire) + n <= Window
    /\ wire' = wire \o SubSeq(rest, 1, n)
    /\ rest' = SubSeq(rest, n + 1, Len(rest))
    /\ UNCHANGED <<link, connected, sequence, sendPc, packet, encoded, submitted, server>>

HeaderSent ==
    /\ sendPc = "header" /\ rest = <<>>
    /\ rest' = PayloadBytes(packet)
    /\ sendPc' = "payload"
    /\ UNCHANGED <<wire, link, connected, sequence, packet, encoded, submitted, server>>

PacketSent ==
    /\ sendPc = "payload" /\ rest = <<>>
    /\ sequence' = (sequence + 1) % SequenceMod
    /\ sendPc' = "idle"
    /\ UNCHANGED <<wire, link, connected, rest, packet, encoded, submitted, server>>

\* send() returned 0 or an error other than EINTR, now or in the middle of the
\* packet: the stream is out of step and the client stops using it.
MutantStayConnected == UNCHANGED connected
GiveUpConnection == connected' = FALSE

SendFails ==
    /\ sendPc \in {"header", "payload"} /\ rest # <<>>
    /\ GiveUpConnection
    /\ rest' = <<>>
    /\ sendPc' = "idle"
    /\ UNCHANGED <<wire, link, sequence, packet, encoded, submitted, server>>

\* TCP_Client_Close, or the process is gone: what was sent still arrives.
ClientGone ==
    /\ link = "up"
    /\ link' = "closed"
    /\ connected' = FALSE /\ rest' = <<>> /\ sendPc' = "idle"
    /\ UNCHANGED <<wire, sequence, packet, encoded, submitted, server>>

Reset ==
    /\ link = "up"
    /\ link' = "reset"
    /\ UNCHANGED <<wire, client, server>>

-----------------------------------------------------------------------------
(* TCP_Server_RecvH264, called again and again.                            *)

\* What tcp_recv_all still asks for.
HeaderLeft == HeaderSize - Len(header)
MutantReadBeyond == Window
PayloadLeft == payload_len - filled

RecvHeader(n) ==
    /\ recvPc = "header"
    /\ n <= Len(wire) /\ n <= HeaderLeft
    /\ header' = header \o SubSeq(wire, 1, n)
    /\ wire' = SubSeq(wire, n + 1, Len(wire))
    /\ UNCHANGED <<link, client, recvPc, payload_len, filled, checks, recv_buffer,
                   delivered>>

\* Magic, version and type are right and the length is in range: only a header
\* read from its first byte to its last.
ValidHeader ==
    /\ \A i \in 1 .. HeaderSize : header[i].part = "header" /\ header[i].at = i
    /\ header[1].len \in 1 .. MaxPayloadSize

MutantPromoted == last_sequence + 1
Expected == (last_sequence + 1) % SequenceMod

\* The sequence check only warns.
CheckSequence ==
    /\ warned' = (warned \/ (sequence_initialized /\ header[1].sequence # Expected))
    /\ last_sequence' = header[1].sequence
    /\ sequence_initialized' = TRUE

\* realloc only grows the buffer.
BufferFor(len) ==
    recv_buffer \o [i \in 1 .. len - Len(recv_buffer) |-> NoData]

HeaderAccepted ==
    /\ CheckSequence
    /\ payload_len' = header[1].len
    /\ recv_buffer' = BufferFor(header[1].len)
    /\ recvPc' = "payload"

\* Not the protocol: RecvH264 returns -1 and the receive thread gives up.
HeaderRejected ==
    /\ recvPc' = "rejected"
    /\ UNCHANGED <<checks, payload_len, recv_buffer>>

ParseHeader ==
    /\ recvPc = "header" /\ Len(header) = HeaderSize
    /\ IF ValidHeader THEN HeaderAccepted ELSE HeaderRejected
    /\ UNCHANGED <<wire, link, client, header, filled, delivered>>

ReallocFails ==
    /\ recvPc = "header" /\ Len(header) = HeaderSize /\ ValidHeader
    /\ header[1].len > Len(recv_buffer)
    /\ CheckSequence
    /\ recvPc' = "failed"
    /\ UNCHANGED <<wire, link, client, header, payload_len, filled, recv_buffer,
                   delivered>>

RecvPayload(n) ==
    /\ recvPc = "payload"
    /\ n <= Len(wire) /\ n <= PayloadLeft
    /\ recv_buffer' = [i \in DOMAIN recv_buffer |->
                          IF i \in filled + 1 .. filled + n THEN wire[i - filled]
                                                            ELSE recv_buffer[i]]
    /\ filled' = filled + n
    /\ wire' = SubSeq(wire, n + 1, Len(wire))
    /\ UNCHANGED <<link, client, recvPc, header, payload_len, checks, delivered>>

\* The caller gets recv_buffer and a length.
MutantWholeBuffer == recv_buffer
Received == SubSeq(recv_buffer, 1, payload_len)

PacketReceived ==
    /\ recvPc = "payload" /\ filled = payload_len
    /\ delivered' = Append(delivered, [bytes |-> Received, sequence |-> last_sequence])
    /\ header' = <<>> /\ payload_len' = 0 /\ filled' = 0
    /\ recvPc' = "header"
    /\ UNCHANGED <<wire, link, client, checks, recv_buffer>>

Incomplete == \/ recvPc = "header" /\ HeaderLeft # 0
              \/ recvPc = "payload" /\ PayloadLeft # 0

\* recv returned 0, also in the middle of a payload.
RecvEnds ==
    /\ Incomplete
    /\ wire = <<>> /\ link = "closed"
    /\ recvPc' = "disconnected"
    /\ UNCHANGED <<wire, link, client, header, payload_len, filled, checks, recv_buffer,
                   delivered>>

RecvFails ==
    /\ Incomplete
    /\ link = "reset"
    /\ recvPc' = "failed"
    /\ UNCHANGED <<wire, link, client, header, payload_len, filled, checks, recv_buffer,
                   delivered>>

Ended == recvPc \in {"disconnected", "failed", "rejected"}

\* When the receive thread is through the server ends (ServerPipeline) and its
\* socket with it.
ServerGone ==
    /\ Ended /\ link = "up"
    /\ link' = "reset"
    /\ UNCHANGED <<wire, client, server>>

-----------------------------------------------------------------------------
PayloadSizes == 1 .. MaxPayloadSize + 1

SendStep == (\E n \in 1 .. Window : SendSome(n)) \/ HeaderSent \/ PacketSent
RecvStep == \/ \E n \in 1 .. Window : RecvHeader(n) \/ RecvPayload(n)
            \/ ParseHeader \/ PacketReceived
            \/ RecvEnds \/ RecvFails \/ ServerGone

Next == \/ \E len \in PayloadSizes : SendBegin(len) \/ SendRefused(len)
        \/ SendStep \/ RecvStep
        \/ SendFails \/ ReallocFails \/ ClientGone \/ Reset

Spec == Init /\ [][Next]_vars

\* Both sides go on with a call they are in, and a send on a connection that was
\* reset fails sooner or later.  Nothing else has to happen.
FairSpec == Spec /\ WF_vars(SendStep) /\ WF_vars(RecvStep)
                 /\ WF_vars(link = "reset" /\ SendFails)

-----------------------------------------------------------------------------
(* Properties                                                              *)

Sequences == 0 .. SequenceMod - 1
Packets   == [number : 1 .. MaxPackets, len : 1 .. MaxPayloadSize]
Messages  == [packet : Packets, sequence : Sequences]
Bytes     == [part : {"header"}, at : 1 .. HeaderSize, len : 1 .. MaxPayloadSize,
              sequence : Sequences]
             \cup [part : {"payload"}, at : 1 .. MaxPayloadSize, number : 1 .. MaxPackets]
             \cup {NoData}

\* The type of every variable, and how far each side may be in its loops.
TypeOK ==
    /\ wire \in Seq(Bytes) /\ Len(wire) <= Window /\ link \in {"up", "closed", "reset"}
    /\ connected \in BOOLEAN /\ sequence \in Sequences
    /\ sendPc \in {"idle", "header", "payload"} /\ rest \in Seq(Bytes)
    /\ packet \in Packets \cup {Idle} /\ encoded \in 0 .. MaxPackets
    /\ submitted \in Seq(Messages) /\ Len(submitted) <= encoded
    /\ sequence_initialized \in BOOLEAN /\ last_sequence \in Sequences
    /\ recvPc \in {"header", "payload", "disconnected", "failed", "rejected"}
    /\ header \in Seq(Bytes) /\ Len(header) <= HeaderSize /\ warned \in BOOLEAN
    /\ filled \in 0 .. payload_len /\ payload_len \in 0 .. Len(recv_buffer)
    /\ recv_buffer \in Seq(Bytes) /\ Len(recv_buffer) <= MaxPayloadSize
    /\ delivered \in Seq([bytes : Seq(Bytes), sequence : Sequences])

\* The receiver never loses its place in the stream: it never takes a byte of a
\* payload for a header, nor one packet's header for another's, however the bytes
\* are cut up and wherever a send fails; and the sequence warning never fires: a
\* packet that was refused takes no number, and the comparison wraps where the
\* counter does.
InStep == recvPc # "rejected" /\ ~warned

\* What RecvH264 returns is exactly what was submitted, in order: every byte of
\* the payload and no byte of an earlier, longer packet left in the buffer.
DeliveredIntact ==
    /\ Len(delivered) <= Len(submitted)
    /\ \A i \in DOMAIN delivered :
           /\ delivered[i].bytes = PayloadBytes(submitted[i].packet)
           /\ delivered[i].sequence = submitted[i].sequence

\* Packet by packet the connection is a StopChannel that is closed when either
\* side gives it up: no packet begins after that.
Chan == INSTANCE StopChannel WITH
            Values <- Packets,
            Bound <- MaxPackets,
            chan <- [i \in 1 .. Len(submitted) - Len(delivered) |->
                        submitted[Len(delivered) + i].packet],
            closed <- ~connected
RefinesChannel == Chan!Spec

\* A packet that was sent completely is delivered, also when the client leaves
\* right after it, unless the connection breaks or the server has no memory.
SentIsDelivered ==
    \A k \in 1 .. MaxPackets :
        Len(submitted) = k /\ sendPc = "idle" /\ connected
            ~> Len(delivered) >= k \/ link = "reset" \/ recvPc = "failed"
=============================================================================
