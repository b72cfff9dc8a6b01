--------------------------- MODULE H264Link_proofs ---------------------------
(***************************************************************************)
(* Proofs about H264Link for headers, payloads and windows of any size and *)
(* any number of packets.                                                  *)
(*                                                                         *)
(* The bytes of all packets submitted make one stream, in which message k  *)
(* begins after offset S[k].  The invariant says where in that stream both *)
(* sides are, and that the wire holds the bytes between them.              *)
(***************************************************************************)
EXTENDS H264Link, SequenceTheorems, TLAPS

N == Len(submitted)
D == Len(delivered)

\* A message is a header and the payload of its packet.
MsgLen(m) == HeaderSize + m.packet.len
ByteOf(m, o) ==
    IF o <= HeaderSize
    THEN [part |-> "header", at |-> o, len |-> m.packet.len, sequence |-> m.sequence]
    ELSE [part |-> "payload", at |-> o - HeaderSize, number |-> m.packet.number]

\* What the client still has to send of the last message, and how much of the
\* next one the server has read.
Unsent  == CASE sendPc = "idle"    -> 0
             [] sendPc = "header"  -> Len(rest) + packet.len
             [] sendPc = "payload" -> Len(rest)
Offset  == IF recvPc = "header" THEN Len(header) ELSE HeaderSize + filled
Reading == recvPc \in {"header", "payload"}

Starts(S) ==
    /\ S[1] = 0
    /\ \A k \in 1 .. N : S[k + 1] = S[k] + MsgLen(submitted[k])
    /\ \A k, l \in 1 .. N + 1 : k <= l => S[k] <= S[l]

\* The server is at R, the client at R + Len(wire).
WireAt(S, R) ==
    /\ R = S[D + 1] + Offset
    /\ R + Len(wire) <= S[N + 1]
    /\ connected => R + Len(wire) + Unsent = S[N + 1]
    /\ \A k \in 1 .. N : \A o \in 1 .. MsgLen(submitted[k]) : \A i \in 1 .. Len(wire) :
           R + i = S[k] + o => wire[i] = ByteOf(submitted[k], o)

WireInv == Reading => \E S \in [1 .. N + 1 -> Nat], R \in Nat : Starts(S) /\ WireAt(S, R)

ClientInv ==
    /\ sendPc # "idle" =>
          /\ connected /\ N >= 1
          /\ packet = submitted[N].packet /\ sequence = submitted[N].sequence
          /\ sendPc = "header" => Len(rest) <= HeaderSize
          /\ sendPc = "payload" => Len(rest) <= packet.len
          /\ \A i \in 1 .. Len(rest) :
                 rest[i] = ByteOf(submitted[N], (MsgLen(submitted[N]) - Unsent) + i)
    /\ connected => link # "closed"
    /\ connected /\ sendPc = "idle" /\ N >= 1 =>
          sequence = (submitted[N].sequence + 1) % SequenceMod
    /\ \A k \in 1 .. N - 1 :
          submitted[k + 1].sequence = (submitted[k].sequence + 1) % SequenceMod

ServerInv ==
    /\ D <= N
    /\ recvPc = "header" =>
          /\ payload_len = 0 /\ filled = 0
          /\ Len(header) > 0 => D < N
          /\ \A i \in 1 .. Len(header) : header[i] = ByteOf(submitted[D + 1], i)
          /\ sequence_initialized => D >= 1 /\ last_sequence = submitted[D].sequence
    /\ recvPc = "payload" =>
          /\ D < N /\ payload_len = submitted[D + 1].packet.len
          /\ sequence_initialized /\ last_sequence = submitted[D + 1].sequence
          /\ \A i \in 1 .. filled : recv_buffer[i] = ByteOf(submitted[D + 1], HeaderSize + i)

IInv == TypeOK /\ WireInv /\ ClientInv /\ ServerInv /\ InStep /\ DeliveredIntact

-----------------------------------------------------------------------------
(* Sequences and messages.                                                 *)

LEMMA Sizes == /\ HeaderSize \in Nat \ {0} /\ MaxPayloadSize \in Nat \ {0}
               /\ Window \in Nat \ {0} /\ SequenceMod \in Nat \ {0} /\ MaxPackets \in Nat
BY LinkAssumption

\* Arithmetic about places in the stream.
LEMMA ReadOn ==
    ASSUME NEW r \in Nat, NEW l \in Nat, NEW n \in Nat, NEW k, k = l - n
    PROVE  (r + n) + k = r + l
OBVIOUS

LEMMA SentOn ==
    ASSUME NEW r \in Nat, NEW l \in Nat, NEW n \in Nat, NEW u \in Nat, n <= u,
           NEW e \in Nat, r + l + u = e,
           NEW k, k = l + n, NEW v, v = u - n
    PROVE  r + k + v = e /\ r + k <= e
OBVIOUS

\* With u bytes left of a message of m bytes that begins at b, a place i beyond
\* the l bytes between r and the sender is in that message.
Places(r, l, u, b, m, i, o) ==
    u <= m /\ r + l + u = b + m =>
        /\ r + i <= b => i <= l
        /\ r + i = b + o => o = (m - u) + (i - l)

LEMMA PlacesHold == \A r, l, u, b, m, i, o \in Nat : Places(r, l, u, b, m, i, o)
BY DEF Places

LEMMA FunSeq ==
    ASSUME NEW S, NEW n \in Nat, NEW f \in [1 .. n -> S]
    PROVE  f \in Seq(S) /\ Len(f) = n
<1>1. f \in Seq(S)
  BY SeqDef
<1> QED
  BY <1>1, LenProperties

\* The first n elements and the rest.
LEMMA Cut ==
    ASSUME NEW S, NEW s \in Seq(S), NEW n \in 0 .. Len(s)
    PROVE  /\ SubSeq(s, 1, n) \in Seq(S) /\ Len(SubSeq(s, 1, n)) = n
           /\ \A i \in 1 .. n : SubSeq(s, 1, n)[i] = s[i]
           /\ SubSeq(s, n + 1, Len(s)) \in Seq(S)
           /\ Len(SubSeq(s, n + 1, Len(s))) = Len(s) - n
           /\ \A i \in 1 .. Len(s) - n : SubSeq(s, n + 1, Len(s))[i] = s[n + i]
<1>1. Len(s) \in Nat /\ \A i \in 1 .. Len(s) : s[i] \in S
  BY LenProperties, ElementOfSeq
<1>2. /\ SubSeq(s, 1, n) \in Seq(S)
      /\ Len(SubSeq(s, 1, n)) = IF 1 <= n THEN n - 1 + 1 ELSE 0
      /\ \A i \in 1 .. n - 1 + 1 : SubSeq(s, 1, n)[i] = s[1 + i - 1]
  <2>1. n \in Int /\ \A i \in 1 .. n : s[i] \in S
    BY <1>1
  <2> QED
    BY <2>1, SubSeqProperties
<1>3. /\ SubSeq(s, n + 1, Len(s)) \in Seq(S)
      /\ Len(SubSeq(s, n + 1, Len(s)))
             = IF n + 1 <= Len(s) THEN Len(s) - (n + 1) + 1 ELSE 0
      /\ \A i \in 1 .. Len(s) - (n + 1) + 1 :
             SubSeq(s, n + 1, Len(s))[i] = s[(n + 1) + i - 1]
  <2>1. n + 1 \in Int /\ Len(s) \in Int /\ \A i \in n + 1 .. Len(s) : s[i] \in S
    BY <1>1
  <2> QED
    BY <2>1, SubSeqProperties
<1> QED
  BY <1>1, <1>2, <1>3

LEMMA MessageFacts ==
    ASSUME NEW m \in Messages
    PROVE  /\ m.packet \in Packets /\ m.sequence \in Sequences
           /\ m.packet.len \in 1 .. MaxPayloadSize /\ m.packet.number \in 1 .. MaxPackets
           /\ MsgLen(m) \in Nat /\ MsgLen(m) = HeaderSize + m.packet.len
           /\ m = [packet |-> m.packet, sequence |-> m.sequence]
BY Sizes DEF Messages, Packets, MsgLen

LEMMA ByteType ==
    ASSUME NEW m \in Messages, NEW o \in 1 .. MsgLen(m)
    PROVE  ByteOf(m, o) \in Bytes
<1>1. CASE o <= HeaderSize
  BY <1>1, MessageFacts, Sizes DEF ByteOf, Bytes
<1>2. CASE ~(o <= HeaderSize)
  <2>1. o - HeaderSize \in 1 .. MaxPayloadSize
    BY <1>2, MessageFacts, Sizes
  <2> QED
    BY <1>2, <2>1, MessageFacts, Sizes DEF ByteOf, Bytes
<1> QED
  BY <1>1, <1>2

LEMMA HeaderIs ==
    ASSUME NEW m \in Messages
    PROVE  LET h == HeaderBytes(m.packet.len, m.sequence)
           IN  /\ h \in Seq(Bytes) /\ Len(h) = HeaderSize
               /\ \A i \in 1 .. HeaderSize : h[i] = ByteOf(m, i)
<1> DEFINE h == HeaderBytes(m.packet.len, m.sequence)
<1>1. \A i \in 1 .. HeaderSize : h[i] = ByteOf(m, i)
  BY Sizes DEF HeaderBytes, ByteOf
<1>2. \A i \in 1 .. HeaderSize : i \in 1 .. MsgLen(m)
  BY MessageFacts, Sizes
<1>3. h \in [1 .. HeaderSize -> Bytes]
  <2>1. \A i \in 1 .. HeaderSize : h[i] \in Bytes
    BY <1>1, <1>2, ByteType
  <2> QED
    BY <2>1 DEF HeaderBytes
<1> QED
  BY <1>1, <1>3, FunSeq, Sizes

LEMMA PayloadIs ==
    ASSUME NEW m \in Messages
    PROVE  LET p == PayloadBytes(m.packet)
           IN  /\ p \in Seq(Bytes) /\ Len(p) = m.packet.len
               /\ \A i \in 1 .. m.packet.len : p[i] = ByteOf(m, HeaderSize + i)
<1> DEFINE p == PayloadBytes(m.packet)
<1>0. m.packet.len \in Nat
  BY MessageFacts, Sizes
<1>1. \A i \in 1 .. m.packet.len : p[i] = ByteOf(m, HeaderSize + i)
  <2>1. ASSUME NEW i \in 1 .. m.packet.len PROVE p[i] = ByteOf(m, HeaderSize + i)
    <3>1. ~(HeaderSize + i <= HeaderSize) /\ (HeaderSize + i) - HeaderSize = i
      BY <1>0, Sizes
    <3> QED
      BY <3>1 DEF PayloadBytes, ByteOf
  <2> QED
    BY <2>1
<1>2. \A i \in 1 .. m.packet.len : HeaderSize + i \in 1 .. MsgLen(m)
  BY MessageFacts, Sizes
<1>3. p \in [1 .. m.packet.len -> Bytes]
  <2>1. \A i \in 1 .. m.packet.len : p[i] \in Bytes
    BY <1>1, <1>2, ByteType
  <2> QED
    BY <2>1 DEF PayloadBytes
<1> QED
  BY <1>0, <1>1, <1>3, FunSeq

-----------------------------------------------------------------------------
(* The client.                                                             *)

ClientType ==
    /\ link \in {"up", "closed", "reset"}
    /\ connected \in BOOLEAN /\ sequence \in Sequences
    /\ sendPc \in {"idle", "header", "payload"} /\ rest \in Seq(Bytes)
    /\ packet \in Packets \cup {Idle} /\ encoded \in 0 .. MaxPackets
    /\ submitted \in Seq(Messages) /\ N <= encoded

ServerType ==
    /\ sequence_initialized \in BOOLEAN /\ last_sequence \in Sequences
    /\ recvPc \in {"header", "payload", "disconnected", "failed", "rejected"}
    /\ header \in Seq(Bytes) /\ Len(header) <= HeaderSize /\ warned \in BOOLEAN
    /\ filled \in 0 .. payload_len /\ payload_len \in 0 .. Len(recv_buffer)
    /\ recv_buffer \in Seq(Bytes) /\ Len(recv_buffer) <= MaxPayloadSize
    /\ delivered \in Seq([bytes : Seq(Bytes), sequence : Sequences])

WireType == wire \in Seq(Bytes) /\ Len(wire) <= Window

LEMMA TypeParts == TypeOK <=> ClientType /\ ServerType /\ WireType
BY DEF TypeOK, ClientType, ServerType, WireType, N

\* What the last message, still being sent, looks like.
LEMMA LastMessage ==
    ASSUME ClientType, N >= 1
    PROVE  N \in Nat /\ submitted[N] \in Messages
BY LenProperties, ElementOfSeq DEF ClientType, N

\* SendBegin appends a message and starts on its header.
LEMMA SendBeginFacts ==
    ASSUME ClientType, NEW len \in PayloadSizes, SendBegin(len)
    PROVE  LET m == [packet |-> [number |-> encoded + 1, len |-> len],
                     sequence |-> sequence]
           IN  /\ m \in Messages /\ packet' = m.packet /\ rest' = HeaderBytes(len, sequence)
               /\ submitted' = Append(submitted, m) /\ submitted' \in Seq(Messages)
               /\ N \in Nat /\ N' = N + 1 /\ submitted'[N + 1] = m
               /\ \A k \in 1 .. N : submitted'[k] = submitted[k]
               /\ encoded' = encoded + 1 /\ encoded' \in 0 .. MaxPackets
               /\ sendPc' = "header" /\ connected /\ connected' = connected
               /\ sendPc = "idle"
               /\ UNCHANGED <<wire, link, sequence, server>>
<1> DEFINE p == [number |-> encoded + 1, len |-> len]
           m == [packet |-> p, sequence |-> sequence]
<1>1. /\ len <= MaxPayloadSize /\ encoded < MaxPackets
      /\ encoded' = encoded + 1 /\ packet' = p
      /\ submitted' = Append(submitted, m)
      /\ rest' = HeaderBytes(len, sequence) /\ sendPc' = "header" /\ sendPc = "idle"
      /\ connected /\ connected' = connected /\ UNCHANGED <<wire, link, sequence, server>>
  BY DEF SendBegin, MayBegin
<1>2. encoded + 1 \in 1 .. MaxPackets /\ len \in 1 .. MaxPayloadSize
  BY <1>1, Sizes DEF ClientType, PayloadSizes
<1>3. p \in Packets
  BY <1>2 DEF Packets
<1>4. m \in Messages
  BY <1>3 DEF Messages, ClientType
<1>5. N \in Nat /\ submitted \in Seq(Messages)
  BY LenProperties DEF ClientType, N
<1> HIDE DEF m
<1>6. /\ Append(submitted, m) \in Seq(Messages) /\ Len(Append(submitted, m)) = N + 1
      /\ \A k \in 1 .. N : Append(submitted, m)[k] = submitted[k]
      /\ Append(submitted, m)[N + 1] = m
  BY <1>4, <1>5, AppendProperties DEF N
<1>7. N' = N + 1 /\ submitted' \in Seq(Messages) /\ submitted'[N + 1] = m
      /\ \A k \in 1 .. N : submitted'[k] = submitted[k]
  BY <1>1, <1>6 DEF N
<1>8. packet' = m.packet /\ encoded' \in 0 .. MaxPackets
  BY <1>1, <1>2, Sizes DEF m
<1> QED
  BY <1>1, <1>4, <1>5, <1>7, <1>8, Zenon DEF m

\* The client's part is not disturbed by the server's steps.
LEMMA ClientFrame ==
    ASSUME ClientType, ClientInv, UNCHANGED client, link' \in {link, "reset"}
    PROVE  ClientType' /\ ClientInv'
BY DEF ClientType, ClientInv, client, N, Unsent

LEMMA ClientStep ==
    ASSUME TypeOK, ClientInv, [Next]_vars
    PROVE  ClientType' /\ ClientInv'
<1>0. ClientType
  BY TypeParts
<1>a. N \in Nat
  BY <1>0, LenProperties DEF ClientType, N
<1>1. ASSUME NEW len \in PayloadSizes, SendBegin(len) PROVE ClientType' /\ ClientInv'
  <2> DEFINE m == [packet |-> [number |-> encoded + 1, len |-> len],
                   sequence |-> sequence]
  <2>1. /\ m \in Messages /\ packet' = m.packet /\ rest' = HeaderBytes(len, sequence)
        /\ submitted' \in Seq(Messages)
        /\ N' = N + 1 /\ submitted'[N + 1] = m
        /\ \A k \in 1 .. N : submitted'[k] = submitted[k]
        /\ encoded' = encoded + 1 /\ encoded' \in 0 .. MaxPackets
        /\ sendPc' = "header" /\ connected /\ connected' = connected
        /\ sendPc = "idle" /\ sequence' = sequence /\ link' = link
    BY <1>0, <1>1, SendBeginFacts
  <2>2. m.packet.len = len /\ m.sequence = sequence
    OBVIOUS
  <2> HIDE DEF m
  <2>3. rest' \in Seq(Bytes) /\ Len(rest') = HeaderSize
        /\ \A i \in 1 .. HeaderSize : rest'[i] = ByteOf(m, i)
    BY <2>1, <2>2, HeaderIs
  <2>4. m.packet \in Packets /\ MsgLen(m) = HeaderSize + m.packet.len /\ m.packet.len \in Nat
    BY <2>1, MessageFacts, Sizes
  <2>5. ClientType'
    BY <1>0, <1>a, <2>1, <2>3, <2>4 DEF ClientType
  <2>6. Unsent' = HeaderSize + m.packet.len
    BY <2>1, <2>3 DEF Unsent
  <2>7. \A i \in 1 .. Len(rest') :
           rest'[i] = ByteOf(submitted'[N'], (MsgLen(submitted'[N']) - Unsent') + i)
    <3>1. submitted'[N'] = m /\ (MsgLen(m) - Unsent') = 0
      BY <2>1, <2>4, <2>6, Sizes
    <3>2. \A i \in 1 .. HeaderSize : 0 + i = i
      BY Sizes
    <3> QED
      BY <2>3, <3>1, <3>2
  <2>8. \A k \in 1 .. N' - 1 :
           submitted'[k + 1].sequence = (submitted'[k].sequence + 1) % SequenceMod
    <3>1. ASSUME NEW k \in 1 .. N
          PROVE  submitted'[k + 1].sequence = (submitted'[k].sequence + 1) % SequenceMod
      <4>1. CASE k = N
        BY <1>a, <2>1, <2>2, <3>1, <4>1 DEF ClientInv
      <4>2. CASE k # N
        <5>1. k \in 1 .. N - 1 /\ k + 1 \in 1 .. N
          BY <1>a, <4>2
        <5> QED
          BY <2>1, <5>1 DEF ClientInv
      <4> QED
        BY <4>1, <4>2
    <3> QED
      BY <1>a, <2>1, <3>1
  <2> QED
    BY <1>a, <2>1, <2>2, <2>3, <2>5, <2>7, <2>8 DEF ClientInv
<1>2. ASSUME NEW len \in PayloadSizes, SendRefused(len) PROVE ClientType' /\ ClientInv'
  <2>1. encoded' \in 0 .. MaxPackets /\ encoded' >= encoded
    BY <1>0, <1>2, Sizes DEF SendRefused, ClientType
  <2>2. ClientType'
    BY <1>0, <1>a, <1>2, <2>1, Sizes DEF SendRefused, ClientType, N
  <2> QED
    BY <1>2, <2>2 DEF SendRefused, ClientInv, N, Unsent
<1>3. ASSUME NEW n \in 1 .. Window, SendSome(n) PROVE ClientType' /\ ClientInv'
  <2>0. /\ sendPc \in {"header", "payload"} /\ n \in 0 .. Len(rest) /\ rest \in Seq(Bytes)
        /\ Len(rest) \in Nat /\ n \in Nat
    BY <1>0, <1>3, Sizes, LenProperties DEF SendSome, ClientType
  <2>1. /\ rest' = SubSeq(rest, n + 1, Len(rest))
        /\ UNCHANGED <<link, connected, sequence, sendPc, packet, encoded, submitted>>
    BY <1>3 DEF SendSome
  <2>2. /\ rest' \in Seq(Bytes) /\ Len(rest') = Len(rest) - n
        /\ \A i \in 1 .. Len(rest') : rest'[i] = rest[n + i]
    BY <2>0, <2>1, Cut
  <2>3. N >= 1 /\ packet = submitted[N].packet /\ submitted[N] \in Messages
    BY <1>0, <2>0, LastMessage DEF ClientInv
  <2>4. MsgLen(submitted[N]) \in Nat /\ packet.len \in Nat
    BY <2>3, MessageFacts, Sizes
  <2>5. Unsent \in Nat /\ Unsent' = Unsent - n
    BY <2>0, <2>1, <2>2, <2>4, SMTT(30) DEF Unsent
  <2>6. \A i \in 1 .. Len(rest') :
           rest'[i] = ByteOf(submitted[N], (MsgLen(submitted[N]) - Unsent') + i)
    <3>1. ASSUME NEW i \in 1 .. Len(rest')
          PROVE  rest'[i] = ByteOf(submitted[N], (MsgLen(submitted[N]) - Unsent') + i)
      <4>1. n + i \in 1 .. Len(rest)
        BY <2>0, <2>2
      <4>2. rest[n + i] = ByteOf(submitted[N], (MsgLen(submitted[N]) - Unsent) + (n + i))
        BY <2>0, <4>1 DEF ClientInv
      <4>3. (MsgLen(submitted[N]) - Unsent) + (n + i) = (MsgLen(submitted[N]) - Unsent') + i
        BY <2>0, <2>2, <2>4, <2>5
      <4> QED
        BY <2>2, <4>2, <4>3
    <3> QED
      BY <3>1
  <2>7. ClientType'
    BY <1>0, <2>1, <2>2 DEF ClientType, N
  <2>8. N' = N /\ (sendPc = "header" => Len(rest') <= HeaderSize)
        /\ (sendPc = "payload" => Len(rest') <= packet.len)
    BY <2>0, <2>1, <2>2, <2>4, Sizes DEF ClientInv, N
  <2> QED
    BY <2>0, <2>1, <2>3, <2>6, <2>7, <2>8 DEF ClientInv
<1>4. CASE HeaderSent
  <2>1. /\ sendPc = "header" /\ Len(rest) = 0 /\ rest' = PayloadBytes(packet)
        /\ sendPc' = "payload"
        /\ UNCHANGED <<link, connected, sequence, packet, encoded, submitted>>
    BY <1>4, EmptySeq DEF HeaderSent
  <2>2. N >= 1 /\ packet = submitted[N].packet /\ submitted[N] \in Messages /\ N' = N
    BY <1>0, <2>1, LastMessage DEF ClientInv, N
  <2>3. /\ rest' \in Seq(Bytes) /\ Len(rest') = packet.len
        /\ \A i \in 1 .. packet.len : rest'[i] = ByteOf(submitted[N], HeaderSize + i)
    BY <2>1, <2>2, PayloadIs
  <2>4. packet.len \in Nat /\ MsgLen(submitted[N]) = HeaderSize + packet.len
    BY <2>2, MessageFacts, Sizes
  <2>5. Unsent' = packet.len
    BY <2>1, <2>3 DEF Unsent
  <2>6. MsgLen(submitted[N]) - Unsent' = HeaderSize
    BY <2>4, <2>5, Sizes
  <2>7. ClientType'
    BY <1>0, <2>1, <2>2, <2>3 DEF ClientType
  <2> QED
    BY <2>1, <2>2, <2>3, <2>4, <2>6, <2>7 DEF ClientInv
<1>5. CASE PacketSent
  <2>1. /\ sendPc = "payload" /\ sequence' = (sequence + 1) % SequenceMod /\ sendPc' = "idle"
        /\ UNCHANGED <<link, connected, rest, packet, encoded, submitted>>
    BY <1>5 DEF PacketSent
  <2>2. sequence' \in Sequences
    <3>1. sequence + 1 \in Nat
      BY <1>0, Sizes DEF ClientType, Sequences
    <3> QED
      BY <2>1, <3>1, Sizes, SMTT(30) DEF Sequences
  <2>3. N' = N /\ ClientType'
    BY <1>0, <2>1, <2>2 DEF ClientType, N
  <2> QED
    BY <2>1, <2>3 DEF ClientInv
<1>6. CASE SendFails \/ ClientGone
  <2>1. /\ connected' = FALSE /\ rest' = <<>> /\ sendPc' = "idle" /\ link' \in {link, "closed"}
        /\ UNCHANGED <<sequence, packet, encoded, submitted>>
    BY <1>6 DEF SendFails, ClientGone, GiveUpConnection
  <2>2. N' = N /\ ClientType'
    BY <1>0, <2>1, EmptySeq DEF ClientType, N
  <2> QED
    BY <2>1, <2>2 DEF ClientInv
<1>7. CASE RecvStep \/ ReallocFails \/ Reset \/ UNCHANGED vars
  <2>1. UNCHANGED client /\ link' \in {link, "reset"}
    BY <1>7 DEF RecvStep, RecvHeader, RecvPayload, ParseHeader, PacketReceived, RecvEnds,
                RecvFails, ServerGone, ReallocFails, Reset, vars
  <2> QED
    BY <1>0, <2>1, ClientFrame
<1> QED
  BY <1>1, <1>2, <1>3, <1>4, <1>5, <1>6, <1>7 DEF Next, SendStep

-----------------------------------------------------------------------------
(* The server.                                                             *)

Deliveries == [bytes : Seq(Bytes), sequence : Sequences]

LEMMA Counts ==
    ASSUME TypeOK
    PROVE  /\ N \in Nat /\ D \in Nat /\ Len(wire) \in Nat /\ Len(rest) \in Nat
           /\ Len(header) \in Nat /\ Len(recv_buffer) \in Nat
           /\ filled \in Nat /\ payload_len \in Nat /\ Offset \in Nat
           /\ filled <= payload_len
           /\ \A k \in 1 .. N : submitted[k] \in Messages /\ MsgLen(submitted[k]) \in Nat
<1>1. submitted \in Seq(Messages) /\ delivered \in Seq(Deliveries)
  BY DEF TypeOK, Deliveries
<1>2. /\ N \in Nat /\ D \in Nat
      /\ \A k \in 1 .. N : submitted[k] \in Messages /\ MsgLen(submitted[k]) \in Nat
  BY <1>1, LenProperties, ElementOfSeq, MessageFacts DEF N, D
<1>3. /\ Len(wire) \in Nat /\ Len(rest) \in Nat
      /\ Len(header) \in Nat /\ Len(recv_buffer) \in Nat
  BY LenProperties DEF TypeOK
<1>4. payload_len \in Nat /\ filled \in Nat /\ filled <= payload_len
  BY <1>3 DEF TypeOK
<1> QED
  BY <1>2, <1>3, <1>4, Sizes DEF Offset

\* The bytes read next lie in the header, or behind it in the payload.
LEMMA InHeader ==
    ASSUME NEW h \in Nat, NEW o \in Nat, NEW n \in Nat, NEW len \in Nat, n <= h - o,
           NEW i \in Nat, i >= 1, i <= n
    PROVE  o + i \in 1 .. h + len
OBVIOUS

LEMMA InPayload ==
    ASSUME NEW h \in Nat, NEW f \in Nat, NEW n \in Nat, NEW len \in Nat, n <= len - f,
           NEW i \in Nat, i >= 1, i <= n
    PROVE  (h + f) + i \in 1 .. h + len
OBVIOUS

\* The next bytes the server reads are those of the message it is in.
LEMMA NextBytes ==
    ASSUME TypeOK, WireInv, ServerInv, Reading, NEW n \in 1 .. Window, n <= Len(wire),
           recvPc = "header" => n <= HeaderSize - Len(header),
           recvPc = "payload" => n <= payload_len - filled
    PROVE  D < N /\ \A i \in 1 .. n : wire[i] = ByteOf(submitted[D + 1], Offset + i)
<1>0. /\ N \in Nat /\ D \in Nat /\ Len(wire) \in Nat /\ Offset \in Nat /\ n \in Nat /\ n >= 1
      /\ filled \in Nat /\ payload_len \in Nat /\ Len(header) \in Nat
  BY Counts, Sizes
<1>1. PICK S \in [1 .. N + 1 -> Nat], R \in Nat : Starts(S) /\ WireAt(S, R)
  BY DEF WireInv
<1>2. R = S[D + 1] + Offset /\ R + Len(wire) <= S[N + 1]
  BY <1>1 DEF WireAt
<1>3. D < N
  <2>1. SUFFICES ASSUME D = N PROVE FALSE
    BY <1>0 DEF ServerInv
  <2>2. S[N + 1] \in Nat
    BY <1>0
  <2> QED
    BY <1>0, <1>2, <2>1, <2>2
<1>4. ASSUME NEW i \in 1 .. n PROVE wire[i] = ByteOf(submitted[D + 1], Offset + i)
  <2>1. D + 1 \in 1 .. N /\ i \in 1 .. Len(wire) /\ S[D + 1] \in Nat
    BY <1>0, <1>3
  <2>2. MsgLen(submitted[D + 1]) = HeaderSize + submitted[D + 1].packet.len
        /\ submitted[D + 1].packet.len \in Nat
    <3>1. submitted[D + 1] \in Messages
      BY <2>1, Counts
    <3> QED
      BY <3>1, MessageFacts, Sizes
  <2>3. Offset + i \in 1 .. MsgLen(submitted[D + 1])
    <3>1. /\ HeaderSize \in Nat /\ i \in Nat /\ i >= 1 /\ i <= n
          /\ submitted[D + 1].packet.len \in Nat
      BY <1>0, <2>2, Sizes
    <3>2. CASE recvPc = "header"
      <4>1. Offset = Len(header) /\ n <= HeaderSize - Len(header)
        BY <3>2 DEF Offset
      <4>2. Offset + i \in 1 .. HeaderSize + submitted[D + 1].packet.len
        BY ONLY <1>0, <3>1, <4>1, InHeader
      <4> QED
        BY <2>2, <4>2
    <3>3. CASE recvPc = "payload"
      <4>1. /\ Offset = HeaderSize + filled /\ n <= payload_len - filled
            /\ payload_len = submitted[D + 1].packet.len
        BY <3>3 DEF Offset, ServerInv
      <4>2. Offset + i \in 1 .. HeaderSize + submitted[D + 1].packet.len
        BY ONLY <1>0, <3>1, <4>1, InPayload
      <4> QED
        BY <2>2, <4>2
    <3> QED
      BY <3>2, <3>3 DEF Reading
  <2>4. R + i = S[D + 1] + (Offset + i)
    BY <1>0, <1>2, <2>1, SMTT(60)
  <2> QED
    BY <1>1, <2>1, <2>3, <2>4 DEF WireAt
<1> QED
  BY <1>3, <1>4

\* The client only adds messages.
LEMMA ServerFrame ==
    ASSUME TypeOK, ServerInv, InStep, DeliveredIntact, UNCHANGED server,
           N' \in Nat, N' >= N, \A k \in 1 .. N : submitted'[k] = submitted[k]
    PROVE  ServerType' /\ ServerInv' /\ InStep' /\ DeliveredIntact'
<1>0. N \in Nat /\ D \in Nat
  BY Counts
<1>1. UNCHANGED <<recvPc, header, payload_len, filled, sequence_initialized,
                  last_sequence, warned, recv_buffer, delivered>> /\ D' = D
  BY DEF server, reading, checks, D
<1>2. ServerType'
  BY <1>1, TypeParts DEF ServerType
<1>3. InStep'
  BY <1>1 DEF InStep
<1>4. delivered \in Seq(Deliveries)
  BY DEF TypeOK, Deliveries
<1>5. DOMAIN delivered = 1 .. D
  BY <1>4, LenProperties DEF D
<1>6. DeliveredIntact'
  <2>1. D <= N /\ \A i \in 1 .. D : /\ delivered[i].bytes = PayloadBytes(submitted[i].packet)
                                    /\ delivered[i].sequence = submitted[i].sequence
    BY <1>5 DEF DeliveredIntact, N, D
  <2>2. \A i \in 1 .. D : submitted'[i] = submitted[i]
    BY <1>0, <2>1
  <2>3. D <= N' /\ \A i \in 1 .. D : /\ delivered[i].bytes = PayloadBytes(submitted'[i].packet)
                                     /\ delivered[i].sequence = submitted'[i].sequence
    BY <1>0, <2>1, <2>2
  <2> QED
    BY <1>1, <1>5, <2>3 DEF DeliveredIntact, N, D, PayloadBytes
<1>7. ServerInv'
  <2>1. D < N => submitted'[D + 1] = submitted[D + 1]
    BY <1>0
  <2>2. D >= 1 => submitted'[D] = submitted[D]
    BY <1>0 DEF ServerInv
  <2>3. Len(header) \in Nat
    BY Counts
  <2>4. CASE recvPc = "header"
    <3>1. \A i \in 1 .. Len(header) : header[i] = ByteOf(submitted'[D + 1], i)
      <4>1. CASE Len(header) > 0
        BY <2>1, <2>4, <4>1 DEF ServerInv
      <4>2. CASE ~(Len(header) > 0)
        BY <2>3, <4>2
      <4> QED
        BY <4>1, <4>2
    <3> QED
      BY <1>0, <1>1, <2>2, <2>4, <3>1 DEF ServerInv
  <2>5. CASE recvPc = "payload"
    BY <1>0, <1>1, <2>1, <2>5 DEF ServerInv
  <2>6. CASE recvPc \notin {"header", "payload"}
    BY <1>0, <1>1, <2>6 DEF ServerInv
  <2> QED
    BY <2>4, <2>5, <2>6
<1> QED
  BY <1>2, <1>3, <1>6, <1>7

\* A complete header is the next message's.
LEMMA CompleteHeader ==
    ASSUME TypeOK, ClientInv, ServerInv, InStep, recvPc = "header", Len(header) = HeaderSize
    PROVE  /\ D < N /\ ValidHeader
           /\ header[1].len = submitted[D + 1].packet.len
           /\ header[1].len \in 1 .. MaxPayloadSize
           /\ header[1].sequence = submitted[D + 1].sequence
           /\ header[1].sequence \in Sequences
           /\ sequence_initialized => header[1].sequence = Expected
<1>1. D < N /\ \A i \in 1 .. HeaderSize : header[i] = ByteOf(submitted[D + 1], i)
  BY Sizes DEF ServerInv
<1>2. D + 1 \in 1 .. N /\ D \in Nat /\ N \in Nat
  BY <1>1, Counts
<1>3. submitted[D + 1] \in Messages
  BY <1>2, Counts
<1>4. \A i \in 1 .. HeaderSize : header[i].part = "header" /\ header[i].at = i
  BY <1>1, Sizes DEF ByteOf
<1>5. 1 \in 1 .. HeaderSize /\ 1 <= HeaderSize
  BY Sizes
<1>6. header[1].len = submitted[D + 1].packet.len
      /\ header[1].sequence = submitted[D + 1].sequence
  BY <1>1, <1>5 DEF ByteOf
<1>7. header[1].len \in 1 .. MaxPayloadSize /\ header[1].sequence \in Sequences
  BY <1>3, <1>6, MessageFacts
<1>8. ASSUME sequence_initialized PROVE header[1].sequence = Expected
  <2>1. D >= 1 /\ last_sequence = submitted[D].sequence
    BY <1>8 DEF ServerInv
  <2>2. D \in 1 .. N - 1
    BY <1>2, <2>1
  <2> QED
    BY <1>6, <2>1, <2>2 DEF ClientInv, Expected
<1> QED
  BY <1>1, <1>4, <1>6, <1>7, <1>8 DEF ValidHeader

\* It passes the sequence check.
LEMMA CheckPasses ==
    ASSUME TypeOK, ClientInv, ServerInv, InStep, recvPc = "header",
           Len(header) = HeaderSize, CheckSequence
    PROVE  warned' = FALSE /\ sequence_initialized' = TRUE
           /\ last_sequence' = submitted[D + 1].sequence /\ last_sequence' \in Sequences
<1>1. /\ header[1].sequence = submitted[D + 1].sequence
      /\ header[1].sequence \in Sequences
      /\ sequence_initialized => header[1].sequence = Expected
  BY CompleteHeader
<1>2. warned' = (warned \/ (sequence_initialized /\ header[1].sequence # Expected))
      /\ last_sequence' = header[1].sequence /\ sequence_initialized' = TRUE
  BY DEF CheckSequence
<1>3. ~warned
  BY DEF InStep
<1>4. warned' = FALSE
  BY <1>1, <1>2, <1>3, Zenon
<1> QED
  BY <1>1, <1>2, <1>4

LEMMA BufferType ==
    ASSUME TypeOK, NEW len \in 1 .. MaxPayloadSize
    PROVE  /\ BufferFor(len) \in Seq(Bytes)
           /\ Len(BufferFor(len)) <= MaxPayloadSize /\ len <= Len(BufferFor(len))
           /\ Len(BufferFor(len)) \in Nat
<1> DEFINE more == [i \in 1 .. len - Len(recv_buffer) |-> NoData]
           n == IF len > Len(recv_buffer) THEN len - Len(recv_buffer) ELSE 0
<1>1. recv_buffer \in Seq(Bytes) /\ Len(recv_buffer) \in Nat
      /\ Len(recv_buffer) <= MaxPayloadSize /\ len \in Nat
  BY Counts, Sizes DEF TypeOK
<1>2. n \in Nat /\ 1 .. n = 1 .. len - Len(recv_buffer)
  BY <1>1
<1>3. more \in [1 .. n -> Bytes]
  BY <1>2 DEF Bytes
<1> HIDE DEF n
<1>4. more \in Seq(Bytes) /\ Len(more) = n
  BY <1>2, <1>3, FunSeq
<1> HIDE DEF more
<1>5. recv_buffer \o more \in Seq(Bytes) /\ Len(recv_buffer \o more) = Len(recv_buffer) + n
  BY <1>1, <1>4, ConcatProperties
<1>6. BufferFor(len) = recv_buffer \o more
  BY DEF BufferFor, more
<1>7. Len(recv_buffer) + n <= MaxPayloadSize /\ len <= Len(recv_buffer) + n
  BY <1>1, Sizes DEF n
<1> QED
  BY <1>1, <1>2, <1>5, <1>6, <1>7

LEMMA ServerStep ==
    ASSUME IInv, [Next]_vars
    PROVE  ServerType' /\ WireType' /\ ServerInv' /\ InStep' /\ DeliveredIntact'
<1>0. /\ TypeOK /\ WireInv /\ ClientInv /\ ServerInv /\ InStep /\ DeliveredIntact
      /\ ClientType /\ ServerType /\ WireType
  BY TypeParts DEF IInv
<1>a. /\ N \in Nat /\ D \in Nat /\ Len(wire) \in Nat /\ Len(rest) \in Nat
      /\ Len(header) \in Nat /\ Len(recv_buffer) \in Nat
      /\ filled \in Nat /\ payload_len \in Nat /\ Offset \in Nat /\ filled <= payload_len
  BY <1>0, Counts
<1>f. ASSUME UNCHANGED <<server, submitted>>
      PROVE  ServerType' /\ ServerInv' /\ InStep' /\ DeliveredIntact'
  <2>1. N' = N /\ submitted' = submitted /\ UNCHANGED server
    BY <1>f DEF N
  <2> QED
    BY <1>0, <1>a, <2>1, ServerFrame
<1>1. ASSUME NEW len \in PayloadSizes, SendBegin(len)
      PROVE  ServerType' /\ WireType' /\ ServerInv' /\ InStep' /\ DeliveredIntact'
  <2>1. N' = N + 1 /\ (\A k \in 1 .. N : submitted'[k] = submitted[k])
        /\ wire' = wire /\ UNCHANGED server
    BY <1>0, <1>1, SendBeginFacts
  <2> QED
    BY <1>0, <1>a, <2>1, ServerFrame DEF WireType
<1>2. ASSUME NEW n \in 1 .. Window, SendSome(n)
      PROVE  ServerType' /\ WireType' /\ ServerInv' /\ InStep' /\ DeliveredIntact'
  <2>1. /\ n \in 0 .. Len(rest) /\ n \in Nat /\ rest \in Seq(Bytes) /\ wire \in Seq(Bytes)
        /\ wire' = wire \o SubSeq(rest, 1, n)
        /\ Len(wire) + n <= Window
        /\ UNCHANGED <<server, submitted>>
    BY <1>0, <1>a, <1>2, Sizes DEF SendSome, ClientType, WireType
  <2>2. SubSeq(rest, 1, n) \in Seq(Bytes) /\ Len(SubSeq(rest, 1, n)) = n
    BY <2>1, Cut
  <2>3. wire' \in Seq(Bytes) /\ Len(wire') = Len(wire) + n
    BY <2>1, <2>2, ConcatProperties
  <2> QED
    BY <1>f, <2>1, <2>3 DEF WireType
<1>3. CASE HeaderSent \/ PacketSent \/ SendFails \/ ClientGone \/ Reset \/ ServerGone
           \/ UNCHANGED vars
  <2>1. UNCHANGED <<server, submitted, wire>>
    BY <1>3 DEF HeaderSent, PacketSent, SendFails, ClientGone, Reset, ServerGone, vars, client
  <2> QED
    BY <1>0, <1>f, <2>1 DEF WireType
<1>4. ASSUME NEW len \in PayloadSizes, SendRefused(len)
      PROVE  ServerType' /\ WireType' /\ ServerInv' /\ InStep' /\ DeliveredIntact'
  <2>1. UNCHANGED <<server, submitted, wire>>
    BY <1>4 DEF SendRefused
  <2> QED
    BY <1>0, <1>f, <2>1 DEF WireType
<1>5. ASSUME NEW n \in 1 .. Window, RecvHeader(n)
      PROVE  ServerType' /\ WireType' /\ ServerInv' /\ InStep' /\ DeliveredIntact'
  <2>1. /\ recvPc = "header" /\ n \in 0 .. Len(wire) /\ n <= HeaderSize - Len(header)
        /\ n \in Nat /\ n >= 1 /\ n <= Len(wire)
        /\ header' = header \o SubSeq(wire, 1, n)
        /\ wire' = SubSeq(wire, n + 1, Len(wire))
        /\ UNCHANGED <<submitted, recvPc, payload_len, filled, checks, recv_buffer, delivered>>
    BY <1>a, <1>5, Sizes DEF RecvHeader, HeaderLeft, client
  <2>2. wire \in Seq(Bytes) /\ header \in Seq(Bytes)
    BY <1>0 DEF WireType, ServerType
  <2>3. /\ SubSeq(wire, 1, n) \in Seq(Bytes) /\ Len(SubSeq(wire, 1, n)) = n
        /\ \A i \in 1 .. n : SubSeq(wire, 1, n)[i] = wire[i]
        /\ wire' \in Seq(Bytes) /\ Len(wire') = Len(wire) - n
    BY <2>1, <2>2, Cut
  <2>4. /\ header' \in Seq(Bytes) /\ Len(header') = Len(header) + n
        /\ \A i \in 1 .. Len(header) + n :
               header'[i] = IF i <= Len(header) THEN header[i]
                                                ELSE SubSeq(wire, 1, n)[i - Len(header)]
    BY <2>1, <2>2, <2>3, ConcatProperties
  <2>5. D < N /\ \A i \in 1 .. n : wire[i] = ByteOf(submitted[D + 1], Len(header) + i)
    <3>1. Reading /\ Offset = Len(header)
      BY <2>1 DEF Reading, Offset
    <3> QED
      BY <1>0, <2>1, <3>1, NextBytes
  <2>6. \A i \in 1 .. Len(header') : header'[i] = ByteOf(submitted[D + 1], i)
    <3>1. ASSUME NEW i \in 1 .. Len(header') PROVE header'[i] = ByteOf(submitted[D + 1], i)
      <4>1. CASE i <= Len(header)
        BY <1>0, <1>a, <2>1, <2>4, <4>1 DEF ServerInv
      <4>2. CASE ~(i <= Len(header))
        <5>1. i - Len(header) \in 1 .. n /\ Len(header) + (i - Len(header)) = i
          BY <1>a, <2>1, <2>4, <4>2
        <5> QED
          BY <2>3, <2>4, <2>5, <4>2, <5>1
      <4> QED
        BY <4>1, <4>2
    <3> QED
      BY <3>1
  <2>7. ServerType'
    BY <1>0, <1>a, <2>1, <2>4, Sizes DEF ServerType, checks
  <2>8. WireType'
    BY <1>0, <1>a, <2>1, <2>3, Sizes DEF WireType
  <2>9. N' = N /\ D' = D /\ ServerInv'
    BY <1>0, <2>1, <2>5, <2>6 DEF ServerInv, checks, N, D
  <2> QED
    BY <1>0, <2>1, <2>7, <2>8, <2>9 DEF InStep, DeliveredIntact, checks
<1>6. CASE ParseHeader
  <2>1. /\ recvPc = "header" /\ Len(header) = HeaderSize
        /\ UNCHANGED <<wire, submitted, header, filled, delivered>>
    BY <1>6 DEF ParseHeader, client
  <2>2. /\ D < N /\ ValidHeader
        /\ header[1].len = submitted[D + 1].packet.len
        /\ header[1].len \in 1 .. MaxPayloadSize
    BY <1>0, <2>1, CompleteHeader
  <2>3. /\ CheckSequence /\ payload_len' = header[1].len
        /\ recv_buffer' = BufferFor(header[1].len) /\ recvPc' = "payload"
    BY <1>6, <2>2 DEF ParseHeader, HeaderAccepted
  <2>4. /\ warned' = FALSE /\ sequence_initialized' = TRUE
        /\ last_sequence' = submitted[D + 1].sequence /\ last_sequence' \in Sequences
    BY <1>0, <2>1, <2>3, CheckPasses
  <2>5. /\ recv_buffer' \in Seq(Bytes) /\ Len(recv_buffer') <= MaxPayloadSize
        /\ payload_len' <= Len(recv_buffer') /\ Len(recv_buffer') \in Nat
    BY <1>0, <2>2, <2>3, BufferType
  <2>6. filled = 0 /\ filled' = 0 /\ payload_len' \in Nat
    BY <1>0, <2>1, <2>2, <2>3, Sizes DEF ServerInv
  <2>7. ServerType'
    <3>1. warned' \in BOOLEAN /\ sequence_initialized' \in BOOLEAN
      BY <2>4
    <3>2. filled' \in 0 .. payload_len' /\ payload_len' \in 0 .. Len(recv_buffer')
      BY <2>5, <2>6
    <3>3. last_sequence' \in Sequences /\ recvPc' = "payload"
      BY <2>3, <2>4
    <3> QED
      BY <1>0, <2>1, <2>5, <3>1, <3>2, <3>3 DEF ServerType
  <2>8. N' = N /\ D' = D
    BY <2>1 DEF N, D
  <2>9. ServerInv'
    BY <1>0, <2>1, <2>2, <2>3, <2>4, <2>6, <2>8 DEF ServerInv
  <2>10. InStep'
    BY <2>3, <2>4 DEF InStep
  <2> QED
    BY <1>0, <2>1, <2>7, <2>9, <2>10 DEF WireType, DeliveredIntact
<1>7. CASE ReallocFails
  <2>1. /\ recvPc = "header" /\ Len(header) = HeaderSize /\ CheckSequence
        /\ recvPc' = "failed"
        /\ UNCHANGED <<wire, submitted, header, payload_len, filled, recv_buffer, delivered>>
    BY <1>7 DEF ReallocFails, client
  <2>2. /\ warned' = FALSE /\ sequence_initialized' = TRUE /\ last_sequence' \in Sequences
    BY <1>0, <2>1, CheckPasses
  <2>3. N' = N /\ D' = D
    BY <2>1 DEF N, D
  <2>4. ServerType'
    BY <1>0, <2>1, <2>2 DEF ServerType
  <2> QED
    BY <1>0, <2>1, <2>2, <2>3, <2>4 DEF ServerInv, InStep, WireType, DeliveredIntact
<1>8. ASSUME NEW n \in 1 .. Window, RecvPayload(n)
      PROVE  ServerType' /\ WireType' /\ ServerInv' /\ InStep' /\ DeliveredIntact'
  <2>1. /\ recvPc = "payload" /\ n \in 0 .. Len(wire) /\ n <= payload_len - filled
        /\ n \in Nat /\ n >= 1 /\ n <= Len(wire) /\ filled' = filled + n
        /\ recv_buffer' = [i \in DOMAIN recv_buffer |->
                              IF i \in filled + 1 .. filled + n THEN wire[i - filled]
                                                                ELSE recv_buffer[i]]
        /\ wire' = SubSeq(wire, n + 1, Len(wire))
        /\ UNCHANGED <<submitted, recvPc, header, payload_len, checks, delivered>>
    BY <1>a, <1>8, Sizes DEF RecvPayload, PayloadLeft, client
  <2>2. wire \in Seq(Bytes) /\ recv_buffer \in Seq(Bytes)
        /\ DOMAIN recv_buffer = 1 .. Len(recv_buffer)
        /\ (\A i \in 1 .. Len(wire) : wire[i] \in Bytes)
        /\ \A i \in 1 .. Len(recv_buffer) : recv_buffer[i] \in Bytes
    BY <1>0, LenProperties, ElementOfSeq DEF WireType, ServerType
  <2>3. wire' \in Seq(Bytes) /\ Len(wire') = Len(wire) - n
    BY <2>1, <2>2, Cut
  <2>4. recv_buffer' \in Seq(Bytes) /\ Len(recv_buffer') = Len(recv_buffer)
    <3>1. \A i \in 1 .. Len(recv_buffer) : i \in filled + 1 .. filled + n =>
              i - filled \in 1 .. Len(wire)
      BY <1>a, <2>1, SMTT(30)
    <3>2. recv_buffer' \in [1 .. Len(recv_buffer) -> Bytes]
      BY <2>1, <2>2, <3>1
    <3> QED
      BY <1>a, <3>2, FunSeq
  <2>5. D < N /\ \A i \in 1 .. n : wire[i] = ByteOf(submitted[D + 1], (HeaderSize + filled) + i)
    <3>1. Reading /\ Offset = HeaderSize + filled
      BY <2>1 DEF Reading, Offset
    <3> QED
      BY <1>0, <2>1, <3>1, NextBytes
  <2>6. filled' \in Nat /\ filled' <= payload_len /\ payload_len <= Len(recv_buffer)
    BY <1>0, <1>a, <2>1 DEF ServerType
  <2>7. \A i \in 1 .. filled' : recv_buffer'[i] = ByteOf(submitted[D + 1], HeaderSize + i)
    <3>1. ASSUME NEW i \in 1 .. filled'
          PROVE  recv_buffer'[i] = ByteOf(submitted[D + 1], HeaderSize + i)
      <4>0. i \in DOMAIN recv_buffer
        BY <1>a, <2>2, <2>6
      <4>1. CASE i <= filled
        <5>1. i \notin filled + 1 .. filled + n /\ i \in 1 .. filled
          BY <1>a, <2>1, <4>1
        <5> QED
          BY <1>0, <2>1, <4>0, <5>1 DEF ServerInv
      <4>2. CASE ~(i <= filled)
        <5>1. i \in filled + 1 .. filled + n /\ i - filled \in 1 .. n
              /\ (HeaderSize + filled) + (i - filled) = HeaderSize + i
          BY <1>a, <2>1, <4>2, Sizes, SMTT(30)
        <5> QED
          BY <2>1, <2>5, <4>0, <5>1
      <4> QED
        BY <4>1, <4>2
    <3> QED
      BY <3>1
  <2>8. ServerType'
    BY <1>0, <1>a, <2>1, <2>4, <2>6 DEF ServerType, checks
  <2>9. WireType'
    BY <1>0, <1>a, <2>1, <2>3, Sizes, SMTT(60) DEF WireType
  <2>10. N' = N /\ D' = D /\ ServerInv'
    BY <1>0, <2>1, <2>5, <2>7 DEF ServerInv, checks, N, D
  <2> QED
    BY <1>0, <2>1, <2>8, <2>9, <2>10 DEF InStep, DeliveredIntact, checks
<1>9. CASE PacketReceived
  <2> DEFINE d == [bytes |-> Received, sequence |-> last_sequence]
             p == PayloadBytes(submitted[D + 1].packet)
  <2>1. /\ recvPc = "payload" /\ filled = payload_len
        /\ delivered' = Append(delivered, d)
        /\ header' = <<>> /\ payload_len' = 0 /\ filled' = 0 /\ recvPc' = "header"
        /\ UNCHANGED <<wire, submitted, checks, recv_buffer>>
    BY <1>9 DEF PacketReceived, client
  <2>2. /\ D < N /\ payload_len = submitted[D + 1].packet.len
        /\ last_sequence = submitted[D + 1].sequence /\ sequence_initialized
        /\ \A i \in 1 .. payload_len :
               recv_buffer[i] = ByteOf(submitted[D + 1], HeaderSize + i)
    BY <1>0, <2>1 DEF ServerInv
  <2>3. submitted[D + 1] \in Messages
    <3>1. D + 1 \in 1 .. N
      BY <1>a, <2>2
    <3> QED
      BY <1>0, <3>1, Counts
  <2>4. p \in Seq(Bytes) /\ Len(p) = payload_len
        /\ \A i \in 1 .. payload_len : p[i] = ByteOf(submitted[D + 1], HeaderSize + i)
    BY <2>2, <2>3, PayloadIs
  <2>5. /\ Received \in Seq(Bytes) /\ Len(Received) = payload_len
        /\ \A i \in 1 .. payload_len : Received[i] = recv_buffer[i]
    <3>1. recv_buffer \in Seq(Bytes) /\ payload_len \in 0 .. Len(recv_buffer)
      BY <1>0 DEF ServerType
    <3> QED
      BY <3>1, Cut DEF Received
  <2>6. Received = p
    BY <2>2, <2>4, <2>5, SeqEqual
  <2>7. d \in Deliveries /\ delivered \in Seq(Deliveries)
    BY <1>0, <2>5 DEF Deliveries, ServerType
  <2>8. d.bytes = p /\ d.sequence = submitted[D + 1].sequence
    BY <2>2, <2>6
  <2> HIDE DEF d, p
  <2>9. /\ delivered' \in Seq(Deliveries) /\ D' = D + 1 /\ delivered'[D + 1] = d
        /\ \A i \in 1 .. D : delivered'[i] = delivered[i]
    BY <2>1, <2>7, AppendProperties DEF D
  <2>10. DOMAIN delivered = 1 .. D /\ DOMAIN delivered' = 1 .. D + 1
    BY <2>7, <2>9, LenProperties DEF D
  <2>11. DeliveredIntact'
    <3>1. ASSUME NEW i \in 1 .. D + 1
          PROVE  /\ delivered'[i].bytes = PayloadBytes(submitted[i].packet)
                 /\ delivered'[i].sequence = submitted[i].sequence
      <4>1. CASE i = D + 1
        BY <2>8, <2>9, <4>1 DEF p
      <4>2. CASE i # D + 1
        <5>1. i \in 1 .. D
          BY <1>a, <4>2
        <5> QED
          BY <1>0, <2>9, <2>10, <5>1 DEF DeliveredIntact
      <4> QED
        BY <4>1, <4>2
    <3>2. D + 1 <= N
      BY <1>a, <2>2
    <3>3. \A i \in DOMAIN delivered' :
              /\ delivered'[i].bytes = PayloadBytes(submitted'[i].packet)
              /\ delivered'[i].sequence = submitted'[i].sequence
      BY <2>1, <2>10, <3>1
    <3>4. Len(delivered') <= Len(submitted')
      BY <2>1, <2>9, <3>2 DEF N, D
    <3> QED
      BY <3>3, <3>4 DEF DeliveredIntact, PayloadBytes
  <2>12. header' \in Seq(Bytes) /\ Len(header') = 0
    BY <2>1, EmptySeq
  <2>13. ServerType'
    BY <1>0, <1>a, <2>1, <2>9, <2>12, Sizes DEF ServerType, Deliveries, checks
  <2>14. N' = N /\ ServerInv'
    BY <1>a, <2>1, <2>2, <2>9, <2>12 DEF ServerInv, checks, N
  <2> QED
    BY <1>0, <2>1, <2>11, <2>13, <2>14 DEF InStep, WireType, checks
<1>10. CASE RecvEnds \/ RecvFails
  <2>1. /\ recvPc' \in {"disconnected", "failed"}
        /\ UNCHANGED <<wire, submitted, header, payload_len, filled, checks, recv_buffer,
                       delivered>>
    BY <1>10 DEF RecvEnds, RecvFails, client
  <2>2. N' = N /\ D' = D
    BY <2>1 DEF N, D
  <2>3. ServerType'
    BY <1>0, <2>1 DEF ServerType, checks
  <2> QED
    BY <1>0, <2>1, <2>2, <2>3 DEF ServerInv, InStep, WireType, DeliveredIntact, checks
<1> QED
  BY <1>1, <1>2, <1>3, <1>4, <1>5, <1>6, <1>7, <1>8, <1>9, <1>10
     DEF Next, SendStep, RecvStep

-----------------------------------------------------------------------------
(* The wire.                                                               *)

\* Nothing moves in the stream.
LEMMA WireFrame ==
    ASSUME WireInv, Reading' => Reading, wire' = wire, submitted' = submitted,
           Offset' = Offset, D' = D,
           connected' => connected /\ Unsent' = Unsent
    PROVE  WireInv'
<1>1. SUFFICES ASSUME Reading'
               PROVE  \E S \in [1 .. N' + 1 -> Nat], R \in Nat : Starts(S)' /\ WireAt(S, R)'
  BY DEF WireInv
<1>2. PICK S \in [1 .. N + 1 -> Nat], R \in Nat : Starts(S) /\ WireAt(S, R)
  BY <1>1 DEF WireInv
<1>3. N' = N
  BY DEF N
<1>4. Starts(S)'
  BY <1>2, <1>3 DEF Starts, MsgLen
<1>5. WireAt(S, R)'
  BY <1>2, <1>3 DEF WireAt, MsgLen, ByteOf
<1> QED
  BY <1>3, <1>4, <1>5

\* The server reads n bytes of the message it is in.
LEMMA WireAdvance ==
    ASSUME TypeOK, WireInv, ServerInv, Reading, NEW n \in 1 .. Window, n <= Len(wire),
           wire' = SubSeq(wire, n + 1, Len(wire)), UNCHANGED <<submitted, delivered, client>>,
           Offset' = Offset + n
    PROVE  WireInv'
<1>0. /\ N \in Nat /\ D \in Nat /\ Len(wire) \in Nat /\ Offset \in Nat /\ n \in Nat /\ n >= 1
      /\ n \in 0 .. Len(wire) /\ N' = N /\ D' = D /\ D <= N
  BY Counts, Sizes DEF N, D, ServerInv
<1>1. PICK S \in [1 .. N + 1 -> Nat], R \in Nat : Starts(S) /\ WireAt(S, R)
  BY DEF WireInv
<1>2. wire \in Seq(Bytes)
  BY DEF TypeOK
<1>3. /\ Len(wire') = Len(wire) - n
      /\ \A i \in 1 .. Len(wire) - n : wire'[i] = wire[n + i]
  BY <1>0, <1>2, Cut
<1>4. Starts(S)'
  BY <1>0, <1>1 DEF Starts, MsgLen
<1>5. /\ S[D + 1] \in Nat /\ S[N + 1] \in Nat
      /\ R = S[D + 1] + Offset /\ R + Len(wire) <= S[N + 1]
  <2>1. D + 1 \in 1 .. N + 1 /\ N + 1 \in 1 .. N + 1
    BY <1>0
  <2> QED
    BY <1>1, <2>1 DEF WireAt
<1>c. connected => R + Len(wire) + Unsent = S[N + 1]
  BY <1>1 DEF WireAt
<1>6. (R + n) + Len(wire') = R + Len(wire) /\ R + n = S[D + 1] + Offset'
  <2>1. Len(wire) \in Nat /\ n \in Nat /\ Len(wire') = Len(wire) - n
    BY <1>0, <1>3
  <2>r. R \in Nat
    BY <1>1
  <2>2. (R + n) + Len(wire') = R + Len(wire)
    BY ONLY <2>r, <2>1, ReadOn
  <2>3. S[D + 1] \in Nat /\ Offset \in Nat /\ R = S[D + 1] + Offset
    BY <1>0, <1>5
  <2>4. R + n = S[D + 1] + Offset'
    BY <2>r, <2>1, <2>3
  <2> QED
    BY <2>2, <2>4
<1>7. Unsent' = Unsent /\ connected' = connected
  BY DEF client, Unsent
<1>8. ASSUME NEW k \in 1 .. N, NEW o \in 1 .. MsgLen(submitted[k]), NEW i \in 1 .. Len(wire'),
             (R + n) + i = S[k] + o
      PROVE  wire'[i] = ByteOf(submitted[k], o)
  <2>1. n + i \in 1 .. Len(wire) /\ wire'[i] = wire[n + i] /\ R + (n + i) = S[k] + o
    BY <1>0, <1>3, <1>8, SMTT(30)
  <2> QED
    BY <1>1, <2>1 DEF WireAt
<1>9. WireAt(S, R + n)'
  BY <1>0, <1>5, <1>c, <1>6, <1>7, <1>8, ZenonT(90) DEF WireAt, MsgLen, ByteOf
<1>10. R + n \in Nat
  BY <1>0
<1> QED
  BY <1>0, <1>4, <1>9, <1>10 DEF WireInv

\* A new message at the end of the stream.
LEMMA WireGrows ==
    ASSUME TypeOK, WireInv, ServerInv, NEW m \in Messages, connected, sendPc = "idle",
           submitted' = Append(submitted, m), wire' = wire, UNCHANGED server,
           Unsent' = MsgLen(m)
    PROVE  WireInv'
<1>1. SUFFICES ASSUME Reading
               PROVE  \E S \in [1 .. N' + 1 -> Nat], R \in Nat : Starts(S)' /\ WireAt(S, R)'
  BY DEF WireInv, Reading, server, reading
<1>2. PICK S \in [1 .. N + 1 -> Nat], R \in Nat : Starts(S) /\ WireAt(S, R)
  BY <1>1 DEF WireInv
<1>3. /\ N \in Nat /\ D \in Nat /\ D <= N /\ Len(wire) \in Nat /\ Offset \in Nat
      /\ \A k \in 1 .. N : MsgLen(submitted[k]) \in Nat
  BY Counts DEF ServerInv
<1>4. /\ N' = N + 1 /\ submitted'[N + 1] = m
      /\ \A k \in 1 .. N : submitted'[k] = submitted[k]
  <2>1. submitted \in Seq(Messages)
    BY DEF TypeOK
  <2> QED
    BY <2>1, AppendProperties DEF N
<1>5. D' = D /\ Offset' = Offset
  BY DEF server, reading, D, Offset
<1>6. MsgLen(m) \in Nat
  BY MessageFacts
<1>p. \E T \in [1 .. N' + 1 -> Nat] :
          /\ \A k \in 1 .. N + 1 : T[k] = S[k] /\ S[k] \in Nat
          /\ T[N + 2] = S[N + 1] + MsgLen(m) /\ N + 1 + 1 = N + 2
  <2> DEFINE T == [k \in 1 .. N + 2 |-> IF k <= N + 1 THEN S[k] ELSE S[N + 1] + MsgLen(m)]
  <2>1. \A k \in 1 .. N + 1 : k \in 1 .. N + 2 /\ S[k] \in Nat
    BY <1>3
  <2>2. N + 1 \in 1 .. N + 1 /\ N + 2 \in 1 .. N + 2 /\ ~(N + 2 <= N + 1)
    BY <1>3
  <2>3. \A k \in 1 .. N + 2 : k <= N + 1 => k \in 1 .. N + 1
    BY <1>3
  <2>4. N' + 1 = N + 2 /\ N + 1 + 1 = N + 2
    BY <1>3, <1>4
  <2>5. /\ T \in [1 .. N' + 1 -> Nat]
        /\ \A k \in 1 .. N + 1 : T[k] = S[k] /\ S[k] \in Nat
        /\ T[N + 2] = S[N + 1] + MsgLen(m)
    BY <1>6, <2>1, <2>2, <2>3, <2>4
  <2> HIDE DEF T
  <2> QED
    BY <2>4, <2>5
<1>7. PICK T \in [1 .. N' + 1 -> Nat] :
          /\ \A k \in 1 .. N + 1 : T[k] = S[k] /\ S[k] \in Nat
          /\ T[N + 2] = S[N + 1] + MsgLen(m) /\ N + 1 + 1 = N + 2
  BY <1>p
<1>8. Starts(T)'
  <2>1. T[1] = 0
    <3>1. 1 \in 1 .. N + 1
      BY <1>3
    <3> QED
      BY <1>2, <1>7, <3>1 DEF Starts
  <2>2. ASSUME NEW k \in 1 .. N + 1 PROVE T[k + 1] = T[k] + MsgLen(submitted'[k])
    <3>1. CASE k = N + 1
      BY <1>3, <1>4, <1>7, <3>1
    <3>2. CASE k # N + 1
      <4>1. k \in 1 .. N /\ k + 1 \in 1 .. N + 1
        BY <1>3, <3>2
      <4> QED
        BY <1>2, <1>4, <1>7, <4>1 DEF Starts
    <3> QED
      BY <3>1, <3>2
  <2>3. ASSUME NEW k \in 1 .. N + 2, NEW l \in 1 .. N + 2, k <= l PROVE T[k] <= T[l]
    <3>1. CASE l = N + 2
      <4>1. CASE k = N + 2
        BY <1>3, <1>6, <1>7, <3>1, <4>1
      <4>2. CASE k # N + 2
        <5>1. k \in 1 .. N + 1 /\ N + 1 \in 1 .. N + 1 /\ k <= N + 1
          BY <1>3, <4>2
        <5>2. S[k] <= S[N + 1]
          BY <1>2, <5>1 DEF Starts
        <5> QED
          BY <1>6, <1>7, <3>1, <5>1, <5>2
      <4> QED
        BY <4>1, <4>2
    <3>2. CASE l # N + 2
      <4>1. k \in 1 .. N + 1 /\ l \in 1 .. N + 1
        BY <1>3, <2>3, <3>2
      <4> QED
        BY <1>2, <1>7, <2>3, <4>1 DEF Starts
    <3> QED
      BY <3>1, <3>2
  <2>4. N' + 1 = N + 2
    BY <1>3, <1>4
  <2> QED
    BY <1>4, <2>1, <2>2, <2>3, <2>4 DEF Starts, MsgLen
<1>9. WireAt(T, R)'
  <2>1. /\ R = S[D + 1] + Offset /\ R + Len(wire) <= S[N + 1]
        /\ R + Len(wire) = S[N + 1]
    BY <1>2, <1>3, <1>7 DEF WireAt, Unsent
  <2>2. D + 1 \in 1 .. N + 1 /\ N + 1 \in 1 .. N + 1 /\ N' + 1 = N + 2
    BY <1>3, <1>4
  <2>3. T[D + 1] = S[D + 1] /\ T[N + 1] = S[N + 1] /\ S[N + 1] \in Nat
    BY <1>7, <2>2
  <2>4. R = T[D + 1] + Offset' /\ R + Len(wire) <= T[N + 2]
        /\ R + Len(wire) + Unsent' = T[N + 2]
    BY <1>5, <1>6, <1>7, <2>1, <2>3
  <2>5. ASSUME NEW k \in 1 .. N + 1, NEW o \in 1 .. MsgLen(submitted'[k]),
               NEW i \in 1 .. Len(wire), R + i = T[k] + o
        PROVE  wire[i] = ByteOf(submitted'[k], o)
    <3>1. CASE k = N + 1
      <4>1. /\ i \in Nat /\ i <= Len(wire) /\ o \in Int /\ o >= 1
            /\ R + i = S[N + 1] + o
        BY <1>3, <2>3, <2>5, <3>1
      <4>2. FALSE
        BY ONLY <4>1, <1>3, <2>1, <2>3, R \in Nat
      <4> QED
        BY <4>2
    <3>2. CASE k # N + 1
      <4>1. k \in 1 .. N /\ k \in 1 .. N + 1
        BY <1>3, <3>2
      <4>2. submitted'[k] = submitted[k] /\ T[k] = S[k]
        BY <1>4, <1>7, <4>1
      <4> QED
        BY <1>2, <2>5, <4>1, <4>2 DEF WireAt
    <3> QED
      BY <3>1, <3>2
  <2> QED
    BY <1>4, <1>5, <2>2, <2>4, <2>5, ZenonT(90) DEF WireAt, MsgLen, ByteOf
<1> QED
  BY <1>7, <1>8, <1>9

\* The client puts n bytes of its message on the wire.
LEMMA WireFills ==
    ASSUME TypeOK, ClientInv, WireInv, ServerInv, NEW n \in 1 .. Window, SendSome(n)
    PROVE  WireInv'
<1>1. SUFFICES ASSUME Reading
               PROVE  \E S \in [1 .. N' + 1 -> Nat], R \in Nat : Starts(S)' /\ WireAt(S, R)'
  BY DEF WireInv, Reading, SendSome, server, reading
<1>2. PICK S \in [1 .. N + 1 -> Nat], R \in Nat : Starts(S) /\ WireAt(S, R)
  BY <1>1 DEF WireInv
<1>3. /\ N \in Nat /\ D \in Nat /\ D <= N /\ Len(wire) \in Nat /\ Offset \in Nat
      /\ Len(rest) \in Nat /\ n \in Nat /\ n >= 1
  BY Counts, Sizes DEF ServerInv
<1>4. /\ sendPc \in {"header", "payload"} /\ n \in 0 .. Len(rest)
      /\ wire' = wire \o SubSeq(rest, 1, n)
      /\ rest' = SubSeq(rest, n + 1, Len(rest))
      /\ UNCHANGED <<connected, sendPc, packet, submitted, server>>
  BY <1>3 DEF SendSome
<1>5. wire \in Seq(Bytes) /\ rest \in Seq(Bytes)
  BY DEF TypeOK
<1>6. /\ SubSeq(rest, 1, n) \in Seq(Bytes) /\ Len(SubSeq(rest, 1, n)) = n
      /\ \A i \in 1 .. n : SubSeq(rest, 1, n)[i] = rest[i]
      /\ Len(rest') = Len(rest) - n
  BY <1>4, <1>5, Cut
<1>7. /\ Len(wire') = Len(wire) + n
      /\ \A i \in 1 .. Len(wire) + n :
             wire'[i] = IF i <= Len(wire) THEN wire[i] ELSE SubSeq(rest, 1, n)[i - Len(wire)]
  BY <1>4, <1>5, <1>6, ConcatProperties
<1>8. /\ N' = N /\ D' = D /\ Offset' = Offset
  BY <1>4 DEF N, D, Offset, server, reading
<1>9. /\ N >= 1 /\ connected /\ packet = submitted[N].packet
      /\ \A i \in 1 .. Len(rest) :
             rest[i] = ByteOf(submitted[N], (MsgLen(submitted[N]) - Unsent) + i)
      /\ sendPc = "header" => Len(rest) <= HeaderSize
      /\ sendPc = "payload" => Len(rest) <= packet.len
  BY <1>4 DEF ClientInv
<1>10. submitted[N] \in Messages /\ MsgLen(submitted[N]) \in Nat
  <2>1. N \in 1 .. N
    BY <1>3, <1>9
  <2> QED
    BY <2>1, Counts
<1>11. packet.len \in Nat /\ MsgLen(submitted[N]) = HeaderSize + packet.len
  BY <1>9, <1>10, MessageFacts, Sizes
<1>12. Unsent \in Nat /\ n <= Unsent /\ Unsent' = Unsent - n /\ Unsent <= MsgLen(submitted[N])
  <2>0. /\ sendPc' = sendPc /\ packet' = packet /\ n \in Nat /\ n <= Len(rest)
        /\ Len(rest') = Len(rest) - n /\ Len(rest) \in Nat /\ HeaderSize \in Nat
        /\ packet.len \in Nat /\ MsgLen(submitted[N]) = HeaderSize + packet.len
    BY <1>3, <1>4, <1>6, <1>11, Sizes, SMTT(60)
  <2>1. CASE sendPc = "header"
    <3>1. /\ Unsent = Len(rest) + packet.len /\ Unsent' = Len(rest') + packet.len
          /\ Len(rest) <= HeaderSize
      BY <1>9, <2>0, <2>1 DEF Unsent
    <3> QED
      BY <2>0, <3>1
  <2>2. CASE sendPc = "payload"
    <3>1. Unsent = Len(rest) /\ Unsent' = Len(rest') /\ Len(rest) <= packet.len
      BY <1>9, <2>0, <2>2 DEF Unsent
    <3> QED
      BY <2>0, <3>1
  <2> QED
    BY <1>4, <2>1, <2>2
<1>13. Starts(S)'
  BY <1>2, <1>4, <1>8 DEF Starts, MsgLen
<1>14. /\ S[N] \in Nat /\ S[N + 1] \in Nat /\ S[D + 1] \in Nat
       /\ S[N + 1] = S[N] + MsgLen(submitted[N])
       /\ R = S[D + 1] + Offset /\ R + Len(wire) + Unsent = S[N + 1] /\ R \in Nat
  <2>1. N \in 1 .. N /\ N \in 1 .. N + 1 /\ N + 1 \in 1 .. N + 1 /\ D + 1 \in 1 .. N + 1
    BY <1>3, <1>9
  <2> QED
    BY <1>2, <1>9, <2>1 DEF Starts, WireAt
<1>b. ASSUME NEW i \in Nat, NEW o \in Nat
      PROVE  /\ R + i <= S[N] => i <= Len(wire)
             /\ R + i = S[N] + o
                   => o = (MsgLen(submitted[N]) - Unsent) + (i - Len(wire))
  <2>1. /\ R \in Nat /\ Len(wire) \in Nat /\ Unsent \in Nat /\ S[N] \in Nat
        /\ MsgLen(submitted[N]) \in Nat /\ Unsent <= MsgLen(submitted[N])
        /\ R + Len(wire) + Unsent = S[N] + MsgLen(submitted[N])
    BY <1>3, <1>10, <1>12, <1>14
  <2>2. Places(R, Len(wire), Unsent, S[N], MsgLen(submitted[N]), i, o)
    BY ONLY <2>1, i \in Nat, o \in Nat, PlacesHold
  <2> QED
    BY <2>1, <2>2, Zenon DEF Places
<1>15. ASSUME NEW k \in 1 .. N, NEW o \in 1 .. MsgLen(submitted[k]),
              NEW i \in 1 .. Len(wire'), R + i = S[k] + o
       PROVE  wire'[i] = ByteOf(submitted[k], o)
  <2>1. CASE i <= Len(wire)
    <3>1. i \in 1 .. Len(wire) /\ wire'[i] = wire[i]
      BY <1>3, <1>7, <2>1
    <3> QED
      BY <1>2, <1>15, <3>1 DEF WireAt
  <2>2. CASE ~(i <= Len(wire))
    <3>1. /\ i - Len(wire) \in 1 .. n /\ i - Len(wire) \in 1 .. Len(rest)
          /\ wire'[i] = rest[i - Len(wire)]
      <4>1. i \in Nat /\ i <= Len(wire) + n /\ n <= Len(rest)
        BY <1>3, <1>4, <1>7
      <4>2. i - Len(wire) \in 1 .. n /\ i - Len(wire) \in 1 .. Len(rest)
        BY ONLY <1>3, <2>2, <4>1
      <4>3. i \in 1 .. Len(wire) + n
        BY <1>7
      <4>4. wire'[i] = SubSeq(rest, 1, n)[i - Len(wire)]
        BY <1>7, <2>2, <4>3
      <4> QED
        BY <1>6, <4>2, <4>4
    <3>2. k = N
      <4>1. SUFFICES ASSUME k # N PROVE FALSE
        OBVIOUS
      <4>2. k \in 1 .. N + 1 /\ k + 1 \in 1 .. N + 1 /\ N \in 1 .. N + 1 /\ k + 1 <= N
        BY <1>3, <4>1
      <4>3. S[k + 1] <= S[N] /\ S[k + 1] = S[k] + MsgLen(submitted[k])
        BY <1>2, <4>2 DEF Starts
      <4>4. S[k] \in Nat /\ S[N] \in Nat /\ i \in Nat
        BY <1>3, <1>7, <4>2
      <4>5. MsgLen(submitted[k]) \in Nat
        BY Counts
      <4>6. R + i <= S[N]
        BY <1>15, <4>3, <4>4, <4>5
      <4> QED
        BY ONLY <1>b, <2>2, <4>4, <4>6
    <3>3. o = (MsgLen(submitted[N]) - Unsent) + (i - Len(wire))
      <4>1. R + i = S[N] + o /\ o \in Nat /\ i \in Nat
        BY <1>3, <1>7, <1>10, <1>15, <3>2
      <4> QED
        BY ONLY <1>b, <4>1
    <3> QED
      BY <1>9, <3>1, <3>2, <3>3
  <2> QED
    BY <2>1, <2>2
<1>16. WireAt(S, R)'
  <2>0. Len(wire') = Len(wire) + n /\ Unsent' = Unsent - n /\ n <= Unsent
    BY <1>7, <1>12
  <2>1. /\ R + Len(wire') + Unsent' = S[N + 1] /\ R + Len(wire') <= S[N + 1]
    <3>1. /\ R \in Nat /\ Len(wire) \in Nat /\ n \in Nat /\ Unsent \in Nat
          /\ S[N + 1] \in Nat /\ R + Len(wire) + Unsent = S[N + 1]
      BY <1>3, <1>12, <1>14
    <3> QED
      BY ONLY <2>0, <3>1, SentOn
  <2> QED
    BY <1>4, <1>8, <1>14, <1>15, <2>1, ZenonT(90) DEF WireAt, MsgLen, ByteOf
<1> QED
  BY <1>8, <1>13, <1>16

LEMMA DeliveredGrows ==
    ASSUME TypeOK, delivered' = Append(delivered, [bytes |-> Received,
                                                   sequence |-> last_sequence])
    PROVE  D' = D + 1
<1>1. Received \in Seq(Bytes)
  <2>1. recv_buffer \in Seq(Bytes) /\ payload_len \in 0 .. Len(recv_buffer)
    BY DEF TypeOK
  <2> QED
    BY <2>1, Cut DEF Received
<1>2. /\ [bytes |-> Received, sequence |-> last_sequence] \in Deliveries
      /\ delivered \in Seq(Deliveries)
  BY <1>1 DEF Deliveries, TypeOK
<1> QED
  BY <1>2, AppendProperties DEF D

LEMMA WireStep == ASSUME IInv, [Next]_vars PROVE WireInv'
<1>0. /\ TypeOK /\ WireInv /\ ClientInv /\ ServerInv /\ ClientType /\ ServerType
      /\ InStep
  BY TypeParts DEF IInv
<1>1. ASSUME NEW len \in PayloadSizes, SendBegin(len) PROVE WireInv'
  <2> DEFINE m == [packet |-> [number |-> encoded + 1, len |-> len],
                   sequence |-> sequence]
  <2>1. /\ m \in Messages /\ packet' = m.packet /\ rest' = HeaderBytes(len, sequence)
        /\ submitted' = Append(submitted, m) /\ sendPc' = "header" /\ connected
        /\ sendPc = "idle" /\ wire' = wire /\ UNCHANGED server
    BY <1>0, <1>1, SendBeginFacts
  <2>2. m.packet.len = len /\ m.sequence = sequence
    OBVIOUS
  <2> HIDE DEF m
  <2>3. Len(rest') = HeaderSize /\ MsgLen(m) = HeaderSize + m.packet.len
    BY <2>1, <2>2, HeaderIs, MessageFacts
  <2>4. Unsent' = MsgLen(m)
    BY <2>1, <2>3 DEF Unsent
  <2> QED
    BY <1>0, <2>1, <2>4, WireGrows
<1>2. ASSUME NEW n \in 1 .. Window, SendSome(n) PROVE WireInv'
  BY <1>0, <1>2, WireFills
<1>3. ASSUME NEW len \in PayloadSizes, SendRefused(len) PROVE WireInv'
  <2>1. UNCHANGED <<wire, submitted, connected, sendPc, rest, packet, server>>
    BY <1>3 DEF SendRefused
  <2> QED
    BY <1>0, <2>1, WireFrame DEF Reading, Offset, Unsent, D, server, reading
<1>4. CASE HeaderSent
  <2>1. /\ UNCHANGED <<wire, submitted, connected, packet, server>>
        /\ sendPc = "header" /\ sendPc' = "payload" /\ Len(rest) = 0
        /\ rest' = PayloadBytes(packet)
    BY <1>4, EmptySeq DEF HeaderSent
  <2>2. N >= 1 /\ packet = submitted[N].packet /\ submitted[N] \in Messages
    BY <1>0, <2>1, LastMessage DEF ClientInv
  <2>3. Len(rest') = packet.len /\ packet.len \in Nat
    BY <2>1, <2>2, PayloadIs, MessageFacts, Sizes
  <2>4. Unsent' = Unsent
    BY <2>1, <2>3 DEF Unsent
  <2> QED
    BY <1>0, <2>1, <2>4, WireFrame DEF Reading, Offset, D, server, reading
<1>5. CASE PacketSent
  <2>1. /\ UNCHANGED <<wire, submitted, connected, packet, server>>
        /\ sendPc = "payload" /\ sendPc' = "idle" /\ Len(rest) = 0
    BY <1>5, EmptySeq DEF PacketSent
  <2>2. Unsent' = Unsent
    BY <2>1 DEF Unsent
  <2> QED
    BY <1>0, <2>1, <2>2, WireFrame DEF Reading, Offset, D, server, reading
<1>6. CASE SendFails \/ ClientGone
  <2>1. /\ UNCHANGED <<wire, submitted, server>> /\ connected' = FALSE
    BY <1>6 DEF SendFails, ClientGone, GiveUpConnection
  <2> QED
    BY <1>0, <2>1, WireFrame DEF Reading, Offset, D, server, reading
<1>7. CASE Reset \/ ServerGone \/ UNCHANGED vars
  <2>1. UNCHANGED <<wire, client, server>>
    BY <1>7 DEF Reset, ServerGone, vars
  <2> QED
    BY <1>0, <2>1, WireFrame DEF Reading, Offset, Unsent, D, client, server, reading
<1>8. ASSUME NEW n \in 1 .. Window, RecvHeader(n) PROVE WireInv'
  <2>1. /\ recvPc = "header" /\ n <= Len(wire) /\ n <= HeaderSize - Len(header)
        /\ header' = header \o SubSeq(wire, 1, n)
        /\ wire' = SubSeq(wire, n + 1, Len(wire))
        /\ UNCHANGED <<client, submitted, recvPc, filled, delivered>>
    BY <1>8 DEF RecvHeader, HeaderLeft, client
  <2>2. Len(header') = Len(header) + n
    <3>1. n \in 0 .. Len(wire) /\ wire \in Seq(Bytes) /\ header \in Seq(Bytes)
      BY <1>0, <2>1, Counts, Sizes DEF TypeOK
    <3>2. SubSeq(wire, 1, n) \in Seq(Bytes) /\ Len(SubSeq(wire, 1, n)) = n
      BY <3>1, Cut
    <3> QED
      BY <2>1, <3>1, <3>2, ConcatProperties
  <2>3. Reading /\ Offset' = Offset + n
    BY <2>1, <2>2 DEF Reading, Offset
  <2> QED
    BY <1>0, <2>1, <2>3, WireAdvance
<1>9. ASSUME NEW n \in 1 .. Window, RecvPayload(n) PROVE WireInv'
  <2>1. /\ recvPc = "payload" /\ n <= Len(wire) /\ filled' = filled + n
        /\ wire' = SubSeq(wire, n + 1, Len(wire))
        /\ UNCHANGED <<client, submitted, recvPc, delivered>>
    BY <1>9 DEF RecvPayload, client
  <2>2. Reading /\ Offset' = Offset + n
    BY <1>0, <2>1, Counts, Sizes, SMTT(30) DEF Reading, Offset
  <2> QED
    BY <1>0, <2>1, <2>2, WireAdvance
<1>10. CASE ParseHeader
  <2>1. /\ recvPc = "header" /\ Len(header) = HeaderSize
        /\ UNCHANGED <<wire, client, submitted, header, filled, delivered>>
    BY <1>10 DEF ParseHeader, client
  <2>2. recvPc' = "payload"
    BY <1>0, <1>10, <2>1, CompleteHeader DEF ParseHeader, HeaderAccepted
  <2>3. filled = 0
    BY <1>0, <2>1 DEF ServerInv
  <2>4. Offset' = Offset /\ D' = D /\ Reading
    BY <2>1, <2>2, <2>3, Sizes DEF Offset, D, Reading
  <2> QED
    BY <1>0, <2>1, <2>4, WireFrame DEF Unsent, client
<1>11. CASE PacketReceived
  <2>1. /\ recvPc = "payload" /\ recvPc' = "header" /\ filled = payload_len /\ Len(header') = 0
        /\ delivered' = Append(delivered, [bytes |-> Received, sequence |-> last_sequence])
        /\ UNCHANGED <<wire, client, submitted>>
    BY <1>11, EmptySeq DEF PacketReceived, client
  <2>2. D < N /\ payload_len = submitted[D + 1].packet.len
    BY <1>0, <2>1 DEF ServerInv
  <2>3. N \in Nat /\ D \in Nat /\ N' = N /\ payload_len \in Nat /\ Offset \in Nat
    BY <1>0, <2>1, Counts DEF N
  <2>4. D' = D + 1
    BY <1>0, <2>1, DeliveredGrows
  <2>5. Reading
    BY <2>1 DEF Reading
  <2>6. PICK S \in [1 .. N + 1 -> Nat], R \in Nat : Starts(S) /\ WireAt(S, R)
    BY <1>0, <2>5 DEF WireInv
  <2>7. R = S[D' + 1] + Offset'
    <3>1. D + 1 \in 1 .. N /\ D + 1 \in 1 .. N + 1 /\ D + 1 + 1 \in 1 .. N + 1
      BY <2>2, <2>3
    <3>2. S[D + 1 + 1] = S[D + 1] + MsgLen(submitted[D + 1]) /\ S[D + 1] \in Nat
      BY <2>6, <3>1 DEF Starts
    <3>3. Offset = MsgLen(submitted[D + 1]) /\ Offset' = 0
      BY <2>1, <2>2 DEF Offset, MsgLen
    <3>4. R = S[D + 1] + Offset
      BY <2>6 DEF WireAt
    <3> QED
      BY <2>3, <2>4, <3>2, <3>3, <3>4
  <2>8. Starts(S)'
    BY <2>1, <2>3, <2>6 DEF Starts, MsgLen
  <2>9. connected' = connected /\ Unsent' = Unsent
    BY <2>1 DEF client, Unsent
  <2>10. WireAt(S, R)'
    <3>1. /\ R + Len(wire) <= S[N + 1]
          /\ connected => R + Len(wire) + Unsent = S[N + 1]
          /\ \A k \in 1 .. N : \A o \in 1 .. MsgLen(submitted[k]) : \A i \in 1 .. Len(wire) :
                 R + i = S[k] + o => wire[i] = ByteOf(submitted[k], o)
      BY <2>6 DEF WireAt
    <3>2. wire' = wire /\ submitted' = submitted
      BY <2>1
    <3> QED
      BY <2>3, <2>7, <2>9, <3>1, <3>2, ZenonT(90) DEF WireAt, MsgLen, ByteOf
  <2> QED
    BY <2>3, <2>8, <2>10 DEF WireInv
<1>12. CASE RecvEnds \/ RecvFails \/ ReallocFails
  BY <1>12 DEF RecvEnds, RecvFails, ReallocFails, WireInv, Reading
<1> QED
  BY <1>1, <1>2, <1>3, <1>4, <1>5, <1>6, <1>7, <1>8, <1>9, <1>10, <1>11, <1>12
     DEF Next, SendStep, RecvStep

-----------------------------------------------------------------------------
(* The theorems.                                                           *)

\* The strengthened invariant holds in every reachable state: TCP_Client_SendH264 and
\* TCP_Server_RecvH264 are always at two places of one stream of messages.
THEOREM Inductive == Spec => []IInv
<1>1. Init => IInv
  <2>1. SUFFICES ASSUME Init PROVE IInv
    OBVIOUS
  <2>2. /\ N = 0 /\ D = 0 /\ Len(wire) = 0 /\ Len(header) = 0 /\ Len(rest) = 0
        /\ Len(recv_buffer) = 0 /\ wire \in Seq(Bytes) /\ rest \in Seq(Bytes)
        /\ header \in Seq(Bytes) /\ recv_buffer \in Seq(Bytes) /\ submitted \in Seq(Messages)
        /\ delivered \in Seq([bytes : Seq(Bytes), sequence : Sequences])
    BY <2>1, EmptySeq DEF Init, N, D
  <2>3. 0 \in Sequences
    BY Sizes DEF Sequences
  <2>4. TypeOK
    <3>1. ClientType
      BY <2>1, <2>2, <2>3, Sizes DEF Init, ClientType
    <3>2. recv_buffer \in Seq(Bytes) /\ header \in Seq(Bytes) /\ delivered \in Seq(Deliveries)
      BY <2>2 DEF Deliveries
    <3>3. /\ sequence_initialized = FALSE /\ last_sequence = 0 /\ warned = FALSE
          /\ recvPc = "header" /\ filled = 0 /\ payload_len = 0
      BY <2>1 DEF Init
    <3>4. ServerType
      <4>1. delivered \in Seq([bytes : Seq(Bytes), sequence : Sequences])
        BY <2>2
      <4>2. filled \in 0 .. payload_len /\ payload_len \in 0 .. Len(recv_buffer)
        BY <2>2, <3>3
      <4>3. Len(header) <= HeaderSize /\ Len(recv_buffer) <= MaxPayloadSize
        BY <2>2, Sizes
      <4>4. /\ sequence_initialized \in BOOLEAN /\ last_sequence \in Sequences
            /\ recvPc \in {"header", "payload", "disconnected", "failed", "rejected"}
            /\ warned \in BOOLEAN
        BY <2>3, <3>3
      <4> QED
        BY <3>2, <4>1, <4>2, <4>3, <4>4, Zenon DEF ServerType
    <3>5. WireType
      BY <2>2, Sizes DEF WireType
    <3> QED
      BY <3>1, <3>4, <3>5, TypeParts
  <2>5. WireInv
    <3>1. /\ sendPc = "idle" /\ recvPc = "header" /\ Unsent = 0 /\ Offset = 0
      BY <2>1, <2>2 DEF Init, Unsent, Offset
    <3> DEFINE Z == [k \in 1 .. 1 |-> 0]
    <3>2. Z \in [1 .. N + 1 -> Nat] /\ Z[1] = 0
      BY <2>2
    <3>3. Starts(Z)
      BY <2>2, <3>2 DEF Starts
    <3>4. WireAt(Z, 0)
      BY <2>2, <3>1, <3>2 DEF WireAt
    <3> HIDE DEF Z
    <3> QED
      BY <3>2, <3>3, <3>4 DEF WireInv
  <2>6. ClientInv
    BY <2>1, <2>2 DEF Init, ClientInv
  <2>7. ServerInv
    BY <2>1, <2>2 DEF Init, ServerInv
  <2>8. InStep
    BY <2>1 DEF Init, InStep
  <2>9. DeliveredIntact
    <3>1. DOMAIN delivered = {}
      BY <2>1 DEF Init
    <3> QED
      BY <2>2, <3>1 DEF DeliveredIntact, N, D
  <2> QED
    BY <2>4, <2>5, <2>6, <2>7, <2>8, <2>9 DEF IInv
<1>2. ASSUME IInv, [Next]_vars PROVE IInv'
  <2>1. ClientType' /\ ClientInv'
    BY <1>2, ClientStep DEF IInv
  <2>2. ServerType' /\ WireType' /\ ServerInv' /\ InStep' /\ DeliveredIntact'
    BY <1>2, ServerStep
  <2>3. WireInv'
    BY <1>2, WireStep
  <2>4. TypeOK'
    BY <2>1, <2>2, TypeParts, PTL
  <2> QED
    BY <2>1, <2>2, <2>3, <2>4 DEF IInv
<1> QED
  BY <1>1, <1>2, PTL DEF Spec

\* Every variable keeps its type: sequence numbers stay in 32 bits, no more bytes
\* are in flight than the kernels hold, and neither loop runs past its length.
THEOREM TypeCorrect == Spec => []TypeOK
BY Inductive, PTL DEF IInv

\* RecvH264 never rejects a header and never warns about a sequence number,
\* however the bytes are cut up and wherever a send fails.
THEOREM StaysInStep == Spec => []InStep
BY Inductive, PTL DEF IInv

\* RecvH264 returns the submitted packets, in order and byte by byte.
THEOREM DeliversIntact == Spec => []DeliveredIntact
BY Inductive, PTL DEF IInv

-----------------------------------------------------------------------------
(* Packets begun and not yet delivered are the content of a StopChannel.   *)

Content == [i \in 1 .. N - D |-> submitted[D + i].packet]

ContentFacts ==
    /\ N \in Nat /\ D \in Nat /\ D <= N
    /\ Content \in Seq(Packets) /\ Len(Content) = N - D
    /\ \A i \in 1 .. N - D : Content[i] = submitted[D + i].packet

LEMMA ContentIsSeq == IInv => ContentFacts
<1> SUFFICES ASSUME IInv PROVE ContentFacts
  OBVIOUS
<1>1. /\ N \in Nat /\ D \in Nat /\ D <= N
      /\ \A k \in 1 .. N : submitted[k] \in Messages
  BY Counts DEF IInv, ServerInv
<1>2. ASSUME NEW i \in 1 .. N - D PROVE submitted[D + i].packet \in Packets
  <2>1. D + i \in 1 .. N
    BY <1>1
  <2> QED
    BY <1>1, <2>1, MessageFacts
<1>3. N - D \in Nat /\ Content \in [1 .. N - D -> Packets]
  BY <1>1, <1>2 DEF Content
<1>4. Content \in Seq(Packets) /\ Len(Content) = N - D
  BY <1>3, FunSeq
<1> QED
  BY <1>1, <1>4 DEF Content, ContentFacts

LEMMA ContentIsSeqNext == IInv' => ContentFacts'
BY ContentIsSeq, PTL

LEMMA BeginSends ==
    ASSUME IInv, IInv', NEW len \in PayloadSizes, SendBegin(len)
    PROVE  Chan!Next
<1> DEFINE m == [packet |-> [number |-> encoded + 1, len |-> len], sequence |-> sequence]
<1>0. ClientType
  BY TypeParts DEF IInv
<1>1. /\ m \in Messages /\ N' = N + 1 /\ submitted'[N + 1] = m
      /\ \A k \in 1 .. N : submitted'[k] = submitted[k]
      /\ connected /\ connected' = connected /\ UNCHANGED server
  BY <1>0, SendBeginFacts
<1> HIDE DEF m
<1>2. D' = D
  BY <1>1 DEF server, D
<1>3. m.packet \in Packets
  BY <1>1, MessageFacts
<1>4. ContentFacts /\ ContentFacts'
  BY ContentIsSeq, ContentIsSeqNext
<1>5. /\ N \in Nat /\ D \in Nat /\ D <= N
      /\ Content \in Seq(Packets) /\ Len(Content) = N - D
      /\ \A i \in 1 .. N - D : Content[i] = submitted[D + i].packet
  BY <1>4 DEF ContentFacts
<1>6. /\ Content' \in Seq(Packets) /\ Len(Content') = N - D + 1
      /\ \A i \in 1 .. N - D + 1 : Content'[i] = submitted'[D + i].packet
  BY <1>1, <1>2, <1>4, <1>5 DEF ContentFacts
<1>7. N < MaxPackets
  BY <1>0, <1>5, Sizes DEF SendBegin, ClientType
<1>8. /\ Append(Content, m.packet) \in Seq(Packets)
      /\ Len(Append(Content, m.packet)) = N - D + 1
      /\ \A i \in 1 .. N - D : Append(Content, m.packet)[i] = Content[i]
      /\ Append(Content, m.packet)[N - D + 1] = m.packet
  BY <1>3, <1>5, AppendProperties
<1>9. ASSUME NEW i \in 1 .. N - D + 1
      PROVE  Content'[i] = Append(Content, m.packet)[i]
  <2>1. CASE i = N - D + 1
    <3>1. D + i = N + 1
      BY <1>5, <2>1
    <3> QED
      BY <1>1, <1>6, <1>8, <2>1, <3>1
  <2>2. CASE i # N - D + 1
    <3>1. i \in 1 .. N - D /\ D + i \in 1 .. N
      BY <1>5, <2>2
    <3> QED
      BY <1>1, <1>5, <1>6, <1>8, <3>1
  <2> QED
    BY <2>1, <2>2
<1>10. Content' = Append(Content, m.packet)
  BY <1>6, <1>8, <1>9, SeqEqual
<1>11. Len(Content) < MaxPackets
  BY <1>5, <1>7, Sizes
<1> QED
  BY <1>1, <1>3, <1>10, <1>11 DEF Chan!Next, Chan!Send, Content, N, D

LEMMA DeliveryReceives ==
    ASSUME IInv, IInv', PacketReceived
    PROVE  Chan!Next
<1>1. /\ delivered' = Append(delivered, [bytes |-> Received, sequence |-> last_sequence])
      /\ recvPc = "payload" /\ UNCHANGED <<submitted, connected>>
  BY DEF PacketReceived, client
<1>2. D < N
  BY <1>1 DEF IInv, ServerInv
<1>3. D' = D + 1 /\ N' = N
  BY <1>1, DeliveredGrows DEF IInv, N
<1>4. ContentFacts /\ ContentFacts'
  BY ContentIsSeq, ContentIsSeqNext
<1>5. /\ N \in Nat /\ D \in Nat
      /\ Content \in Seq(Packets) /\ Len(Content) = N - D
      /\ \A i \in 1 .. N - D : Content[i] = submitted[D + i].packet
  BY <1>4 DEF ContentFacts
<1>6. /\ Content' \in Seq(Packets) /\ Len(Content') = N - D - 1
      /\ \A i \in 1 .. N - D - 1 : Content'[i] = submitted[D + 1 + i].packet
  <2>1. N' - D' = N - D - 1
    BY <1>3, <1>5
  <2> QED
    BY <1>1, <1>3, <1>4, <2>1 DEF ContentFacts
<1>7. Content # << >>
  BY <1>2, <1>5, EmptySeq
<1>8. Tail(Content) \in Seq(Packets) /\ Len(Tail(Content)) = N - D - 1
      /\ \A i \in 1 .. N - D - 1 : Tail(Content)[i] = Content[i + 1]
  BY <1>5, <1>7, HeadTailProperties
<1>9. ASSUME NEW i \in 1 .. N - D - 1 PROVE Content'[i] = Tail(Content)[i]
  <2>1. i + 1 \in 1 .. N - D /\ D + (i + 1) = D + 1 + i
    BY <1>5
  <2> QED
    BY <1>5, <1>6, <1>8, <2>1
<1>10. Content' = Tail(Content)
  BY <1>6, <1>8, <1>9, SeqEqual
<1> QED
  BY <1>1, <1>7, <1>10 DEF Chan!Next, Chan!Receive, Content, N, D

\* The connection implements the abstract closable FIFO channel of packets.
THEOREM ImplementsChannel == Spec => RefinesChannel
<1>1. Init => Chan!Init
  <2>1. SUFFICES ASSUME Init PROVE Chan!Init
    OBVIOUS
  <2>2. N = 0 /\ D = 0 /\ connected
    BY <2>1 DEF Init, N, D
  <2>3. Content = << >>
    BY <2>2 DEF Content
  <2> QED
    BY <2>2, <2>3 DEF Chan!Init, Content, N, D
<1>2. IInv /\ IInv' /\ [Next]_vars => [Chan!Next]_(Chan!vars)
  <2> SUFFICES ASSUME IInv, IInv', [Next]_vars PROVE [Chan!Next]_(Chan!vars)
    OBVIOUS
  <2>1. ASSUME UNCHANGED <<submitted, delivered, connected>> PROVE UNCHANGED Chan!vars
    BY <2>1 DEF Chan!vars
  <2>2. ASSUME NEW len \in PayloadSizes, SendBegin(len) PROVE Chan!Next
    BY <2>2, BeginSends
  <2>3. CASE PacketReceived
    BY <2>3, DeliveryReceives
  <2>4. CASE SendFails \/ ClientGone
    BY <2>4 DEF SendFails, ClientGone, GiveUpConnection, server, Chan!Next, Chan!Close
  <2>5. CASE UNCHANGED vars
    BY <2>1, <2>5 DEF vars, client, server
  <2>6. ASSUME \/ \E len \in PayloadSizes : SendRefused(len)
               \/ \E n \in 1 .. Window : SendSome(n) \/ RecvHeader(n) \/ RecvPayload(n)
               \/ HeaderSent \/ PacketSent \/ ParseHeader \/ RecvEnds \/ RecvFails
               \/ ServerGone \/ ReallocFails \/ Reset
        PROVE  UNCHANGED Chan!vars
    BY <2>1, <2>6
       DEF SendRefused, SendSome, RecvHeader, RecvPayload, HeaderSent, PacketSent,
           ParseHeader, RecvEnds, RecvFails, ServerGone, ReallocFails, Reset, client, server
  <2> QED
    BY <2>2, <2>3, <2>4, <2>5, <2>6 DEF Next, SendStep, RecvStep
<1> QED
  BY <1>1, <1>2, Inductive, PTL DEF Spec, RefinesChannel, Chan!Spec
=============================================================================
