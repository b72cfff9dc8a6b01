-------------------------- MODULE MppEncoder_proofs --------------------------
(***************************************************************************)
(* Proofs about MppEncoder for any number of frames, any packet lengths    *)
(* and any size of header: every invariant of its run.                     *)
(*                                                                         *)
(* The inductive invariant adds what each label of the call means for the  *)
(* encoder's queue, the handles, the output buffer, and what was sent.     *)
(***************************************************************************)
EXTENDS MppEncoder, TLAPS

\* The number of the packet the encoder gave out last.
Taken == made - Len(ready)

Outputs == [header : BOOLEAN, number : Numbers, picture : Numbers]
Sent    == [packet : Outputs, frame : Numbers]
SeqInv  == submitted \in Seq(Sent)

\* Every task was put for a frame; this call's only from "get" on.
CountInv == /\ tasks + made <= current
            /\ pc \in {"fill", "init", "put"} => tasks + made < current
            /\ Len(ready) <= made
            /\ \A i \in 1 .. Len(ready) : ready[i].number = Taken + i

HandleInv == handles = IF pc \in {"put", "get"} THEN {"frame"}
                       ELSE IF pc \in {"got", "copy"} THEN {"packet"} ELSE {}

RoomInv == /\ len <= packet_capacity
           /\ pc = "copy" => packet.len > 0 /\ Need <= packet_capacity
           /\ pc = "send" => len > 0

\* As long as the connection lives, whatever was put behind the header was sent.
HeaderInv ==
    /\ ~header_sent => submitted = <<>> /\ pc # "send"
    /\ connected /\ header_sent /\ pc # "send" => submitted # <<>>
    /\ connected /\ pc = "send" => (packet_ptr.header <=> submitted = <<>>)
    /\ HeaderFirst

OrderInv ==
    /\ pc \in {"got", "copy"} => packet.number = Taken
    /\ pc = "send" => packet_ptr.number = Taken
    /\ \A i \in 1 .. Len(submitted) :
          /\ submitted[i].packet.number <= Taken
          /\ pc \in {"got", "copy", "send"} => submitted[i].packet.number < Taken
    /\ NothingSentTwice

\* Without a failing get there is one task at a time, this call's.
PictureInv ==
    ~missed =>
        /\ tasks + Len(ready) = IF pc = "get" THEN 1 ELSE 0
        /\ pc \notin {"idle", "fill"} => buffer = current
        /\ \A i \in 1 .. Len(ready) : ready[i].picture = current
        /\ pc \in {"got", "copy"} => packet.picture = current
        /\ pc = "send" => packet_ptr.picture = current
        /\ \A i \in 1 .. Len(submitted) : submitted[i].packet.picture = submitted[i].frame

\* Whatever failed, pictures grow from what was sent, over the packet in hand and those the
\* encoder made, to the one in its buffer.
ForwardInv ==
    /\ buffer <= current
    /\ \A i \in 1 .. Len(ready) :
          /\ ready[i].picture <= buffer
          /\ \A j \in 1 .. i : ready[j].picture <= ready[i].picture
    /\ pc \in {"got", "copy"} =>
          /\ packet.picture <= buffer
          /\ \A i \in 1 .. Len(ready) : packet.picture <= ready[i].picture
    /\ pc = "send" =>
          /\ packet_ptr.picture <= buffer
          /\ \A i \in 1 .. Len(ready) : packet_ptr.picture <= ready[i].picture
    /\ \A k \in 1 .. Len(submitted) :
          /\ submitted[k].packet.picture <= buffer
          /\ \A i \in 1 .. Len(ready) : submitted[k].packet.picture <= ready[i].picture
          /\ pc \in {"got", "copy"} => submitted[k].packet.picture <= packet.picture
          /\ pc = "send" => submitted[k].packet.picture <= packet_ptr.picture
          /\ \A j \in 1 .. k : submitted[j].packet.picture <= submitted[k].packet.picture

IInv == /\ TypeOK /\ SeqInv /\ CountInv /\ HandleInv /\ RoomInv
        /\ HeaderInv /\ OrderInv /\ PictureInv /\ ForwardInv

-----------------------------------------------------------------------------
(* Sequences.                                                              *)

LEMMA AppendFacts ==
    ASSUME NEW S, NEW s \in Seq(S), NEW e \in S
    PROVE  /\ Append(s, e) \in Seq(S) /\ Len(Append(s, e)) = Len(s) + 1
           /\ Len(s) \in Nat /\ Append(s, e) # <<>>
           /\ \A i \in 1 .. Len(s) : Append(s, e)[i] = s[i] /\ s[i] \in S
           /\ Append(s, e)[Len(s) + 1] = e
OBVIOUS

LEMMA TailFacts ==
    ASSUME NEW S, NEW s \in Seq(S), s # <<>>
    PROVE  /\ Tail(s) \in Seq(S) /\ Len(Tail(s)) = Len(s) - 1 /\ Len(s) \in Nat \ {0}
           /\ Head(s) = s[1] /\ Head(s) \in S
           /\ \A i \in 1 .. Len(s) - 1 : Tail(s)[i] = s[i + 1]
OBVIOUS

-----------------------------------------------------------------------------
(* The initial state.                                                      *)

LEMMA Bounds ==
    HeaderLen \in Nat \ {0} /\ MaxLen \in Nat \ {0} /\ Slack \in Nat /\ MaxFrames \in Nat
BY EncoderAssumption

LEMMA NoPacketType == NoPacket \in Packets
BY Bounds DEF NoPacket, Packets, Numbers, Lengths

LEMMA PacketLength ==
    \A p \in Packets : /\ p.len \in Nat /\ p.len <= MaxLen
                       /\ p.number \in Numbers /\ p.picture \in Numbers
BY Bounds DEF Packets, Lengths

LEMMA SentNumber == \A e \in Sent : e.packet.number \in Nat
BY Bounds DEF Sent, Outputs, Numbers

LEMMA SentPicture == \A e \in Sent : e.packet.picture \in Nat
BY Bounds DEF Sent, Outputs, Numbers

LEMMA InvInit == ASSUME Init PROVE IInv
<1> USE Bounds DEF Init, NoPacket, NoOutput, Numbers, Lengths, Packets, Outputs, Sent
<1>1. TypeOK
  <2>1. /\ 0 \in Numbers /\ 0 \in Lengths /\ 0 \in 0 .. HeaderLen + MaxLen
        /\ 0 \in 0 .. HeaderLen + MaxLen + Slack
    OBVIOUS
  <2>2. NoPacket \in Packets
    BY <2>1
  <2>3. NoOutput \in Outputs
    BY <2>1 DEF NoOutput
  <2>4. ready \in Seq(Packets) /\ handles \subseteq {"frame", "packet"} /\ pc = "idle"
    OBVIOUS
  <2>5. header_sent \in BOOLEAN /\ connected \in BOOLEAN /\ missed \in BOOLEAN
    OBVIOUS
  <2> QED
    BY <2>1, <2>2, <2>3, <2>4, <2>5 DEF TypeOK
<1>2. SeqInv /\ CountInv /\ HandleInv /\ RoomInv
  BY DEF SeqInv, CountInv, HandleInv, RoomInv, Taken
<1>3. HeaderInv /\ OrderInv /\ PictureInv /\ ForwardInv
  BY DEF HeaderInv, OrderInv, PictureInv, ForwardInv, HeaderFirst, NothingSentTwice, Taken
<1> QED
  BY <1>1, <1>2, <1>3 DEF IInv
-----------------------------------------------------------------------------
LEMMA TypeStep ==
    ASSUME IInv, [Next]_vars
    PROVE  TypeOK' /\ SeqInv'
<1> USE Bounds
    DEF IInv, encoder, output, tcp, TypeOK, SeqInv, CountInv, Numbers, Lengths
<1>1. CASE UNCHANGED vars
  BY <1>1 DEF vars
<1>2. CASE EncodeBegin
  BY <1>2 DEF EncodeBegin
<1>3. CASE Fill
  BY <1>3 DEF Fill, CopyRows
<1>4. CASE FrameInit
  BY <1>4 DEF FrameInit
<1>5. CASE Put
  BY <1>5 DEF Put, PutTask
<1>6. CASE Get
  BY <1>6 DEF Get
<1>7. CASE InvalidPacket
  BY <1>7, NoPacketType DEF InvalidPacket, PacketDeinit, ReturnFailure
<1>8. CASE EnsureCapacity
  <2>1. Need \in 0 .. HeaderLen + MaxLen
    BY PacketLength, SMTT(60) DEF Need
  <2>2. packet_capacity' = packet_capacity \/ packet_capacity' = Need + Slack
    BY <1>8 DEF EnsureCapacity, Grown
  <2>3. packet_capacity' \in 0 .. HeaderLen + MaxLen + Slack
    <3> HIDE DEF SeqInv, CountInv
    <3> QED
      BY <2>1, <2>2
  <2> QED
    BY <1>8, <2>3 DEF EnsureCapacity
<1>9. CASE Copy
  <2>1. len' \in 0 .. HeaderLen + MaxLen
    BY <1>9, PacketLength, SMTT(60) DEF Copy
  <2>2. packet_ptr' \in Outputs
    BY <1>9, PacketLength DEF Copy, Outputs
  <2>3. packet' \in Packets /\ handles' \subseteq {"frame", "packet"}
    BY <1>9, NoPacketType DEF Copy, PacketDeinit
  <2> QED
    BY <1>9, <2>1, <2>2, <2>3 DEF Copy, Outputs
<1>10. CASE SendH264
  <2>1. [packet |-> packet_ptr, frame |-> current] \in Sent
    BY DEF Sent, Outputs
  <2> QED
    BY <1>10, <2>1, AppendFacts DEF SendH264
<1>11. CASE NotSent
  BY <1>11 DEF NotSent, GiveUpConnection, Sendable
<1>12. CASE SourceTooSmall
  BY <1>12 DEF SourceTooSmall, ReturnFailure
<1>13. CASE FrameInitFails
  BY <1>13 DEF FrameInitFails, ReturnFailure
<1>14. CASE PutFails
  BY <1>14 DEF PutFails, ReturnFailure, FrameDeinit
<1>15. CASE GetFails
  BY <1>15 DEF GetFails, ReturnFailure, FrameDeinit
<1>16. CASE CapacityFails
  BY <1>16, NoPacketType DEF CapacityFails, PacketDeinit, ReturnFailure
<1>17. ASSUME NEW n \in Lengths, EncoderRuns(n) PROVE TypeOK' /\ SeqInv'
  <2>1. made' \in Numbers /\ tasks' \in Numbers
    BY <1>17 DEF EncoderRuns
  <2>2. [number |-> made', picture |-> buffer, len |-> n] \in Packets
    BY <1>17, <2>1 DEF Packets
  <2> QED
    BY <1>17, <2>1, <2>2, AppendFacts DEF EncoderRuns
<1> QED
  BY <1>1, <1>2, <1>3, <1>4, <1>5, <1>6, <1>7, <1>8, <1>9,
     <1>10, <1>11, <1>12, <1>13, <1>14, <1>15, <1>16, <1>17
     DEF Next, EncodeStep, Faults, Finished

LEMMA CountStep ==
    ASSUME IInv, [Next]_vars
    PROVE  CountInv'
<1> USE Bounds
    DEF IInv, encoder, output, tcp, TypeOK, CountInv, Taken, Numbers
<1>1. CASE UNCHANGED vars
  BY <1>1 DEF vars
<1>2. CASE EncodeBegin
  BY <1>2 DEF EncodeBegin
<1>3. CASE Fill
  BY <1>3 DEF Fill, CopyRows
<1>4. CASE FrameInit
  BY <1>4 DEF FrameInit
<1>5. CASE Put
  BY <1>5 DEF Put, PutTask
<1>6. CASE Get
  BY <1>6, TailFacts DEF Get
<1>7. CASE InvalidPacket
  BY <1>7 DEF InvalidPacket, PacketDeinit, ReturnFailure, NoPacket
<1>8. CASE EnsureCapacity
  BY <1>8 DEF EnsureCapacity, Need, Grown
<1>9. CASE Copy
  BY <1>9 DEF Copy, PacketDeinit, NoPacket
<1>10. CASE SendH264
  BY <1>10 DEF SendH264, Sendable
<1>11. CASE NotSent
  BY <1>11 DEF NotSent, GiveUpConnection, Sendable
<1>12. CASE SourceTooSmall
  BY <1>12 DEF SourceTooSmall, ReturnFailure
<1>13. CASE FrameInitFails
  BY <1>13 DEF FrameInitFails, ReturnFailure
<1>14. CASE PutFails
  BY <1>14 DEF PutFails, ReturnFailure, FrameDeinit
<1>15. CASE GetFails
  BY <1>15 DEF GetFails, ReturnFailure, FrameDeinit
<1>16. CASE CapacityFails
  BY <1>16 DEF CapacityFails, PacketDeinit, ReturnFailure, NoPacket, Need
<1>17. ASSUME NEW n \in Lengths, EncoderRuns(n) PROVE CountInv'
  <2>1. [number |-> made', picture |-> buffer, len |-> n] \in Packets
    BY <1>17 DEF EncoderRuns, Packets
  <2>2. /\ Len(ready') = Len(ready) + 1 /\ Len(ready) \in Nat
        /\ \A i \in 1 .. Len(ready) : ready'[i] = ready[i]
        /\ ready'[Len(ready')].number = made'
    BY <1>17, <2>1, AppendFacts DEF EncoderRuns
  <2>3. Taken' = Taken
    BY <1>17, <2>2 DEF EncoderRuns
  <2>4. \A i \in 1 .. Len(ready') : ready'[i].number = Taken' + i
    <3> TAKE i \in 1 .. Len(ready')
    <3>1. CASE i \in 1 .. Len(ready)
      BY <3>1, <2>2, <2>3
    <3>2. CASE i = Len(ready')
      BY <1>17, <3>2, <2>2 DEF EncoderRuns
    <3> QED
      BY <3>1, <3>2, <2>2
  <2> QED
    BY <1>17, <2>2, <2>4 DEF EncoderRuns
<1> QED
  BY <1>1, <1>2, <1>3, <1>4, <1>5, <1>6, <1>7, <1>8, <1>9,
     <1>10, <1>11, <1>12, <1>13, <1>14, <1>15, <1>16, <1>17
     DEF Next, EncodeStep, Faults, Finished

LEMMA HandleStep ==
    ASSUME IInv, [Next]_vars
    PROVE  HandleInv'
<1> USE Bounds
    DEF IInv, encoder, output, tcp, TypeOK, HandleInv
<1>1. CASE UNCHANGED vars
  BY <1>1 DEF vars
<1>2. CASE EncodeBegin
  BY <1>2 DEF EncodeBegin
<1>3. CASE Fill
  BY <1>3 DEF Fill, CopyRows
<1>4. CASE FrameInit
  BY <1>4 DEF FrameInit
<1>5. CASE Put
  BY <1>5 DEF Put, PutTask
<1>6. CASE Get
  BY <1>6 DEF Get
<1>7. CASE InvalidPacket
  BY <1>7 DEF InvalidPacket, PacketDeinit, ReturnFailure, NoPacket
<1>8. CASE EnsureCapacity
  BY <1>8 DEF EnsureCapacity, Need, Grown
<1>9. CASE Copy
  BY <1>9 DEF Copy, PacketDeinit, NoPacket
<1>10. CASE SendH264
  BY <1>10 DEF SendH264, Sendable
<1>11. CASE NotSent
  BY <1>11 DEF NotSent, GiveUpConnection, Sendable
<1>12. CASE SourceTooSmall
  BY <1>12 DEF SourceTooSmall, ReturnFailure
<1>13. CASE FrameInitFails
  BY <1>13 DEF FrameInitFails, ReturnFailure
<1>14. CASE PutFails
  BY <1>14 DEF PutFails, ReturnFailure, FrameDeinit
<1>15. CASE GetFails
  BY <1>15 DEF GetFails, ReturnFailure, FrameDeinit
<1>16. CASE CapacityFails
  BY <1>16 DEF CapacityFails, PacketDeinit, ReturnFailure, NoPacket, Need
<1>17. ASSUME NEW n \in Lengths, EncoderRuns(n) PROVE HandleInv'
  BY <1>17 DEF EncoderRuns
<1> QED
  BY <1>1, <1>2, <1>3, <1>4, <1>5, <1>6, <1>7, <1>8, <1>9,
     <1>10, <1>11, <1>12, <1>13, <1>14, <1>15, <1>16, <1>17
     DEF Next, EncodeStep, Faults, Finished

LEMMA RoomStep ==
    ASSUME IInv, [Next]_vars
    PROVE  RoomInv'
<1> USE Bounds
    DEF IInv, encoder, output, tcp, TypeOK, RoomInv, Need
<1>1. CASE UNCHANGED vars
  BY <1>1 DEF vars
<1>2. CASE EncodeBegin
  BY <1>2 DEF EncodeBegin
<1>3. CASE Fill
  BY <1>3 DEF Fill, CopyRows
<1>4. CASE FrameInit
  BY <1>4 DEF FrameInit
<1>5. CASE Put
  BY <1>5 DEF Put, PutTask
<1>6. CASE Get
  BY <1>6 DEF Get
<1>7. CASE InvalidPacket
  BY <1>7 DEF InvalidPacket, PacketDeinit, ReturnFailure, NoPacket
<1>8. CASE EnsureCapacity
  BY <1>8, PacketLength DEF EnsureCapacity, Grown
<1>9. CASE Copy
  BY <1>9, PacketLength DEF Copy
<1>10. CASE SendH264
  BY <1>10 DEF SendH264, Sendable
<1>11. CASE NotSent
  BY <1>11 DEF NotSent, GiveUpConnection, Sendable
<1>12. CASE SourceTooSmall
  BY <1>12 DEF SourceTooSmall, ReturnFailure
<1>13. CASE FrameInitFails
  BY <1>13 DEF FrameInitFails, ReturnFailure
<1>14. CASE PutFails
  BY <1>14 DEF PutFails, ReturnFailure, FrameDeinit
<1>15. CASE GetFails
  BY <1>15 DEF GetFails, ReturnFailure, FrameDeinit
<1>16. CASE CapacityFails
  BY <1>16 DEF CapacityFails, PacketDeinit, ReturnFailure, NoPacket, Need
<1>17. ASSUME NEW n \in Lengths, EncoderRuns(n) PROVE RoomInv'
  BY <1>17 DEF EncoderRuns
<1> QED
  BY <1>1, <1>2, <1>3, <1>4, <1>5, <1>6, <1>7, <1>8, <1>9,
     <1>10, <1>11, <1>12, <1>13, <1>14, <1>15, <1>16, <1>17
     DEF Next, EncodeStep, Faults, Finished

LEMMA HeaderStep ==
    ASSUME IInv, [Next]_vars
    PROVE  HeaderInv'
<1> USE Bounds
    DEF IInv, encoder, output, tcp, TypeOK, SeqInv, HeaderInv, HeaderFirst, RoomInv
<1>1. CASE UNCHANGED vars
  BY <1>1 DEF vars
<1>2. CASE EncodeBegin
  BY <1>2 DEF EncodeBegin
<1>3. CASE Fill
  BY <1>3 DEF Fill, CopyRows
<1>4. CASE FrameInit
  BY <1>4 DEF FrameInit
<1>5. CASE Put
  BY <1>5 DEF Put, PutTask
<1>6. CASE Get
  BY <1>6 DEF Get
<1>7. CASE InvalidPacket
  BY <1>7 DEF InvalidPacket, PacketDeinit, ReturnFailure, NoPacket
<1>8. CASE EnsureCapacity
  BY <1>8 DEF EnsureCapacity, Need, Grown
<1>9. CASE Copy
  BY <1>9 DEF Copy, PacketDeinit, NoPacket
<1>10. CASE SendH264
  BY <1>10 DEF SendH264, Sendable
<1>11. CASE NotSent
  BY <1>11 DEF NotSent, GiveUpConnection, Sendable
<1>12. CASE SourceTooSmall
  BY <1>12 DEF SourceTooSmall, ReturnFailure
<1>13. CASE FrameInitFails
  BY <1>13 DEF FrameInitFails, ReturnFailure
<1>14. CASE PutFails
  BY <1>14 DEF PutFails, ReturnFailure, FrameDeinit
<1>15. CASE GetFails
  BY <1>15 DEF GetFails, ReturnFailure, FrameDeinit
<1>16. CASE CapacityFails
  BY <1>16 DEF CapacityFails, PacketDeinit, ReturnFailure, NoPacket, Need
<1>17. ASSUME NEW n \in Lengths, EncoderRuns(n) PROVE HeaderInv'
  BY <1>17 DEF EncoderRuns
<1> QED
  BY <1>1, <1>2, <1>3, <1>4, <1>5, <1>6, <1>7, <1>8, <1>9,
     <1>10, <1>11, <1>12, <1>13, <1>14, <1>15, <1>16, <1>17
     DEF Next, EncodeStep, Faults, Finished

LEMMA OrderStep ==
    ASSUME IInv, [Next]_vars
    PROVE  OrderInv'
<1> USE Bounds
    DEF IInv, encoder, output, tcp, TypeOK, SeqInv, CountInv, OrderInv, NothingSentTwice, Taken, Numbers
<1>1. CASE UNCHANGED vars
  BY <1>1 DEF vars
<1>2. CASE EncodeBegin
  BY <1>2 DEF EncodeBegin
<1>3. CASE Fill
  BY <1>3 DEF Fill, CopyRows
<1>4. CASE FrameInit
  BY <1>4 DEF FrameInit
<1>5. CASE Put
  BY <1>5 DEF Put, PutTask
<1>6. CASE Get
  <2>1. Taken' = Taken + 1 /\ Taken \in Nat
    BY <1>6, TailFacts DEF Get
  <2>2. packet'.number = Taken'
    BY <1>6, <2>1, TailFacts DEF Get
  <2>3. \A i \in 1 .. Len(submitted) : submitted[i].packet.number \in Nat
    <3>1. \A i \in 1 .. Len(submitted) : submitted[i] \in Sent
      OBVIOUS
    <3> HIDE DEF IInv, TypeOK, SeqInv, CountInv, OrderInv, NothingSentTwice, Taken, Numbers
    <3> QED
      BY <3>1, SentNumber
  <2>4. \A i \in 1 .. Len(submitted) :
          submitted[i].packet.number <= Taken' /\ submitted[i].packet.number < Taken'
    <3>1. \A i \in 1 .. Len(submitted) : submitted[i].packet.number <= Taken
      OBVIOUS
    <3> TAKE i \in 1 .. Len(submitted)
    <3>2. submitted[i].packet.number <= Taken /\ submitted[i].packet.number \in Nat
      BY <2>3, <3>1
    <3> HIDE DEF IInv, TypeOK, SeqInv, CountInv, OrderInv, NothingSentTwice, Taken
    <3> QED
      BY <2>1, <3>2
  <2> QED
    BY <1>6, <2>2, <2>4 DEF Get
<1>7. CASE InvalidPacket
  BY <1>7 DEF InvalidPacket, PacketDeinit, ReturnFailure, NoPacket
<1>8. CASE EnsureCapacity
  BY <1>8 DEF EnsureCapacity, Need, Grown
<1>9. CASE Copy
  BY <1>9 DEF Copy, PacketDeinit, NoPacket
<1>10. CASE SendH264
  <2>1. [packet |-> packet_ptr, frame |-> current] \in Sent
    BY DEF Sent, Outputs
  <2>2. /\ Len(submitted') = Len(submitted) + 1 /\ Len(submitted) \in Nat
        /\ \A i \in 1 .. Len(submitted) : submitted'[i] = submitted[i]
        /\ submitted'[Len(submitted')].packet.number = Taken
    BY <1>10, <2>1, AppendFacts, SMTT(60) DEF SendH264
  <2>3. Taken' = Taken /\ pc' = "idle" /\ Taken \in Nat
    BY <1>10 DEF SendH264
  <2>4. \A i \in 1 .. Len(submitted') : submitted'[i].packet.number <= Taken
    BY <1>10, <2>2, <2>3 DEF SendH264
  <2>5. NothingSentTwice'
    <3> SUFFICES ASSUME NEW i \in 1 .. Len(submitted'), NEW j \in 1 .. Len(submitted'), i < j
                 PROVE  submitted'[i].packet.number < submitted'[j].packet.number
      OBVIOUS
    <3>1. i \in 1 .. Len(submitted)
      BY <2>2
    <3>2. CASE j \in 1 .. Len(submitted)
      BY <2>2, <3>1, <3>2
    <3>3. CASE j = Len(submitted')
      BY <1>10, <2>2, <3>1, <3>3 DEF SendH264
    <3>4. j \in 1 .. Len(submitted) \/ j = Len(submitted')
      <4> HIDE DEF SeqInv, TypeOK, CountInv, OrderInv
      <4> QED
        BY <2>2
    <3> QED
      BY <3>2, <3>3, <3>4
  <2> QED
    BY <2>3, <2>4, <2>5
<1>11. CASE NotSent
  BY <1>11 DEF NotSent, GiveUpConnection, Sendable
<1>12. CASE SourceTooSmall
  BY <1>12 DEF SourceTooSmall, ReturnFailure
<1>13. CASE FrameInitFails
  BY <1>13 DEF FrameInitFails, ReturnFailure
<1>14. CASE PutFails
  BY <1>14 DEF PutFails, ReturnFailure, FrameDeinit
<1>15. CASE GetFails
  BY <1>15 DEF GetFails, ReturnFailure, FrameDeinit
<1>16. CASE CapacityFails
  BY <1>16 DEF CapacityFails, PacketDeinit, ReturnFailure, NoPacket, Need
<1>17. ASSUME NEW n \in Lengths, EncoderRuns(n) PROVE OrderInv'
  BY <1>17 DEF EncoderRuns
<1> QED
  BY <1>1, <1>2, <1>3, <1>4, <1>5, <1>6, <1>7, <1>8, <1>9,
     <1>10, <1>11, <1>12, <1>13, <1>14, <1>15, <1>16, <1>17
     DEF Next, EncodeStep, Faults, Finished

LEMMA PictureStep ==
    ASSUME IInv, [Next]_vars
    PROVE  PictureInv'
<1> USE Bounds
    DEF IInv, encoder, output, tcp, TypeOK, SeqInv, CountInv, PictureInv, Numbers
<1>1. CASE UNCHANGED vars
  BY <1>1 DEF vars
<1>2. CASE EncodeBegin
  BY <1>2 DEF EncodeBegin
<1>3. CASE Fill
  BY <1>3 DEF Fill, CopyRows
<1>4. CASE FrameInit
  BY <1>4 DEF FrameInit
<1>5. CASE Put
  BY <1>5 DEF Put, PutTask
<1>6. CASE Get
  BY <1>6 DEF Get
<1>7. CASE InvalidPacket
  BY <1>7 DEF InvalidPacket, PacketDeinit, ReturnFailure, NoPacket
<1>8. CASE EnsureCapacity
  BY <1>8 DEF EnsureCapacity, Need, Grown
<1>9. CASE Copy
  BY <1>9 DEF Copy, PacketDeinit, NoPacket
<1>10. CASE SendH264
  BY <1>10, SMTT(60) DEF SendH264, Sendable
<1>11. CASE NotSent
  BY <1>11 DEF NotSent, GiveUpConnection, Sendable
<1>12. CASE SourceTooSmall
  BY <1>12 DEF SourceTooSmall, ReturnFailure
<1>13. CASE FrameInitFails
  BY <1>13 DEF FrameInitFails, ReturnFailure
<1>14. CASE PutFails
  BY <1>14 DEF PutFails, ReturnFailure, FrameDeinit
<1>15. CASE GetFails
  BY <1>15 DEF GetFails, ReturnFailure, FrameDeinit
<1>16. CASE CapacityFails
  BY <1>16 DEF CapacityFails, PacketDeinit, ReturnFailure, NoPacket, Need
<1>17. ASSUME NEW n \in Lengths, EncoderRuns(n) PROVE PictureInv'
  BY <1>17 DEF EncoderRuns
<1> QED
  BY <1>1, <1>2, <1>3, <1>4, <1>5, <1>6, <1>7, <1>8, <1>9,
     <1>10, <1>11, <1>12, <1>13, <1>14, <1>15, <1>16, <1>17
     DEF Next, EncodeStep, Faults, Finished

LEMMA ForwardStep ==
    ASSUME IInv, [Next]_vars
    PROVE  ForwardInv'
<1> USE Bounds
    DEF IInv, encoder, output, tcp, TypeOK, SeqInv, ForwardInv, Numbers
<1>1. CASE UNCHANGED vars
  BY <1>1 DEF vars
<1>2. CASE EncodeBegin
  <2>1. buffer <= current + 1
    BY SMT
  <2>2. /\ current' = current + 1 /\ pc' = "fill"
        /\ UNCHANGED <<buffer, ready, packet, packet_ptr, submitted>>
    BY <1>2 DEF EncodeBegin
  <2> QED
    BY <2>1, <2>2, Zenon
<1>3. CASE Fill
  <2>1. /\ buffer' = current /\ pc' = "init"
        /\ UNCHANGED <<current, ready, packet, packet_ptr, submitted>>
    BY <1>3 DEF Fill, CopyRows
  <2>2. buffer \in Nat /\ current \in Nat /\ buffer <= current
    OBVIOUS
  <2>3. \A i \in 1 .. Len(ready) : ready[i].picture <= current
    <3> SUFFICES ASSUME NEW i \in 1 .. Len(ready) PROVE ready[i].picture <= current
      OBVIOUS
    <3>1. ready[i].picture \in Nat
      BY PacketLength
    <3>2. ready[i].picture <= buffer
      OBVIOUS
    <3> QED
      <4> HIDE DEF IInv, TypeOK, SeqInv, ForwardInv
      <4> QED
        BY <2>2, <3>1, <3>2
  <2>4. \A k \in 1 .. Len(submitted) : submitted[k].packet.picture <= current
    <3> SUFFICES ASSUME NEW k \in 1 .. Len(submitted)
                 PROVE  submitted[k].packet.picture <= current
      OBVIOUS
    <3>1. submitted[k].packet.picture \in Nat
      BY SentPicture
    <3>2. submitted[k].packet.picture <= buffer
      OBVIOUS
    <3> QED
      <4> HIDE DEF IInv, TypeOK, SeqInv, ForwardInv
      <4> QED
        BY <2>2, <3>1, <3>2
  <2>5. current <= current
    BY <2>2
  <2> QED
    BY <2>1, <2>3, <2>4, <2>5, Zenon
<1>4. CASE FrameInit
  BY <1>4 DEF FrameInit
<1>5. CASE Put
  BY <1>5 DEF Put, PutTask
<1>6. CASE Get
  BY <1>6 DEF Get
<1>7. CASE InvalidPacket
  BY <1>7 DEF InvalidPacket, PacketDeinit, ReturnFailure, NoPacket
<1>8. CASE EnsureCapacity
  BY <1>8 DEF EnsureCapacity, Need, Grown
<1>9. CASE Copy
  BY <1>9 DEF Copy, PacketDeinit, NoPacket
<1>10. CASE SendH264
  BY <1>10, SMTT(60) DEF SendH264
<1>11. CASE NotSent
  BY <1>11 DEF NotSent, GiveUpConnection, Sendable
<1>12. CASE SourceTooSmall
  BY <1>12 DEF SourceTooSmall, ReturnFailure
<1>13. CASE FrameInitFails
  BY <1>13 DEF FrameInitFails, ReturnFailure
<1>14. CASE PutFails
  BY <1>14 DEF PutFails, ReturnFailure, FrameDeinit
<1>15. CASE GetFails
  BY <1>15 DEF GetFails, ReturnFailure, FrameDeinit
<1>16. CASE CapacityFails
  BY <1>16 DEF CapacityFails, PacketDeinit, ReturnFailure, NoPacket, Need
<1>17. ASSUME NEW n \in Lengths, EncoderRuns(n) PROVE ForwardInv'
  BY <1>17 DEF EncoderRuns
<1> QED
  BY <1>1, <1>2, <1>3, <1>4, <1>5, <1>6, <1>7, <1>8, <1>9,
     <1>10, <1>11, <1>12, <1>13, <1>14, <1>15, <1>16, <1>17
     DEF Next, EncodeStep, Faults, Finished


-----------------------------------------------------------------------------
(* The theorems.                                                           *)

(* The strengthened invariant holds in every reachable state of MPP_Encode and
   mpp_thread. *)
THEOREM Inductive == Spec => []IInv
<1>1. Init => IInv
  BY InvInit
<1>2. IInv /\ [Next]_vars => IInv'
  BY TypeStep, CountStep, HandleStep, RoomStep, HeaderStep, OrderStep, PictureStep, ForwardStep
     DEF IInv
<1> QED
  BY <1>1, <1>2, PTL DEF Spec

(* MPP_Encode and mpp_thread keep every variable in its type, for any number of
   frames and packets of any length; packet_capacity stays bounded. *)
THEOREM TypeCorrect == Spec => []TypeOK
<1>1. IInv => TypeOK
  BY DEF IInv
<1> QED
  BY <1>1, Inductive, PTL

(* The first packet TCP_Client_SendH264 takes begins with SPS and PPS and no later
   one does, although header_sent is set before the packet is sent. *)
THEOREM HeaderComesFirst == Spec => []HeaderFirst
<1>1. IInv => HeaderFirst
  BY DEF IInv, HeaderInv
<1> QED
  BY <1>1, Inductive, PTL

(* mpp_thread sends the packets of MPP_Encode in order and once each: no failing
   call leaves one behind that is sent again. *)
THEOREM SentOnceInOrder == Spec => []NothingSentTwice
<1>1. IInv => NothingSentTwice
  BY DEF IInv, OrderInv
<1> QED
  BY <1>1, Inductive, PTL

(* What is sent never goes back to an earlier picture, whichever calls failed and left
   packets in the encoder, and as long as encode_get_packet never failed it shows the frame
   it is sent for, although all frames share one input buffer. *)
THEOREM PicturesKeepGoing == Spec => []PicturesGoForward
<1>1. IInv => PicturesGoForward
  BY DEF IInv, PictureInv, ForwardInv, PicturesGoForward
<1> QED
  BY <1>1, Inductive, PTL

(* MPP_Encode has deinitialised its MppFrame and MppPacket on every way out. *)
THEOREM HandlesGivenBack == Spec => []HandlesReturned
<1>1. IInv => HandlesReturned
  BY DEF IInv, HandleInv, HandlesReturned
<1> QED
  BY <1>1, Inductive, PTL

(* What MPP_Encode copies into packet_ptr fits into what MPP_Ensure_Packet_Capacity
   allocated, also the first packet behind its header. *)
THEOREM MemoryHoldsOutput == Spec => []OutputFits
<1>1. IInv => OutputFits
  BY DEF IInv, RoomInv, OutputFits
<1> QED
  BY <1>1, Inductive, PTL
=============================================================================
