------------------------ MODULE ServerPipeline_proofs ------------------------
(***************************************************************************)
(* Proofs about ServerPipeline for queues of any capacity, any delay of    *)
(* the codec and any number of packets, about Display, the other half of   *)
(* main's loop, and about ServerStartup, what surrounds it: every          *)
(* invariant of their runs.                                                *)
(*                                                                         *)
(* In the pipeline, most steps move a packet from one place to the next    *)
(* and leave Line as it is; the others lengthen it at the end by what recv *)
(* delivers, or thin it out.                                               *)
(***************************************************************************)
EXTENDS ServerPipeline, Display, ServerStartup, SequenceTheorems, TLAPS

Rising(s) == \A i, j \in 1 .. Len(s) : i < j => s[i] < s[j]

\* t comes from s by leaving elements out.
Thins(t, s) == /\ \A i \in 1 .. Len(t) : \E k \in 1 .. Len(s) : t[i] = s[k]
               /\ Rising(s) => Rising(t)

\* A hand is full exactly at the labels between taking and passing on.
HandInv ==
    /\ tcpPacket # None <=> tcpPc = "push"
    /\ decPacket # None <=> decPc = "decode"
    /\ decFrame # None <=> decPc = "push"
    /\ mainFrame # None <=> mainPc = "render"

\* The wire holds what was sent and not received, and Line only what was received.
WireInv == /\ received <= sent
           /\ wire = [k \in 1 .. sent - received |-> received + k]
LineInv == /\ \A i \in 1 .. Len(Line) : Line[i] \in 1 .. received
           /\ Rising(Line)

\* The normal end goes along the pipeline: the receive thread stops the packet
\* queue, the decoder thread finds it empty and stops the frame queue, main finds
\* that one empty.
CourseInv ==
    /\ mainPc = "create decoder" => decPc = "not created"
    /\ mainPc = "exit" => tcpPc = "exit" /\ decPc = "exit"
    /\ ~aborted =>
          /\ packetStop => tcpPc = "exit"
          /\ flushing => packetStop /\ packetQ = <<>>
          /\ decPc \in {"stop", "exit"} =>
                flushing /\ (~decoder_error /\ ~flushFailed => inside = <<>>)
          /\ frameStop => decPc = "exit"
          /\ mainPc \notin {"stop frames", "stop packets", "shutdown", "close"}
          /\ mainPc \in {"last packet stop", "last frame stop", "join", "exit"} =>
                frameStop /\ frameQ = <<>>

IInv == TypeOK /\ HandInv /\ WireInv /\ LineInv /\ CourseInv /\ NothingLost

-----------------------------------------------------------------------------
(* Sequences.                                                              *)

LEMMA RisingConcat ==
    ASSUME NEW a \in Seq(Nat), NEW b \in Seq(Nat)
    PROVE  Rising(a \o b) <=> /\ Rising(a) /\ Rising(b)
                              /\ \A i \in 1 .. Len(a), j \in 1 .. Len(b) : a[i] < b[j]
<1> DEFINE c == a \o b
<1>1. /\ Len(a) \in Nat /\ Len(b) \in Nat /\ Len(c) = Len(a) + Len(b)
      /\ \A i \in 1 .. Len(a) : c[i] = a[i]
      /\ \A j \in 1 .. Len(b) : c[Len(a) + j] = b[j]
      /\ \A i \in 1 .. Len(c) : c[i] = IF i <= Len(a) THEN a[i] ELSE b[i - Len(a)]
  BY ConcatProperties, LenProperties
<1> HIDE DEF c
<1>2. ASSUME Rising(c)
      PROVE  /\ Rising(a) /\ Rising(b)
             /\ \A i \in 1 .. Len(a), j \in 1 .. Len(b) : a[i] < b[j]
  <2>1. Rising(a)
    BY <1>1, <1>2 DEF Rising
  <2>2. ASSUME NEW i \in 1 .. Len(b), NEW j \in 1 .. Len(b), i < j PROVE b[i] < b[j]
    <3>1. Len(a) + i \in 1 .. Len(c) /\ Len(a) + j \in 1 .. Len(c) /\ Len(a) + i < Len(a) + j
      BY <1>1, <2>2
    <3> QED
      BY <1>1, <1>2, <3>1 DEF Rising
  <2>3. ASSUME NEW i \in 1 .. Len(a), NEW j \in 1 .. Len(b) PROVE a[i] < b[j]
    <3>1. i \in 1 .. Len(c) /\ Len(a) + j \in 1 .. Len(c) /\ i < Len(a) + j
      BY <1>1
    <3> QED
      BY <1>1, <1>2, <3>1 DEF Rising
  <2> QED
    BY <2>1, <2>2, <2>3 DEF Rising
<1>3. ASSUME Rising(a), Rising(b),
             \A i \in 1 .. Len(a), j \in 1 .. Len(b) : a[i] < b[j],
             NEW i \in 1 .. Len(c), NEW j \in 1 .. Len(c), i < j
      PROVE  c[i] < c[j]
  <2>1. CASE j <= Len(a)
    BY <1>1, <1>3, <2>1 DEF Rising
  <2>2. CASE i > Len(a)
    <3>1. i - Len(a) \in 1 .. Len(b) /\ j - Len(a) \in 1 .. Len(b) /\ i - Len(a) < j - Len(a)
      BY <1>1, <1>3, <2>2
    <3>2. c[i] = b[i - Len(a)] /\ c[j] = b[j - Len(a)]
      BY <1>1, <1>3, <2>2
    <3> QED
      BY <1>3, <3>1, <3>2 DEF Rising
  <2>3. CASE i <= Len(a) /\ j > Len(a)
    <3>1. i \in 1 .. Len(a) /\ j - Len(a) \in 1 .. Len(b)
      BY <1>1, <1>3, <2>3
    <3>2. c[i] = a[i] /\ c[j] = b[j - Len(a)]
      BY <1>1, <1>3, <2>3
    <3> QED
      BY <1>3, <3>1, <3>2
  <2> QED
    BY <1>1, <2>1, <2>2, <2>3
<1> QED
  BY <1>2, <1>3 DEF Rising, c

LEMMA ThinConcat ==
    ASSUME NEW a \in Seq(Nat), NEW b \in Seq(Nat), NEW s \in Seq(Nat), NEW t \in Seq(Nat),
           Thins(s, a), Thins(t, b)
    PROVE  Thins(s \o t, a \o b)
<1> DEFINE c == a \o b   u == s \o t
<1>1. /\ Len(a) \in Nat /\ Len(b) \in Nat /\ Len(c) = Len(a) + Len(b)
      /\ \A i \in 1 .. Len(a) : c[i] = a[i]
      /\ \A j \in 1 .. Len(b) : c[Len(a) + j] = b[j]
  BY ConcatProperties, LenProperties
<1>2. /\ Len(s) \in Nat /\ Len(t) \in Nat /\ Len(u) = Len(s) + Len(t)
      /\ \A i \in 1 .. Len(s) : u[i] = s[i]
      /\ \A j \in 1 .. Len(t) : u[Len(s) + j] = t[j]
  BY ConcatProperties, LenProperties
<1>3. Rising(c) => Rising(u)
  <2>1. SUFFICES ASSUME Rising(c) PROVE Rising(u)
    OBVIOUS
  <2>2. Rising(a) /\ Rising(b) /\ \A i \in 1 .. Len(a), j \in 1 .. Len(b) : a[i] < b[j]
    BY <2>1, RisingConcat
  <2>3. Rising(s) /\ Rising(t) /\ \A i \in 1 .. Len(s), j \in 1 .. Len(t) : s[i] < t[j]
    BY <2>2 DEF Thins
  <2> QED
    BY <2>3, RisingConcat
<1> HIDE DEF c, u
<1>4. ASSUME NEW i \in 1 .. Len(u) PROVE \E k \in 1 .. Len(c) : u[i] = c[k]
  <2>1. CASE i \in 1 .. Len(s)
    <3>1. PICK k \in 1 .. Len(a) : s[i] = a[k]
      BY <2>1 DEF Thins
    <3>2. k \in 1 .. Len(c) /\ u[i] = c[k]
      BY <1>1, <1>2, <2>1, <3>1
    <3> QED
      BY <3>2
  <2>2. CASE i - Len(s) \in 1 .. Len(t)
    <3>1. PICK k \in 1 .. Len(b) : t[i - Len(s)] = b[k]
      BY <2>2 DEF Thins
    <3>2. Len(a) + k \in 1 .. Len(c) /\ Len(s) + (i - Len(s)) = i
      BY <1>1, <1>2
    <3>3. u[i] = c[Len(a) + k]
      BY <1>1, <1>2, <2>2, <3>1, <3>2
    <3> QED
      BY <3>2, <3>3
  <2> QED
    BY <1>2, <2>1, <2>2
<1> QED
  BY <1>3, <1>4 DEF Thins, c, u

\* What is left of a sequence when it loses nothing, all, or its first or last element.
LEMMA ThinCases ==
    ASSUME NEW a \in Seq(Nat)
    PROVE  /\ Thins(a, a) /\ Thins(<<>>, a)
           /\ a # <<>> => /\ Tail(a) \in Seq(Nat) /\ Thins(Tail(a), a)
                          /\ SubSeq(a, 1, Len(a) - 1) \in Seq(Nat)
                          /\ Thins(SubSeq(a, 1, Len(a) - 1), a)
<1>0. Len(a) \in Nat
  BY LenProperties
<1>1. Thins(a, a)
  BY DEF Thins
<1>2. Thins(<<>>, a)
  BY EmptySeq DEF Thins, Rising
<1>3. ASSUME a # <<>> PROVE Tail(a) \in Seq(Nat) /\ Thins(Tail(a), a)
  <2>1. /\ Tail(a) \in Seq(Nat) /\ Len(Tail(a)) = Len(a) - 1
        /\ \A i \in 1 .. Len(a) - 1 : Tail(a)[i] = a[i + 1]
    BY <1>3, HeadTailProperties
  <2>2. \A i \in 1 .. Len(a) - 1 : i + 1 \in 1 .. Len(a)
    BY <1>0
  <2> QED
    BY <1>0, <2>1, <2>2 DEF Thins, Rising
<1>4. ASSUME a # <<>>
      PROVE  /\ SubSeq(a, 1, Len(a) - 1) \in Seq(Nat) /\ Thins(SubSeq(a, 1, Len(a) - 1), a)
  <2>0. Len(a) > 0
    BY <1>0, <1>4, EmptySeq
  <2>1. \A i \in 1 .. Len(a) - 1 : a[i] \in Nat
    BY <1>0, ElementOfSeq
  <2>2. /\ SubSeq(a, 1, Len(a) - 1) \in Seq(Nat)
        /\ Len(SubSeq(a, 1, Len(a) - 1)) = Len(a) - 1
        /\ \A i \in 1 .. Len(a) - 1 : SubSeq(a, 1, Len(a) - 1)[i] = a[i]
    <3> DEFINE n == Len(a) - 1
    <3>1. n \in Int /\ n >= 0
      BY <1>0, <2>0
    <3> HIDE DEF n
    <3>2. \A i \in 1 .. n : a[i] \in Nat
      BY <2>1 DEF n
    <3>3. /\ SubSeq(a, 1, n) \in Seq(Nat)
          /\ Len(SubSeq(a, 1, n)) = IF 1 <= n THEN n - 1 + 1 ELSE 0
          /\ \A i \in 1 .. n - 1 + 1 : SubSeq(a, 1, n)[i] = a[1 + i - 1]
      BY <3>1, <3>2, SubSeqProperties
    <3>4. Len(SubSeq(a, 1, n)) = n /\ \A i \in 1 .. n : SubSeq(a, 1, n)[i] = a[i]
      BY <3>1, <3>3
    <3> QED
      BY <3>3, <3>4 DEF n
  <2>3. \A i \in 1 .. Len(a) - 1 : i \in 1 .. Len(a)
    BY <1>0
  <2> QED
    BY <1>0, <2>2, <2>3 DEF Thins, Rising
<1> QED
  BY <1>1, <1>2, <1>3, <1>4

\* Handing on the first element, or all there is.
LEMMA MoveHead ==
    ASSUME NEW a \in Seq(Nat), NEW b \in Seq(Nat), b # <<>>
    PROVE  (a \o <<Head(b)>>) \o Tail(b) = (a \o <<>>) \o b
<1>1. Head(b) \in Nat /\ Tail(b) \in Seq(Nat) /\ <<Head(b)>> \in Seq(Nat)
  BY HeadTailProperties
<1>2. <<Head(b)>> \o Tail(b) = b
  BY <1>1
<1>3. (a \o <<Head(b)>>) \o Tail(b) = a \o (<<Head(b)>> \o Tail(b))
  BY <1>1, ConcatAssociative, SMTT(60)
<1> QED
  BY <1>2, <1>3, ConcatEmptySeq

LEMMA MoveAll ==
    ASSUME NEW a \in Seq(Nat), NEW b \in Seq(Nat), NEW c \in Seq(Nat)
    PROVE  (a \o (b \o c)) \o <<>> = (a \o b) \o c
<1>1. a \o (b \o c) \in Seq(Nat) /\ (a \o b) \o c = a \o (b \o c)
  BY ConcatProperties, ConcatAssociative, SMTT(60)
<1> QED
  BY <1>1, ConcatEmptySeq

-----------------------------------------------------------------------------
(* Types.                                                                  *)

LEMMA Bounds == /\ PacketCap \in Nat /\ FrameCap \in Nat /\ Delay \in Nat /\ MaxPackets \in Nat
                /\ Numbers \subseteq Nat
BY PipelineAssumption DEF Numbers

LEMMA NumberSeqs == Seq(Numbers) \subseteq Seq(Nat)
BY Bounds, SeqMonotonic

LEMMA Hands ==
    ASSUME NEW h \in Hand
    PROVE  /\ h \in Seq(Numbers) /\ h \in Seq(Nat)
           /\ h = <<>> \/ \E k \in Numbers : h = <<k>>
<1>1. CASE h = None
  BY <1>1, EmptySeq DEF None
<1>2. ASSUME NEW k \in Numbers, h = <<k>> PROVE h \in Seq(Numbers)
  BY <1>2
<1> QED
  BY <1>1, <1>2, NumberSeqs DEF Hand, None

LEMMA TakenType ==
    ASSUME NEW s \in Seq(Numbers), s # <<>>
    PROVE  <<Head(s)>> \in Hand /\ Tail(s) \in Seq(Numbers) /\ Len(Tail(s)) = Len(s) - 1
BY HeadTailProperties DEF Hand

LEMMA PutType ==
    ASSUME NEW s \in Seq(Numbers), NEW h \in Hand
    PROVE  s \o h \in Seq(Numbers) /\ Len(s \o h) <= Len(s) + 1
<1>1. h \in Seq(Numbers) /\ Len(h) \in {0, 1}
  BY Hands
<1>2. Len(s) \in Nat
  BY LenProperties
<1> QED
  BY <1>1, <1>2, ConcatProperties

LEMMA RemainsType ==
    ASSUME inside \in Seq(Numbers)
    PROVE  Remains \subseteq Seq(Numbers)
<1>1. CASE inside = <<>>
  BY <1>1 DEF Remains
<1>2. CASE inside # <<>>
  <2>1. Tail(inside) \in Seq(Numbers)
    BY <1>2, HeadTailProperties
  <2>2. SubSeq(inside, 1, Len(inside) - 1) \in Seq(Numbers)
    <3> DEFINE n == Len(inside) - 1
    <3>1. n \in Int /\ \A i \in 1 .. n : inside[i] \in Numbers
      BY LenProperties, ElementOfSeq
    <3> HIDE DEF n
    <3>2. SubSeq(inside, 1, n) \in Seq(Numbers)
      BY <3>1, SubSeqProperties
    <3> QED
      BY <3>2 DEF n
  <2> QED
    BY <1>2, <2>1, <2>2 DEF Remains
<1> QED
  BY <1>1, <1>2

\* A run of consecutive numbers.
LEMMA Consecutive ==
    ASSUME NEW b \in Nat, NEW n \in Nat, b + n <= MaxPackets
    PROVE  LET s == [k \in 1 .. n |-> b + k]
           IN  s \in Seq(Numbers) /\ Len(s) = n
<1> DEFINE s == [k \in 1 .. n |-> b + k]
<1>1. s \in [1 .. n -> Numbers]
  BY Bounds DEF Numbers
<1>2. s \in Seq(Numbers)
  BY <1>1, SeqDef
<1>3. Len(s) = n
  BY <1>1, <1>2, LenProperties
<1> QED
  BY <1>2, <1>3

LEMMA WireFacts ==
    ASSUME TypeOK, WireInv, wire # <<>>
    PROVE  /\ received + 1 <= sent /\ received + 1 \in Numbers
           /\ Head(wire) = received + 1
           /\ Tail(wire) = [k \in 1 .. sent - (received + 1) |-> (received + 1) + k]
<1>0. sent \in 0 .. MaxPackets /\ received \in 0 .. MaxPackets /\ wire \in Seq(Numbers)
      /\ MaxPackets \in Nat /\ received <= sent
  BY Bounds DEF TypeOK, WireInv
<1> DEFINE n == sent - received
           t == [k \in 1 .. sent - (received + 1) |-> (received + 1) + k]
<1>1. n \in Nat /\ wire = [k \in 1 .. n |-> received + k] /\ received + n <= MaxPackets
  BY <1>0 DEF WireInv
<1>2. Len(wire) = n /\ n # 0
  <2>1. Len(wire) = n
    BY <1>0, <1>1, Consecutive
  <2> QED
    BY <1>0, <2>1, EmptySeq
<1>3. received + 1 <= sent /\ received + 1 \in Numbers /\ sent - (received + 1) = n - 1
      /\ n - 1 \in Nat /\ received + 1 \in Nat /\ (received + 1) + (n - 1) <= MaxPackets
  BY <1>0, <1>2 DEF Numbers
<1>4. Head(wire) = received + 1
  BY <1>0, <1>1, <1>2
<1>5. t \in Seq(Numbers) /\ Len(t) = n - 1
  BY <1>3, Consecutive
<1>6. /\ Tail(wire) \in Seq(Numbers) /\ Len(Tail(wire)) = n - 1
      /\ \A i \in 1 .. n - 1 : Tail(wire)[i] = wire[i + 1]
  BY <1>0, <1>2, HeadTailProperties
<1>7. ASSUME NEW i \in 1 .. n - 1 PROVE Tail(wire)[i] = t[i]
  <2>1. Tail(wire)[i] = received + (i + 1)
    BY <1>0, <1>1, <1>6
  <2>2. t[i] = (received + 1) + i
    BY <1>3
  <2>3. received + (i + 1) = (received + 1) + i
    BY <1>0, <1>1
  <2> QED
    BY <2>1, <2>2, <2>3
<1>8. Tail(wire) = t
  BY <1>5, <1>6, <1>7, SeqEqual
<1> QED
  BY <1>3, <1>4, <1>8

\* TypeOK in parts, each disturbed by a few actions.
Counters == sent \in 0 .. MaxPackets /\ received \in 0 .. MaxPackets
Queues   == /\ wire \in Seq(Numbers) /\ inside \in Seq(Numbers) /\ shown \in Seq(Numbers)
            /\ packetQ \in Seq(Numbers) /\ Len(packetQ) <= PacketCap
            /\ frameQ \in Seq(Numbers) /\ Len(frameQ) <= FrameCap
HandsOK  == tcpPacket \in Hand /\ decPacket \in Hand /\ decFrame \in Hand /\ mainFrame \in Hand
Flags    == /\ packetStop \in BOOLEAN /\ frameStop \in BOOLEAN /\ tcp_error \in BOOLEAN
            /\ decoder_error \in BOOLEAN /\ flushing \in BOOLEAN
            /\ aborted \in BOOLEAN /\ oom \in BOOLEAN /\ flushFailed \in BOOLEAN
Labels   == /\ peer \in {"up", "closed", "reset"} /\ socket \in {"open", "shut", "closed"}
            /\ tcpPc \in {"enter", "recv", "push", "stop", "exit"}
            /\ decPc \in {"not created", "pop", "decode", "emit", "push", "stop", "exit"}
            /\ mainPc \in {"create decoder", "poll quit", "try pop", "render",
                           "stop frames", "stop packets", "shutdown", "close",
                           "last packet stop", "last frame stop", "join", "exit"}

LEMMA TypeParts == TypeOK <=> Counters /\ Queues /\ HandsOK /\ Flags /\ Labels
BY DEF TypeOK, Counters, Queues, HandsOK, Flags, Labels

\* What UNCHANGED vars says of each variable.
Same == /\ wire' = wire /\ sent' = sent /\ peer' = peer /\ socket' = socket
        /\ packetQ' = packetQ /\ packetStop' = packetStop /\ frameQ' = frameQ
        /\ frameStop' = frameStop /\ tcpPc' = tcpPc /\ tcpPacket' = tcpPacket
        /\ received' = received /\ tcp_error' = tcp_error /\ decPc' = decPc
        /\ decPacket' = decPacket /\ inside' = inside /\ decFrame' = decFrame
        /\ flushing' = flushing /\ decoder_error' = decoder_error /\ mainPc' = mainPc
        /\ mainFrame' = mainFrame /\ shown' = shown /\ aborted' = aborted /\ oom' = oom
        /\ flushFailed' = flushFailed

LEMMA Stutter == ASSUME UNCHANGED vars PROVE Same
BY DEF Same, vars, client, queues, tcp, dec, screen, causes

LEMMA TypeInit == ASSUME Init PROVE TypeOK
<1>1. <<>> \in Seq(Numbers) /\ Len(<<>>) = 0
  BY EmptySeq
<1>2. Counters
  <2>1. sent = 0 /\ received = 0
    BY DEF Init
  <2> QED
    BY <2>1, Bounds DEF Counters
<1>3. Flags /\ Labels
  <2>1. /\ peer = "up" /\ socket = "open" /\ tcpPc = "enter" /\ decPc = "not created"
        /\ mainPc = "create decoder"
    BY DEF Init
  <2>2. /\ packetStop = FALSE /\ frameStop = FALSE /\ tcp_error = FALSE
        /\ decoder_error = FALSE /\ flushing = FALSE
        /\ aborted = FALSE /\ oom = FALSE /\ flushFailed = FALSE
    BY DEF Init
  <2> QED
    BY <2>1, <2>2 DEF Flags, Labels
<1>4. Queues
  <2>1. 0 <= PacketCap /\ 0 <= FrameCap
    BY Bounds
  <2> QED
    BY <1>1, <2>1 DEF Init, Queues
<1>5. HandsOK
  BY DEF Init, HandsOK, Hand
<1> QED
  BY <1>2, <1>3, <1>4, <1>5, TypeParts

LEMMA LabelStep == ASSUME Labels, [Next]_vars PROVE Labels'
<1> USE DEF Labels, client, queues, tcp, dec, screen, causes, MainGoes
<1>1. CASE ClientSends \/ ClientLeaves
  BY <1>1 DEF ClientSends, ClientLeaves
<1>2. CASE TcpStep \/ PushPacketFails
  BY <1>2 DEF TcpStep, RecvEnter, RecvPacket, RecvEnds, RecvFails, PushPacket,
              PushPacketRefused, TcpStop, PushPacketFails
<1>3. CASE DecoderStep \/ FFmpegFails \/ PushFrameFails
  BY <1>3 DEF DecoderStep, PopPacket, PopEnds, Feed, Emit, PushFrame, PushFrameRefused,
              DecodeReturns, FlushReturns, DecoderStop, FFmpegFails, PushFrameFails, GiveUp
<1>4. CASE MainStep \/ CreateDecoderFails \/ RenderFails \/ Quit
  BY <1>4 DEF MainStep, CreateDecoder, CreateDecoderFails, Quit, NoQuit, TryPopFrame,
              TryPopNothing, TryPopEnds, Render, RenderFails, StopFrames, StopPackets,
              Shutdown, Close, LastPacketStop, LastFrameStop, JoinAndDestroy, Abort
<1>5. CASE UNCHANGED vars
  BY <1>5, Stutter DEF Same
<1> QED
  BY <1>1, <1>2, <1>3, <1>4, <1>5 DEF Next, Faults, Finished

LEMMA FlagStep == ASSUME Flags, [Next]_vars PROVE Flags'
<1> USE DEF Flags, client, queues, tcp, dec, screen, causes, MainGoes
<1>1. CASE ClientSends \/ ClientLeaves
  BY <1>1 DEF ClientSends, ClientLeaves
<1>2. CASE TcpStep \/ PushPacketFails
  BY <1>2, ZenonT(60) DEF TcpStep, RecvEnter, RecvPacket, RecvEnds, RecvFails, PushPacket,
              PushPacketRefused, TcpStop, PushPacketFails
<1>3. CASE PopPacket \/ PopEnds \/ Feed \/ Emit \/ PushFrame \/ DecodeReturns
           \/ FlushReturns \/ DecoderStop
  BY <1>3, ZenonT(60) DEF PopPacket, PopEnds, Feed, Emit, PushFrame,
              DecodeReturns, FlushReturns, DecoderStop
<1>4. CASE FFmpegFails \/ PushFrameFails \/ PushFrameRefused
  <2>1. /\ decoder_error' = (decoder_error \/ ~flushing)
        /\ flushFailed' = (flushFailed \/ flushing)
        /\ UNCHANGED <<packetStop, frameStop, tcp_error, flushing, aborted, oom>>
    BY <1>4 DEF FFmpegFails, PushFrameFails, PushFrameRefused, GiveUp
  <2>2. decoder_error' \in BOOLEAN
    BY <2>1, Zenon
  <2>3. flushFailed' \in BOOLEAN
    BY <2>1, Zenon
  <2> QED
    BY <2>1, <2>2, <2>3
<1>5. CASE CreateDecoder \/ CreateDecoderFails \/ Quit \/ NoQuit \/ RenderFails
  BY <1>5, ZenonT(60) DEF CreateDecoder, CreateDecoderFails, Quit, NoQuit, RenderFails, Abort
<1>6. CASE TryPopFrame \/ TryPopNothing \/ TryPopEnds \/ Render \/ StopFrames \/ StopPackets
  BY <1>6, ZenonT(60) DEF TryPopFrame, TryPopNothing, TryPopEnds, Render, StopFrames, StopPackets
<1>7. CASE Shutdown \/ Close \/ LastPacketStop \/ LastFrameStop \/ JoinAndDestroy
  BY <1>7 DEF Shutdown, Close, LastPacketStop, LastFrameStop, JoinAndDestroy
<1>8. CASE UNCHANGED vars
  BY <1>8, Stutter DEF Same
<1> QED
  BY <1>1, <1>2, <1>3, <1>4, <1>5, <1>6, <1>7, <1>8
     DEF Next, TcpStep, DecoderStep, MainStep, Faults, Finished

\* The hands: their types, and when they are full.
LEMMA HandStep == ASSUME IInv, [Next]_vars PROVE HandsOK' /\ HandInv'
<1>0. TypeOK /\ Queues /\ HandsOK /\ HandInv /\ CourseInv
  BY TypeParts DEF IInv
<1>a. None \in Hand /\ \A x : <<x>> # None
  BY DEF Hand, None
<1> USE DEF HandsOK, HandInv, client, queues, tcp, dec, screen, causes, MainGoes
<1>1. CASE ClientSends \/ ClientLeaves
  BY <1>0, <1>1 DEF ClientSends, ClientLeaves
<1>2. CASE RecvPacket
  <2>1. <<Head(wire)>> \in Hand
    BY <1>0, <1>2, TakenType DEF RecvPacket, Queues, None
  <2> QED
    BY <1>0, <1>a, <1>2, <2>1 DEF RecvPacket
<1>3. CASE RecvEnter \/ RecvEnds \/ RecvFails \/ PushPacket \/ PushPacketRefused
           \/ PushPacketFails \/ TcpStop
  BY <1>0, <1>a, <1>3 DEF RecvEnter, RecvEnds, RecvFails, PushPacket, PushPacketRefused,
                          PushPacketFails, TcpStop
<1>4. CASE PopPacket
  <2>1. <<Head(packetQ)>> \in Hand
    BY <1>0, <1>4, TakenType DEF PopPacket, Queues
  <2> QED
    BY <1>0, <1>a, <1>4, <2>1 DEF PopPacket
<1>5. CASE Emit
  <2>1. <<Head(inside)>> \in Hand
    BY <1>0, <1>5, TakenType DEF Emit, Queues
  <2> QED
    BY <1>0, <1>a, <1>5, <2>1 DEF Emit
<1>6. CASE PopEnds \/ Feed \/ PushFrame \/ DecodeReturns \/ FlushReturns \/ DecoderStop
  BY <1>0, <1>a, <1>6 DEF PopEnds, Feed, PushFrame, DecodeReturns, FlushReturns, DecoderStop
<1>7. CASE FFmpegFails \/ PushFrameRefused \/ PushFrameFails
  BY <1>0, <1>a, <1>7 DEF FFmpegFails, PushFrameRefused, PushFrameFails, GiveUp
<1>8. CASE CreateDecoder \/ CreateDecoderFails
  <2>1. decPc = "not created"
    BY <1>0, <1>8 DEF CreateDecoder, CreateDecoderFails, CourseInv
  <2> QED
    BY <1>0, <1>8, <2>1 DEF CreateDecoder, CreateDecoderFails, Abort
<1>9. CASE TryPopFrame
  <2>1. <<Head(frameQ)>> \in Hand
    BY <1>0, <1>9, TakenType DEF TryPopFrame, Queues
  <2> QED
    BY <1>0, <1>a, <1>9, <2>1 DEF TryPopFrame
<1>10. CASE Quit \/ NoQuit \/ TryPopNothing \/ TryPopEnds \/ Render \/ RenderFails
  BY <1>0, <1>a, <1>10 DEF Quit, NoQuit, TryPopNothing, TryPopEnds, Render, RenderFails, Abort
<1>11. CASE StopFrames \/ StopPackets \/ Shutdown \/ Close \/ LastPacketStop \/ LastFrameStop
            \/ JoinAndDestroy
  BY <1>0, <1>11 DEF StopFrames, StopPackets, Shutdown, Close, LastPacketStop,
                     LastFrameStop, JoinAndDestroy
<1>12. CASE UNCHANGED vars
  BY <1>0, <1>12, Stutter DEF Same
<1> QED
  BY <1>1, <1>2, <1>3, <1>4, <1>5, <1>6, <1>7, <1>8, <1>9, <1>10, <1>11, <1>12
     DEF Next, TcpStep, DecoderStep, MainStep, Faults, Finished

LEMMA QueueStep == ASSUME IInv, [Next]_vars PROVE Queues' /\ Counters'
<1>0. TypeOK /\ Queues /\ Counters /\ HandsOK /\ WireInv
  BY TypeParts DEF IInv
<1>a. /\ <<>> \in Seq(Numbers) /\ Len(<<>>) = 0 /\ 0 <= PacketCap /\ 0 <= FrameCap
      /\ PacketCap \in Nat /\ FrameCap \in Nat /\ Len(packetQ) \in Nat /\ Len(frameQ) \in Nat
  BY <1>0, EmptySeq, Bounds, LenProperties DEF Queues
<1> USE DEF Queues, Counters, client, queues, tcp, dec, screen, causes, MainGoes
<1>1. CASE ClientSends
  <2>1. sent' = sent + 1 /\ sent < MaxPackets /\ wire' = Append(wire, sent + 1)
    BY <1>1 DEF ClientSends
  <2>2. sent + 1 \in Numbers /\ sent + 1 \in 0 .. MaxPackets
    BY <1>0, <2>1, Bounds DEF Numbers
  <2>3. wire' \in Seq(Numbers)
    BY <1>0, <2>1, <2>2, AppendProperties
  <2> QED
    BY <1>0, <1>1, <2>1, <2>2, <2>3 DEF ClientSends
<1>2. CASE RecvPacket
  <2>1. wire' \in Seq(Numbers)
    BY <1>0, <1>2, TakenType DEF RecvPacket
  <2>2. received + 1 \in 0 .. MaxPackets
    BY <1>0, <1>2, WireFacts, Bounds DEF RecvPacket, Numbers
  <2> QED
    BY <1>0, <1>2, <2>1, <2>2 DEF RecvPacket
<1>3. CASE RecvEnter \/ RecvEnds \/ RecvFails \/ PushPacketRefused \/ PushPacketFails
           \/ TcpStop \/ ClientLeaves
  BY <1>0, <1>3 DEF RecvEnter, RecvEnds, RecvFails, PushPacketRefused,
                    PushPacketFails, TcpStop, ClientLeaves
<1>4. CASE PushPacket
  <2>1. Len(packetQ) < PacketCap /\ packetQ' = packetQ \o tcpPacket
    BY <1>4 DEF PushPacket, PacketPush
  <2>2. packetQ' \in Seq(Numbers) /\ Len(packetQ') <= Len(packetQ) + 1
    BY <1>0, <2>1, PutType DEF HandsOK
  <2>3. Len(packetQ') <= PacketCap
    BY <1>a, <2>1, <2>2, LenProperties
  <2> QED
    BY <1>0, <1>4, <2>2, <2>3 DEF PushPacket
<1>5. CASE PopPacket
  <2>1. packetQ' \in Seq(Numbers) /\ Len(packetQ') = Len(packetQ) - 1
    BY <1>0, <1>5, TakenType DEF PopPacket
  <2>2. Len(packetQ') <= PacketCap
    BY <1>0, <1>a, <2>1
  <2> QED
    BY <1>0, <1>5, <2>1, <2>2 DEF PopPacket
<1>6. CASE Feed
  <2>1. inside' \in Seq(Numbers)
    BY <1>0, <1>6, PutType DEF Feed, HandsOK
  <2> QED
    BY <1>0, <1>6, <2>1 DEF Feed
<1>7. CASE Emit
  <2>1. inside' \in Seq(Numbers)
    BY <1>0, <1>7, TakenType DEF Emit
  <2> QED
    BY <1>0, <1>7, <2>1 DEF Emit
<1>8. CASE PushFrame
  <2>1. Len(frameQ) < FrameCap /\ frameQ' = frameQ \o decFrame
    BY <1>8 DEF PushFrame
  <2>2. frameQ' \in Seq(Numbers) /\ Len(frameQ') <= Len(frameQ) + 1
    BY <1>0, <2>1, PutType DEF HandsOK
  <2>3. Len(frameQ') <= FrameCap
    BY <1>a, <2>1, <2>2, LenProperties
  <2> QED
    BY <1>0, <1>8, <2>2, <2>3 DEF PushFrame
<1>9. CASE FFmpegFails \/ PushFrameRefused \/ PushFrameFails
  <2>1. inside' \in Seq(Numbers)
    BY <1>0, <1>9, RemainsType DEF FFmpegFails, PushFrameRefused, PushFrameFails, GiveUp
  <2> QED
    BY <1>0, <1>9, <2>1 DEF FFmpegFails, PushFrameRefused, PushFrameFails
<1>10. CASE PopEnds \/ DecodeReturns \/ FlushReturns \/ DecoderStop
  BY <1>0, <1>10 DEF PopEnds, DecodeReturns, FlushReturns, DecoderStop
<1>11. CASE TryPopFrame
  <2>1. frameQ' \in Seq(Numbers) /\ Len(frameQ') = Len(frameQ) - 1
    BY <1>0, <1>11, TakenType DEF TryPopFrame
  <2>2. Len(frameQ') <= FrameCap
    BY <1>0, <1>a, <2>1
  <2> QED
    BY <1>0, <1>11, <2>1, <2>2 DEF TryPopFrame
<1>12. CASE Render
  <2>1. shown' \in Seq(Numbers)
    BY <1>0, <1>12, PutType DEF Render, HandsOK
  <2> QED
    BY <1>0, <1>12, <2>1 DEF Render
<1>13. CASE CreateDecoder \/ CreateDecoderFails \/ Quit \/ NoQuit \/ RenderFails
  BY <1>0, <1>13 DEF CreateDecoder, CreateDecoderFails, Quit, NoQuit, RenderFails, Abort
<1>14. CASE TryPopNothing \/ TryPopEnds \/ StopFrames \/ StopPackets \/ Shutdown \/ Close
            \/ LastPacketStop \/ LastFrameStop
  BY <1>0, <1>14 DEF TryPopNothing, TryPopEnds, StopFrames, StopPackets, Shutdown, Close,
                     LastPacketStop, LastFrameStop
<1>15. CASE JoinAndDestroy
  BY <1>0, <1>a, <1>15 DEF JoinAndDestroy
<1>16. CASE UNCHANGED vars
  BY <1>0, <1>16, Stutter DEF Same
<1> QED
  BY <1>1, <1>2, <1>3, <1>4, <1>5, <1>6, <1>7, <1>8, <1>9, <1>10, <1>11, <1>12, <1>13,
     <1>14, <1>15, <1>16
     DEF Next, TcpStep, DecoderStep, MainStep, Faults, Finished

\* The wire.
LEMMA WireStep == ASSUME IInv, [Next]_vars PROVE WireInv'
<1>0. TypeOK /\ WireInv /\ Counters /\ Queues
  BY TypeParts DEF IInv
<1> USE DEF client, queues, tcp, dec, screen, causes, MainGoes
<1>1. CASE ClientSends
  <2> DEFINE n == sent - received
             t == [k \in 1 .. n + 1 |-> received + k]
  <2>1. sent' = sent + 1 /\ received' = received /\ wire' = Append(wire, sent + 1)
        /\ sent < MaxPackets
    BY <1>1 DEF ClientSends
  <2>2. n \in Nat /\ wire = [k \in 1 .. n |-> received + k] /\ received + n = sent
        /\ received \in Nat /\ received + (n + 1) <= MaxPackets /\ n + 1 \in Nat
        /\ sent' - received' = n + 1 /\ received' <= sent' /\ sent + 1 \in Numbers
    BY <1>0, <2>1, Bounds DEF WireInv, Counters, Numbers
  <2>3. wire \in Seq(Numbers) /\ Len(wire) = n
    BY <1>0, <2>2, Consecutive DEF Queues
  <2>4. t \in Seq(Numbers) /\ Len(t) = n + 1
    BY <2>2, Consecutive
  <2>5. /\ wire' \in Seq(Numbers) /\ Len(wire') = n + 1
        /\ \A i \in 1 .. n : wire'[i] = wire[i]
        /\ wire'[n + 1] = sent + 1
    BY <2>1, <2>2, <2>3, AppendProperties
  <2>6. ASSUME NEW i \in 1 .. n + 1 PROVE wire'[i] = t[i]
    <3>1. CASE i = n + 1
      <4>1. t[i] = received + (n + 1) /\ received + (n + 1) = sent + 1
        BY <2>2, <3>1
      <4> QED
        BY <2>5, <3>1, <4>1
    <3>2. CASE i \in 1 .. n
      BY <2>2, <2>5, <3>2
    <3> QED
      BY <2>2, <3>1, <3>2
  <2>7. wire' = t
    BY <2>4, <2>5, <2>6, SeqEqual
  <2> QED
    BY <2>1, <2>2, <2>7 DEF WireInv
<1>2. CASE RecvPacket
  BY <1>0, <1>2, WireFacts DEF RecvPacket, WireInv
<1>3. CASE UNCHANGED <<wire, sent, received>>
  BY <1>0, <1>3 DEF WireInv
<1>4. CASE RecvEnter \/ RecvEnds \/ RecvFails \/ PushPacket \/ PushPacketRefused
           \/ PushPacketFails \/ TcpStop \/ ClientLeaves
  BY <1>3, <1>4 DEF RecvEnter, RecvEnds, RecvFails, PushPacket, PushPacketRefused,
                    PushPacketFails, TcpStop, ClientLeaves
<1>5. CASE DecoderStep \/ FFmpegFails \/ PushFrameFails
  BY <1>3, <1>5 DEF DecoderStep, PopPacket, PopEnds, Feed, Emit, PushFrame,
                    PushFrameRefused, DecodeReturns, FlushReturns, DecoderStop,
                    FFmpegFails, PushFrameFails
<1>6. CASE MainStep \/ CreateDecoderFails \/ RenderFails \/ Quit
  BY <1>3, <1>6
     DEF MainStep, CreateDecoder, CreateDecoderFails, Quit, NoQuit, TryPopFrame,
         TryPopNothing, TryPopEnds, Render, RenderFails, StopFrames, StopPackets,
         Shutdown, Close, LastPacketStop, LastFrameStop, JoinAndDestroy, Abort
<1>7. CASE UNCHANGED vars
  BY <1>3, <1>7, Stutter DEF Same
<1> QED
  BY <1>1, <1>2, <1>4, <1>5, <1>6, <1>7 DEF Next, TcpStep, Faults, Finished

\* The course of a normal end.
LEMMA CourseStep == ASSUME IInv, [Next]_vars PROVE CourseInv'
<1>0. CourseInv /\ Flags /\ Flags'
  BY FlagStep, TypeParts DEF IInv
<1> USE DEF CourseInv, Flags, client, queues, tcp, dec, screen, causes, MainGoes
<1>1. CASE ClientSends \/ ClientLeaves
  BY <1>0, <1>1 DEF ClientSends, ClientLeaves
<1>2. CASE RecvEnter \/ RecvPacket \/ RecvEnds \/ RecvFails
  BY <1>0, <1>2 DEF RecvEnter, RecvPacket, RecvEnds, RecvFails
<1>3. CASE PushPacket \/ PushPacketRefused \/ PushPacketFails \/ TcpStop
  BY <1>0, <1>3 DEF PushPacket, PushPacketRefused, PushPacketFails, TcpStop
<1>4. CASE PopPacket \/ PopEnds \/ Feed
  BY <1>0, <1>4 DEF PopPacket, PopEnds, Feed, PacketsEnd
<1>5. CASE Emit \/ PushFrame \/ DecodeReturns
  BY <1>0, <1>5 DEF Emit, PushFrame, DecodeReturns
<1>6. CASE FFmpegFails \/ PushFrameRefused \/ PushFrameFails
  BY <1>0, <1>6 DEF FFmpegFails, PushFrameRefused, PushFrameFails, GiveUp
<1>7. CASE FlushReturns \/ DecoderStop
  BY <1>0, <1>7 DEF FlushReturns, DecoderStop, Drained
<1>8. CASE CreateDecoder \/ NoQuit \/ TryPopFrame \/ TryPopNothing
  BY <1>0, <1>8 DEF CreateDecoder, NoQuit, TryPopFrame, TryPopNothing
<1>9. CASE CreateDecoderFails \/ Quit \/ RenderFails
  BY <1>0, <1>9 DEF CreateDecoderFails, Quit, RenderFails, Abort
<1>10. CASE TryPopEnds \/ Render
  BY <1>0, <1>10 DEF TryPopEnds, FramesEnd, Render
<1>11. CASE StopFrames \/ StopPackets \/ Shutdown \/ Close
  BY <1>0, <1>11 DEF StopFrames, StopPackets, Shutdown, Close
<1>12. CASE LastPacketStop \/ LastFrameStop \/ JoinAndDestroy
  BY <1>0, <1>12 DEF LastPacketStop, LastFrameStop, JoinAndDestroy
<1>13. CASE UNCHANGED vars
  BY <1>0, <1>13, Stutter DEF Same
<1> QED
  BY <1>1, <1>2, <1>3, <1>4, <1>5, <1>6, <1>7, <1>8, <1>9, <1>10, <1>11, <1>12, <1>13
     DEF Next, TcpStep, DecoderStep, MainStep, Faults, Finished

LEMMA TypeStep == ASSUME IInv, [Next]_vars PROVE TypeOK'
<1>1. Flags /\ Labels
  BY TypeParts DEF IInv
<1>2. Counters' /\ Queues' /\ HandsOK' /\ Flags' /\ Labels'
  BY <1>1, HandStep, QueueStep, FlagStep, LabelStep
<1> QED
  BY <1>2 DEF TypeOK, Counters, Queues, HandsOK, Flags, Labels

-----------------------------------------------------------------------------
(* Line, put together from its left end.                                   *)

Upto1 == shown \o mainFrame
Upto2 == Upto1 \o frameQ
Upto3 == Upto2 \o decFrame
Upto4 == Upto3 \o inside
Upto5 == Upto4 \o decPacket
Upto6 == Upto5 \o packetQ

LineParts == /\ shown \in Seq(Nat) /\ mainFrame \in Seq(Nat) /\ frameQ \in Seq(Nat)
             /\ decFrame \in Seq(Nat) /\ inside \in Seq(Nat) /\ decPacket \in Seq(Nat)
             /\ packetQ \in Seq(Nat) /\ tcpPacket \in Seq(Nat)
LineSeqs  == /\ Upto1 \in Seq(Nat) /\ Upto2 \in Seq(Nat) /\ Upto3 \in Seq(Nat)
             /\ Upto4 \in Seq(Nat) /\ Upto5 \in Seq(Nat) /\ Upto6 \in Seq(Nat)
             /\ Line \in Seq(Nat)
LineIs    == Line = Upto6 \o tcpPacket

LEMMA LineShape == LineIs
BY DEF LineIs, Line, Upto1, Upto2, Upto3, Upto4, Upto5, Upto6

LEMMA LineTypes == ASSUME TypeOK PROVE LineParts /\ LineSeqs
<1>1. LineParts
  BY Hands, NumberSeqs, TypeParts DEF Queues, HandsOK, LineParts
<1>2. Upto1 \in Seq(Nat) /\ Upto2 \in Seq(Nat) /\ Upto3 \in Seq(Nat)
  BY <1>1, ConcatProperties DEF LineParts, Upto1, Upto2, Upto3
<1>3. Upto4 \in Seq(Nat) /\ Upto5 \in Seq(Nat) /\ Upto6 \in Seq(Nat)
  BY <1>1, <1>2, ConcatProperties DEF LineParts, Upto4, Upto5, Upto6
<1>4. Line \in Seq(Nat)
  BY <1>1, <1>3, LineShape, ConcatProperties DEF LineParts, LineIs
<1> QED
  BY <1>1, <1>2, <1>3, <1>4 DEF LineSeqs

\* What a step may take out of each place, it takes out of Line.
LEMMA LineThins ==
    ASSUME LineParts, LineSeqs, LineParts', LineSeqs',
           Thins(shown', shown), Thins(mainFrame', mainFrame), Thins(frameQ', frameQ),
           Thins(decFrame', decFrame), Thins(inside', inside), Thins(decPacket', decPacket),
           Thins(packetQ', packetQ), Thins(tcpPacket', tcpPacket)
    PROVE  Thins(Line', Line)
<1> USE DEF LineParts, LineSeqs
<1>1. Thins(Upto1', Upto1)
  BY ThinConcat DEF Upto1
<1>2. Thins(Upto2', Upto2)
  BY <1>1, ThinConcat DEF Upto2
<1>3. Thins(Upto3', Upto3)
  BY <1>2, ThinConcat DEF Upto3
<1>4. Thins(Upto4', Upto4)
  BY <1>3, ThinConcat DEF Upto4
<1>5. Thins(Upto5', Upto5)
  BY <1>4, ThinConcat DEF Upto5
<1>6. Thins(Upto6', Upto6)
  BY <1>5, ThinConcat DEF Upto6
<1>7. Thins(Upto6' \o tcpPacket', Upto6 \o tcpPacket)
  BY <1>6, ThinConcat
<1>8. LineIs /\ LineIs'
  BY LineShape, PTL
<1> QED
  BY <1>7, <1>8 DEF LineIs

\* The three things a step can do to Line.
Keeps    == Line' = Line /\ received' = received
Extends  == Line' = Line \o <<received + 1>> /\ received' = received + 1
Loses    == Thins(Line', Line) /\ received' = received
Excused  == aborted \/ oom \/ decoder_error \/ flushFailed
Remember == Excused => Excused'

LEMMA KeepLine ==
    ASSUME IInv, Keeps, Remember PROVE LineInv' /\ NothingLost'
BY DEF IInv, Keeps, Remember, Excused, LineInv, NothingLost, Rising

LEMMA LoseLine ==
    ASSUME IInv, TypeOK', Loses, Excused' PROVE LineInv' /\ NothingLost'
<1>1. Line \in Seq(Nat) /\ Line' \in Seq(Nat) /\ received' = received /\ LineInv
      /\ Thins(Line', Line)
  <2>1. LineSeqs'
    BY LineTypes, PTL
  <2> QED
    BY <2>1, LineTypes DEF LineSeqs, Loses, IInv
<1>2. Rising(Line')
  BY <1>1 DEF LineInv, Thins
<1>3. ASSUME NEW i \in 1 .. Len(Line') PROVE Line'[i] \in 1 .. received'
  <2>1. PICK k \in 1 .. Len(Line) : Line'[i] = Line[k]
    BY <1>1 DEF Thins
  <2> QED
    BY <1>1, <2>1 DEF LineInv
<1> QED
  BY <1>2, <1>3 DEF LineInv, Rising, NothingLost, Excused

LEMMA ExtendLine ==
    ASSUME IInv, Extends, UNCHANGED <<aborted, oom, decoder_error, flushFailed>>
    PROVE  LineInv' /\ NothingLost'
<1>1. /\ Line \in Seq(Nat) /\ received \in Nat /\ LineInv /\ NothingLost
      /\ Line' = Line \o <<received + 1>> /\ received' = received + 1
  <2>1. TypeOK
    BY DEF IInv
  <2>2. Line \in Seq(Nat)
    BY <2>1, LineTypes DEF LineSeqs
  <2>3. received \in Nat
    BY <2>1, TypeParts, Bounds DEF Counters
  <2> QED
    BY <2>2, <2>3 DEF Extends, IInv
<1> DEFINE n == Len(Line)
<1>2. /\ n \in Nat /\ Len(Line') = n + 1 /\ Line'[n + 1] = received + 1
      /\ \A i \in 1 .. n : Line'[i] = Line[i]
      /\ Line' \in Seq(Nat)
  <2>1. <<received + 1>> \in Seq(Nat) /\ Len(<<received + 1>>) = 1
        /\ <<received + 1>>[1] = received + 1
    BY <1>1
  <2> QED
    BY <1>1, <2>1, ConcatProperties, LenProperties
<1>3. \A i \in 1 .. n : Line[i] \in 1 .. received
  BY <1>1 DEF LineInv
<1>4. Rising(Line)
  BY <1>1 DEF LineInv
<1> HIDE DEF n
<1>5. \A i \in 1 .. n, j \in 1 .. n : i < j => Line[i] < Line[j]
  BY <1>4 DEF Rising, n
<1>6. \A i \in 1 .. n + 1 : Line'[i] \in 1 .. received + 1
  <2>1. ASSUME NEW i \in 1 .. n + 1 PROVE Line'[i] \in 1 .. received + 1
    <3>1. CASE i = n + 1
      BY <1>1, <1>2, <3>1
    <3>2. CASE i \in 1 .. n
      BY <1>1, <1>2, <1>3, <3>2
    <3> QED
      BY <1>2, <3>1, <3>2
  <2> QED
    BY <2>1
<1>7. Rising(Line')
  <2>1. ASSUME NEW i \in 1 .. n + 1, NEW j \in 1 .. n + 1, i < j PROVE Line'[i] < Line'[j]
    <3>1. i \in 1 .. n /\ Line'[i] = Line[i] /\ Line[i] \in 1 .. received
      BY <1>2, <1>3, <2>1
    <3>2. CASE j = n + 1
      BY <1>1, <1>2, <3>1, <3>2, SMTT(60)
    <3>3. CASE j \in 1 .. n
      BY <1>2, <1>5, <2>1, <3>1, <3>3
    <3> QED
      BY <1>2, <3>2, <3>3
  <2> QED
    BY <1>2, <2>1 DEF Rising
<1>8. NothingLost'
  <2>1. SUFFICES ASSUME ~aborted', ~oom', ~decoder_error', ~flushFailed'
                 PROVE  Line' = [k \in 1 .. received + 1 |-> k]
    BY <1>1 DEF NothingLost
  <2>2. Line = [k \in 1 .. received |-> k]
    BY <1>1, <2>1 DEF NothingLost
  <2> DEFINE t == [k \in 1 .. received + 1 |-> k]
  <2>3. t \in Seq(Nat) /\ Len(t) = received + 1
    <3>1. t \in [1 .. received + 1 -> Nat] /\ received + 1 \in Nat
      BY <1>1
    <3>2. t \in Seq(Nat)
      BY <3>1, SeqDef
    <3> QED
      BY <3>1, <3>2, LenProperties
  <2>4. n = received
    BY <1>1, <2>2, LenProperties DEF n
  <2>5. ASSUME NEW i \in 1 .. received + 1 PROVE Line'[i] = t[i]
    BY <1>1, <1>2, <2>2, <2>4
  <2> QED
    BY <1>2, <2>3, <2>4, <2>5, SeqEqual
<1> QED
  BY <1>1, <1>2, <1>6, <1>7, <1>8 DEF LineInv

LEMMA LineStep == ASSUME IInv, [Next]_vars PROVE LineInv' /\ NothingLost'
<1>0. /\ TypeOK /\ TypeOK' /\ HandInv /\ CourseInv /\ NothingLost
      /\ LineParts /\ LineSeqs /\ LineParts' /\ LineSeqs' /\ LineIs /\ LineIs'
  <2>1. TypeOK /\ TypeOK'
    BY TypeStep DEF IInv
  <2>2. LineParts' /\ LineSeqs'
    BY <2>1, LineTypes, PTL
  <2>3. LineIs /\ LineIs'
    BY LineShape, PTL
  <2> QED
    BY <2>1, <2>2, <2>3, LineTypes DEF IInv
<1> USE DEF client, queues, tcp, dec, screen, causes, MainGoes
<1>k. ASSUME UNCHANGED <<shown, mainFrame, frameQ, decFrame, inside, decPacket, packetQ,
                         tcpPacket, received>>,
             Remember
      PROVE  LineInv' /\ NothingLost'
  <2>1. Line' = Line
    BY <1>k DEF Line
  <2> QED
    BY <1>k, <2>1, KeepLine DEF Keeps
<1>1. CASE ClientSends \/ ClientLeaves \/ RecvEnter \/ RecvEnds \/ RecvFails \/ TcpStop
           \/ PopEnds \/ DecodeReturns \/ FlushReturns \/ DecoderStop
           \/ CreateDecoder \/ NoQuit \/ TryPopNothing \/ TryPopEnds
           \/ StopFrames \/ StopPackets \/ Shutdown \/ Close
           \/ LastPacketStop \/ LastFrameStop
  <2>1. UNCHANGED <<shown, mainFrame, frameQ, decFrame, inside, decPacket, packetQ,
                    tcpPacket, received, aborted, oom, decoder_error, flushFailed>>
    BY <1>1 DEF ClientSends, ClientLeaves, RecvEnter, RecvEnds, RecvFails, TcpStop,
                PopEnds, DecodeReturns, FlushReturns, DecoderStop, CreateDecoder, NoQuit,
                TryPopNothing, TryPopEnds, StopFrames, StopPackets, Shutdown, Close,
                LastPacketStop, LastFrameStop
  <2> QED
    BY <1>k, <2>1 DEF Remember, Excused
<1>2. CASE CreateDecoderFails \/ Quit
  <2>1. UNCHANGED <<shown, mainFrame, frameQ, decFrame, inside, decPacket, packetQ,
                    tcpPacket, received>> /\ aborted'
    BY <1>2 DEF CreateDecoderFails, Quit, Abort
  <2> QED
    BY <1>k, <2>1 DEF Remember, Excused
<1>3. CASE UNCHANGED vars
  BY <1>3, <1>k, Stutter DEF Same, Remember, Excused
<1>4. CASE RecvPacket
  <2>1. /\ UNCHANGED <<shown, mainFrame, frameQ, decFrame, inside, decPacket, packetQ>>
        /\ UNCHANGED <<aborted, oom, decoder_error, flushFailed>>
        /\ tcpPacket = <<>> /\ tcpPacket' = <<Head(wire)>> /\ received' = received + 1
    BY <1>0, <1>4 DEF RecvPacket, HandInv, None
  <2>2. Head(wire) = received + 1
    BY <1>0, <1>4, WireFacts DEF RecvPacket, IInv
  <2>3. Upto6' = Upto6
    BY <2>1 DEF Upto6, Upto5, Upto4, Upto3, Upto2, Upto1
  <2>4. Line = Upto6
    BY <1>0, <2>1, ConcatEmptySeq DEF LineIs, LineSeqs
  <2>5. Line' = Line \o <<received + 1>>
    BY <1>0, <2>1, <2>2, <2>3, <2>4 DEF LineIs
  <2> QED
    BY <2>1, <2>5, ExtendLine DEF Extends
<1>5. CASE PushPacket
  <2>1. /\ UNCHANGED <<shown, mainFrame, frameQ, decFrame, inside, decPacket, received>>
        /\ UNCHANGED <<aborted, oom, decoder_error, flushFailed>>
        /\ packetQ' = packetQ \o tcpPacket /\ tcpPacket' = <<>>
    BY <1>5 DEF PushPacket, PacketPush, None
  <2>2. Upto5' = Upto5
    BY <2>1 DEF Upto5, Upto4, Upto3, Upto2, Upto1
  <2>3. (Upto5 \o (packetQ \o tcpPacket)) \o <<>> = (Upto5 \o packetQ) \o tcpPacket
    <3>1. Upto5 \in Seq(Nat) /\ packetQ \in Seq(Nat) /\ tcpPacket \in Seq(Nat)
      BY <1>0 DEF LineParts, LineSeqs
    <3> QED
      BY <3>1, MoveAll
  <2>4. Line' = Line
    BY <1>0, <2>1, <2>2, <2>3 DEF LineIs, Upto6
  <2> QED
    BY <2>1, <2>4, KeepLine DEF Keeps, Remember, Excused
<1>6. CASE PopPacket
  <2>1. /\ UNCHANGED <<shown, mainFrame, frameQ, decFrame, inside, tcpPacket, received>>
        /\ UNCHANGED <<aborted, oom, decoder_error, flushFailed>>
        /\ packetQ # <<>> /\ packetQ' = Tail(packetQ)
        /\ decPacket = <<>> /\ decPacket' = <<Head(packetQ)>>
    BY <1>0, <1>6 DEF PopPacket, HandInv, None
  <2>2. Upto4' = Upto4
    BY <2>1 DEF Upto4, Upto3, Upto2, Upto1
  <2>3. (Upto4 \o <<Head(packetQ)>>) \o Tail(packetQ) = (Upto4 \o <<>>) \o packetQ
    BY <1>0, <2>1, MoveHead DEF LineParts, LineSeqs
  <2>4. Upto6' = Upto6
    BY <2>1, <2>2, <2>3 DEF Upto6, Upto5
  <2>5. Line' = Line
    BY <1>0, <2>1, <2>4 DEF LineIs
  <2> QED
    BY <2>1, <2>5, KeepLine DEF Keeps, Remember, Excused
<1>7. CASE Feed
  <2>1. /\ UNCHANGED <<shown, mainFrame, frameQ, decFrame, packetQ, tcpPacket, received>>
        /\ UNCHANGED <<aborted, oom, decoder_error, flushFailed>>
        /\ inside' = inside \o decPacket /\ decPacket' = <<>>
    BY <1>7 DEF Feed, None
  <2>2. Upto3' = Upto3
    BY <2>1 DEF Upto3, Upto2, Upto1
  <2>3. (Upto3 \o (inside \o decPacket)) \o <<>> = (Upto3 \o inside) \o decPacket
    <3>1. Upto3 \in Seq(Nat) /\ inside \in Seq(Nat) /\ decPacket \in Seq(Nat)
      BY <1>0 DEF LineParts, LineSeqs
    <3> QED
      BY <3>1, MoveAll
  <2>4. Upto5' = Upto5
    BY <2>1, <2>2, <2>3 DEF Upto5, Upto4
  <2>5. Line' = Line
    BY <1>0, <2>1, <2>4 DEF LineIs, Upto6
  <2> QED
    BY <2>1, <2>5, KeepLine DEF Keeps, Remember, Excused
<1>8. CASE Emit
  <2>1. /\ UNCHANGED <<shown, mainFrame, frameQ, decPacket, packetQ, tcpPacket, received>>
        /\ UNCHANGED <<aborted, oom, decoder_error, flushFailed>>
        /\ inside # <<>> /\ inside' = Tail(inside)
        /\ decFrame = <<>> /\ decFrame' = <<Head(inside)>>
    BY <1>0, <1>8 DEF Emit, HandInv, None
  <2>2. Upto2' = Upto2
    BY <2>1 DEF Upto2, Upto1
  <2>3. (Upto2 \o <<Head(inside)>>) \o Tail(inside) = (Upto2 \o <<>>) \o inside
    BY <1>0, <2>1, MoveHead DEF LineParts, LineSeqs
  <2>4. Upto4' = Upto4
    BY <2>1, <2>2, <2>3 DEF Upto4, Upto3
  <2>5. Line' = Line
    BY <1>0, <2>1, <2>4 DEF LineIs, Upto6, Upto5
  <2> QED
    BY <2>1, <2>5, KeepLine DEF Keeps, Remember, Excused
<1>9. CASE PushFrame
  <2>1. /\ UNCHANGED <<shown, mainFrame, inside, decPacket, packetQ, tcpPacket, received>>
        /\ UNCHANGED <<aborted, oom, decoder_error, flushFailed>>
        /\ frameQ' = frameQ \o decFrame /\ decFrame' = <<>>
    BY <1>9 DEF PushFrame, None
  <2>2. Upto1' = Upto1
    BY <2>1 DEF Upto1
  <2>3. (Upto1 \o (frameQ \o decFrame)) \o <<>> = (Upto1 \o frameQ) \o decFrame
    <3>1. Upto1 \in Seq(Nat) /\ frameQ \in Seq(Nat) /\ decFrame \in Seq(Nat)
      BY <1>0 DEF LineParts, LineSeqs
    <3> QED
      BY <3>1, MoveAll
  <2>4. Upto3' = Upto3
    BY <2>1, <2>2, <2>3 DEF Upto3, Upto2
  <2>5. Line' = Line
    BY <1>0, <2>1, <2>4 DEF LineIs, Upto6, Upto5, Upto4
  <2> QED
    BY <2>1, <2>5, KeepLine DEF Keeps, Remember, Excused
<1>10. CASE TryPopFrame
  <2>1. /\ UNCHANGED <<shown, decFrame, inside, decPacket, packetQ, tcpPacket, received>>
        /\ UNCHANGED <<aborted, oom, decoder_error, flushFailed>>
        /\ frameQ # <<>> /\ frameQ' = Tail(frameQ)
        /\ mainFrame = <<>> /\ mainFrame' = <<Head(frameQ)>>
    BY <1>0, <1>10 DEF TryPopFrame, HandInv, None
  <2>2. (shown \o <<Head(frameQ)>>) \o Tail(frameQ) = (shown \o <<>>) \o frameQ
    BY <1>0, <2>1, MoveHead DEF LineParts
  <2>3. Upto2' = Upto2
    BY <2>1, <2>2 DEF Upto2, Upto1
  <2>4. Line' = Line
    BY <1>0, <2>1, <2>3 DEF LineIs, Upto6, Upto5, Upto4, Upto3
  <2> QED
    BY <2>1, <2>4, KeepLine DEF Keeps, Remember, Excused
<1>11. CASE Render
  <2>1. /\ UNCHANGED <<frameQ, decFrame, inside, decPacket, packetQ, tcpPacket, received>>
        /\ UNCHANGED <<aborted, oom, decoder_error, flushFailed>>
        /\ shown' = shown \o mainFrame /\ mainFrame' = <<>>
    BY <1>11 DEF Render, None
  <2>2. (shown \o mainFrame) \o <<>> = shown \o mainFrame
    BY <1>0, ConcatEmptySeq DEF LineSeqs, Upto1
  <2>3. Upto1' = Upto1
    BY <2>1, <2>2 DEF Upto1
  <2>4. Line' = Line
    BY <1>0, <2>1, <2>3 DEF LineIs, Upto6, Upto5, Upto4, Upto3, Upto2
  <2> QED
    BY <2>1, <2>4, KeepLine DEF Keeps, Remember, Excused
<1>l. ASSUME Excused', received' = received,
             Thins(shown', shown), Thins(mainFrame', mainFrame), Thins(frameQ', frameQ),
             Thins(decFrame', decFrame), Thins(inside', inside),
             Thins(decPacket', decPacket), Thins(packetQ', packetQ),
             Thins(tcpPacket', tcpPacket)
      PROVE  LineInv' /\ NothingLost'
  <2>1. Thins(Line', Line)
    BY <1>0, <1>l, LineThins
  <2> QED
    BY <1>0, <1>l, <2>1, LoseLine DEF Loses
<1>t. /\ Thins(shown, shown) /\ Thins(mainFrame, mainFrame) /\ Thins(<<>>, mainFrame)
      /\ Thins(frameQ, frameQ) /\ Thins(<<>>, frameQ)
      /\ Thins(decFrame, decFrame) /\ Thins(<<>>, decFrame) /\ Thins(inside, inside)
      /\ Thins(decPacket, decPacket) /\ Thins(<<>>, decPacket)
      /\ Thins(packetQ, packetQ) /\ Thins(<<>>, packetQ)
      /\ Thins(tcpPacket, tcpPacket) /\ Thins(<<>>, tcpPacket)
  BY <1>0, ThinCases DEF LineParts
<1>r. \A s \in Remains : Thins(s, inside)
  BY <1>0, ThinCases DEF LineParts, Remains
<1>12. CASE PushPacketRefused \/ PushPacketFails
  <2>1. /\ UNCHANGED <<shown, mainFrame, frameQ, decFrame, inside, decPacket, packetQ, received>>
        /\ tcpPacket' = <<>>
    BY <1>12 DEF PushPacketRefused, PushPacketFails, None
  <2>2. Excused'
    <3>1. CASE PushPacketRefused
      <4>1. aborted /\ aborted' = aborted
        BY <1>0, <3>1 DEF PushPacketRefused, CourseInv
      <4> QED
        BY <4>1 DEF Excused
    <3>2. CASE PushPacketFails
      BY <3>2 DEF PushPacketFails, Excused
    <3> QED
      BY <1>12, <3>1, <3>2
  <2> QED
    BY <1>l, <1>t, <2>1, <2>2
<1>13. CASE FFmpegFails \/ PushFrameRefused \/ PushFrameFails
  <2>1. /\ UNCHANGED <<shown, mainFrame, frameQ, packetQ, tcpPacket, received>>
        /\ decFrame' = <<>> /\ inside' \in Remains
        /\ decPacket' = <<>> \/ decPacket' = decPacket
    BY <1>13 DEF FFmpegFails, PushFrameRefused, PushFrameFails, GiveUp, None
  <2>2. decoder_error' = (decoder_error \/ ~flushing) /\ flushFailed' = (flushFailed \/ flushing)
    BY <1>13 DEF FFmpegFails, PushFrameRefused, PushFrameFails, GiveUp
  <2>3. Excused'
    BY <2>2, Zenon DEF Excused
  <2> QED
    BY <1>l, <1>t, <1>r, <2>1, <2>3
<1>14. CASE RenderFails
  <2>1. /\ UNCHANGED <<shown, frameQ, decFrame, inside, decPacket, packetQ, tcpPacket, received>>
        /\ mainFrame' = <<>> /\ aborted'
    BY <1>14 DEF RenderFails, Abort, None
  <2> QED
    BY <1>l, <1>t, <2>1 DEF Excused
<1>15. CASE JoinAndDestroy
  <2>1. /\ UNCHANGED <<shown, mainFrame, decFrame, inside, decPacket, tcpPacket, received>>
        /\ UNCHANGED <<aborted, oom, decoder_error, flushFailed>>
        /\ packetQ' = <<>> /\ frameQ' = <<>> /\ mainPc = "join" /\ decPc = "exit"
    BY <1>15 DEF JoinAndDestroy
  <2>2. CASE aborted
    <3>1. Excused'
      BY <2>1, <2>2 DEF Excused
    <3> QED
      BY <1>l, <1>t, <2>1, <3>1
  <2>3. CASE ~aborted
    <3>1. packetQ = <<>> /\ frameQ = <<>>
      BY <1>0, <2>1, <2>3 DEF CourseInv
    <3> QED
      BY <1>k, <2>1, <3>1 DEF Remember, Excused
  <2> QED
    BY <2>2, <2>3
<1> QED
  BY <1>1, <1>2, <1>3, <1>4, <1>5, <1>6, <1>7, <1>8, <1>9, <1>10, <1>11, <1>12, <1>13,
     <1>14, <1>15 DEF Next, TcpStep, DecoderStep, MainStep, Faults, Finished

-----------------------------------------------------------------------------
(* The theorems.                                                           *)

LEMMA Inductive == Spec => []IInv
<1>1. ASSUME Init PROVE IInv
  <2>1. TypeOK
    BY <1>1, TypeInit
  <2>2. HandInv
    BY <1>1 DEF Init, HandInv
  <2>3. Line = <<>> /\ received = 0 /\ sent = 0 /\ wire = <<>>
    BY <1>1, EmptySeq, ConcatEmptySeq DEF Init, Line, None
  <2>4. [k \in 1 .. 0 |-> k] = <<>> /\ [k \in 1 .. 0 |-> 0 + k] = <<>>
    BY EmptySeq
  <2>5. LineInv /\ WireInv
    BY <2>3, <2>4, EmptySeq DEF LineInv, WireInv, Rising
  <2>6. NothingLost
    BY <2>3, <2>4 DEF NothingLost
  <2>7. CourseInv
    BY <1>1 DEF Init, CourseInv
  <2> QED
    BY <2>1, <2>2, <2>5, <2>6, <2>7 DEF IInv
<1>2. ASSUME IInv, [Next]_vars PROVE IInv'
  BY <1>2, TypeStep, HandStep, WireStep, LineStep, CourseStep DEF IInv
<1> QED
  BY <1>1, <1>2, PTL DEF Spec

\* Every variable keeps its type, and neither queue outgrows its capacity.
THEOREM TypeCorrect == Spec => []TypeOK
BY Inductive, PTL DEF IInv

\* Frames reach the screen in the order their packets were received, none twice,
\* whatever is given up on the way.
THEOREM KeepsOrder == Spec => []InOrder
<1>1. IInv => InOrder
  <2>1. SUFFICES ASSUME IInv PROVE InOrder
    OBVIOUS
  <2>2. Line \in Seq(Nat) /\ Rising(Line)
    BY <2>1, LineTypes DEF LineSeqs, LineInv, IInv
  <2>3. DOMAIN Line = 1 .. Len(Line)
    BY <2>2, LenProperties
  <2> QED
    BY <2>2, <2>3 DEF InOrder, Rising
<1> QED
  BY <1>1, Inductive, PTL

\* Without an abort or a failure, every packet received is on the screen or on its
\* way to it.
THEOREM LosesNothing == Spec => []NothingLost
BY Inductive, PTL DEF IInv

\* At a normal end everything received is on the screen.
THEOREM DrainsAtExit == Spec => []DrainedAtExit
<1>1. IInv => DrainedAtExit
  <2>1. SUFFICES ASSUME IInv, mainPc = "exit", ~aborted, ~oom, ~decoder_error, ~flushFailed
                 PROVE  shown = [k \in 1 .. received |-> k]
    BY DEF DrainedAtExit
  <2>2. tcpPc = "exit" /\ decPc = "exit" /\ packetQ = <<>> /\ frameQ = <<>> /\ inside = <<>>
    BY <2>1 DEF IInv, CourseInv
  <2>3. tcpPacket = <<>> /\ decPacket = <<>> /\ decFrame = <<>> /\ mainFrame = <<>>
    BY <2>1, <2>2 DEF IInv, HandInv, None
  <2>4. shown \in Seq(Nat)
    BY <2>1, LineTypes DEF LineParts, IInv
  <2>5. Line = shown
    BY <2>2, <2>3, <2>4, ConcatEmptySeq DEF Line
  <2> QED
    BY <2>1, <2>5 DEF IInv, NothingLost
<1> QED
  BY <1>1, Inductive, PTL

-----------------------------------------------------------------------------
(* The display main drives, for every set of frame sizes, window sizes and *)
(* formats.  Its variables are its own: the pipeline sees each of its      *)
(* calls as one step.                                                      *)
(*                                                                         *)
(* The inductive invariant adds to the properties which objects exist at   *)
(* which label, what the cache says of the texture, and where a frame and  *)
(* its rectangle are defined.                                              *)

Opening == {"init sdl", "create window", "create renderer"}
Rendering == {"loop", "texture", "update", "rect", "present", "destroy texture"}
Closing == {"destroy renderer", "destroy window", "quit sdl"}
Drawing == {"update", "rect", "present"}

LiveInv ==
    live = CASE pc \in {"init sdl", "exit"} -> {}
             [] pc \in {"create window", "quit sdl"} -> {"video"}
             [] pc \in {"create renderer", "destroy window"} -> {"video", "window"}
             [] OTHER -> {"video", "window", "renderer"}

\* There is a texture only while the renderer is in use, and it is the one the
\* cache describes.
CacheInv ==
    /\ textures = {texture} \ {NULL}
    /\ pc \notin Rendering => texture = NULL
    /\ texture # NULL =>
           texture = [width |-> texture_width, height |-> texture_height,
                      format |-> PixelFormat[frame_format]]

ShownInv ==
    /\ initialized <=> pc \in Rendering \cup Closing
    /\ pc \in Drawing \cup {"texture"} => frame \in Frames /\ Supported(frame)
    /\ pc \in Drawing => /\ texture = TextureFor(frame) /\ texture # NULL
                         /\ texture_width = frame.width /\ texture_height = frame.height

RectInv == /\ pc \in Opening \cup {"loop", "texture", "update", "rect"} => dst_rect = NULL
           /\ Letterboxed

DisplayInv == DisplayTypeOK /\ LiveInv /\ CacheInv /\ ShownInv /\ RectInv

-----------------------------------------------------------------------------
(* Textures.                                                               *)

LEMMA Formatted ==
    ASSUME NEW f, Supported(f)
    PROVE  PixelFormat[f.format] \in {"IYUV", "NV12", "NV21"}
BY DEF Supported, PixelFormat

LEMMA TextureType ==
    ASSUME NEW f \in Frames, Supported(f)
    PROVE  TextureFor(f) \in Textures /\ TextureFor(f) # NULL
<1>1. PixelFormat[f.format] \in {"IYUV", "NV12", "NV21"}
  BY Formatted
<1>2. f.width \in Sides /\ f.height \in Sides
  BY DEF Frames
<1>3. TextureFor(f) \in Textures
  BY <1>1, <1>2 DEF TextureFor, Textures
<1>4. TextureFor(f) # NULL
  <2>1. "width" \in DOMAIN TextureFor(f)
    BY DEF TextureFor
  <2>2. "width" \notin DOMAIN NULL
    BY DEF NULL
  <2> QED
    BY <2>1, <2>2
<1> QED
  BY <1>3, <1>4

-----------------------------------------------------------------------------
(* The initial state.                                                      *)

LEMMA SideBounds == Sides \subseteq Nat \ {0} /\ WindowSides \subseteq Nat
BY DisplayAssumption DEF DisplayAssumption

LEMMA DisplayInvInit == ASSUME DisplayInit PROVE DisplayInv
<1> USE DEF DisplayInit
<1>1. DisplayTypeOK
  BY DEF DisplayTypeOK
<1>2. LiveInv /\ CacheInv /\ ShownInv
  BY DEF LiveInv, CacheInv, ShownInv, Rendering, Closing, Drawing
<1>3. RectInv
  BY DEF RectInv, Letterboxed, Opening
<1> QED
  BY <1>1, <1>2, <1>3 DEF DisplayInv

-----------------------------------------------------------------------------
(* Every step.                                                             *)

LEMMA DisplayTypeStep == ASSUME DisplayInv, [DisplayNext]_displayVars PROVE DisplayTypeOK'
<1> USE DEF DisplayTypeOK, DisplayInv, cached, objects, Goto, WithoutOld
<1>1. CASE InitSDL \/ CreateWindow \/ CreateRenderer
  BY <1>1 DEF InitSDL, CreateWindow, CreateRenderer, AfterRendererFails
<1>2. ASSUME NEW f \in Frames, RenderBegin(f) \/ RenderRefused(f)
      PROVE  DisplayTypeOK'
  BY <1>2 DEF RenderBegin, RenderRefused
<1>3. CASE \/ TextureKept \/ TextureFails \/ Update \/ CalculateRect
           \/ Present
  BY <1>3 DEF TextureKept, TextureFails, Update, CalculateRect, Present
<1>4. CASE TextureCreated
  <2>1. frame \in Frames /\ Supported(frame)
    BY <1>4 DEF ShownInv, TextureCreated
  <2>2. TextureFor(frame) \in Textures
    BY <2>1, TextureType
  <2>3. frame.width \in Sides /\ frame.height \in Sides /\ frame.format \in Formats
    BY <2>1 DEF Frames
  <2> QED
    BY <1>4, <2>2, <2>3 DEF TextureCreated
<1>5. CASE RenderFrameFails \/ PollQuit \/ Resize
  BY <1>5 DEF RenderFrameFails, PollQuit, Resize
<1>6. CASE DestroyTexture \/ DestroyRenderer \/ DestroyWindow \/ QuitSDL
  BY <1>6 DEF DestroyTexture, DestroyRenderer, DestroyWindow, QuitSDL
<1>7. CASE UNCHANGED displayVars
  BY <1>7 DEF displayVars
<1> QED
  BY <1>1, <1>2, <1>3, <1>4, <1>5, <1>6, <1>7 DEF DisplayNext, DisplayEnded

LEMMA ObjectsStep == ASSUME DisplayInv, [DisplayNext]_displayVars PROVE LiveInv'
<1> USE DEF LiveInv, DisplayInv, cached, objects, Goto
<1>1. CASE InitSDL \/ CreateWindow \/ CreateRenderer
  BY <1>1 DEF InitSDL, CreateWindow, CreateRenderer, AfterRendererFails
<1>2. ASSUME NEW f \in Frames, RenderBegin(f) \/ RenderRefused(f)
      PROVE  LiveInv'
  BY <1>2 DEF RenderBegin, RenderRefused
<1>3. CASE TextureKept \/ TextureCreated \/ TextureFails
  BY <1>3 DEF TextureKept, TextureCreated, TextureFails
<1>4. CASE \/ Update \/ CalculateRect \/ Present \/ RenderFrameFails
           \/ PollQuit \/ Resize
  BY <1>4 DEF Update, CalculateRect, Present, RenderFrameFails, PollQuit,
              Resize
<1>5. CASE DestroyTexture \/ DestroyRenderer \/ DestroyWindow \/ QuitSDL
  BY <1>5 DEF DestroyTexture, DestroyRenderer, DestroyWindow, QuitSDL,
              ShownInv, Rendering, Closing
<1>6. CASE UNCHANGED displayVars
  BY <1>6 DEF displayVars
<1> QED
  BY <1>1, <1>2, <1>3, <1>4, <1>5, <1>6 DEF DisplayNext, DisplayEnded

LEMMA CacheStep == ASSUME DisplayInv, [DisplayNext]_displayVars PROVE CacheInv' /\ ShownInv'
<1> USE DEF CacheInv, ShownInv, DisplayInv, cached, objects, Goto, Rendering,
            Closing, Drawing, WithoutOld
<1>1. CASE InitSDL \/ CreateWindow \/ CreateRenderer
  <2>1. CacheInv'
    BY <1>1 DEF InitSDL, CreateWindow, CreateRenderer
  <2>2. ShownInv'
    <3>1. CASE InitSDL
      BY <1>1, <3>1 DEF InitSDL
    <3>2. CASE CreateWindow
      BY <1>1, <3>2 DEF CreateWindow
    <3>3. CASE CreateRenderer
      <4>1. pc = "create renderer" /\ ~initialized
        BY <3>3 DEF CreateRenderer
      <4>2. (pc' = "loop" /\ initialized') \/ (pc' = "exit" /\ ~initialized')
        BY <3>3, <4>1, Zenon DEF CreateRenderer
      <4> QED
        BY <4>2
    <3> QED
      BY <1>1, <3>1, <3>2, <3>3
  <2> QED
    BY <2>1, <2>2
<1>2. ASSUME NEW f \in Frames, RenderBegin(f) \/ RenderRefused(f)
      PROVE  CacheInv' /\ ShownInv'
  BY <1>2 DEF RenderBegin, RenderRefused
<1>3. CASE TextureKept
  BY <1>3 DEF TextureKept, CacheHit, TextureFor
<1>4. CASE TextureCreated
  <2>1. TextureFor(frame) # NULL
    BY <1>4, TextureType DEF TextureCreated
  <2> QED
    BY <1>4, <2>1 DEF TextureCreated, TextureFor
<1>5. CASE TextureFails \/ DestroyTexture
  BY <1>5 DEF TextureFails, DestroyTexture
<1>6. CASE \/ Update \/ CalculateRect \/ Present \/ RenderFrameFails
           \/ PollQuit \/ Resize
  BY <1>6 DEF Update, CalculateRect, Present, RenderFrameFails, PollQuit,
              Resize
<1>7. CASE DestroyRenderer \/ DestroyWindow \/ QuitSDL
  BY <1>7 DEF DestroyRenderer, DestroyWindow, QuitSDL
<1>8. CASE UNCHANGED displayVars
  BY <1>8 DEF displayVars
<1> QED
  BY <1>1, <1>2, <1>3, <1>4, <1>5, <1>6, <1>7, <1>8 DEF DisplayNext, DisplayEnded

-----------------------------------------------------------------------------
(* The destination rectangle.                                              *)

\* Dividing and multiplying again, with the quotient possibly one too small.
LEMMA ScaledFacts ==
    ASSUME NEW side \in Nat, NEW num \in Nat, NEW den \in Nat \ {0},
           NEW q \in Scaled(side, num, den)
    PROVE  /\ q \in Nat
           /\ q * den <= side * num
           /\ side * num <= q * den + den
<1> DEFINE exact == side * num
           quot  == exact \div den
           rest  == exact % den
<1>1. exact \in Nat /\ quot \in Nat /\ rest \in Nat /\ rest < den
  OBVIOUS
<1>2. exact = quot * den + rest
  BY SMTT(30)
<1>3. q = quot \/ (q = quot - 1 /\ exact > 0 /\ rest = 0)
  BY DEF Scaled
<1>4. CASE q = quot
  <2> HIDE DEF quot, rest, exact
  <2> QED
    BY <1>1, <1>2, <1>4 DEF exact
<1>5. CASE q = quot - 1 /\ exact > 0 /\ rest = 0
  <2> HIDE DEF quot, rest, exact
  <2>1. quot # 0
    BY <1>1, <1>2, <1>5
  <2>2. q \in Nat
    BY <1>1, <1>5, <2>1
  <2>3. q * den = quot * den - den
    BY <1>1, <1>5, <2>2
  <2> QED
    BY <1>1, <1>2, <1>5, <2>2, <2>3 DEF exact
<1> QED
  BY <1>3, <1>4, <1>5

LEMMA SmallerFactor ==
    ASSUME NEW a \in Nat, NEW b \in Nat, NEW c \in Nat \ {0}, a * c <= b * c
    PROVE  a <= b
<1>1. SUFFICES ASSUME a >= b + 1 PROVE FALSE
  OBVIOUS
<1> DEFINE k == a - b - 1
<1>2. k \in Nat /\ a = b + 1 + k
  BY <1>1
<1> HIDE DEF k
<1>3. a * c = b * c + c + k * c
  BY <1>2
<1> QED
  BY <1>2, <1>3, SMTT(30)

LEMMA Centred ==
    ASSUME NEW outer \in Nat, NEW inner \in Nat, inner <= outer
    PROVE  LET at == (outer - inner) \div 2
           IN  /\ at + inner <= outer
               /\ Within(at, outer - inner - at, 1)
BY DEF Within

LEMMA RectFacts ==
    ASSUME NEW out, out.width \in Nat, out.height \in Nat,
           texture_width \in Nat \ {0}, texture_height \in Nat \ {0},
           NEW r \in Rects(out)
    PROVE  /\ r.x + r.w <= out.width /\ r.y + r.h <= out.height
           /\ Within(r.x, out.width - r.w - r.x, 1)
           /\ Within(r.y, out.height - r.h - r.y, 1)
           /\ \/ r.h = out.height
                 /\ Within(r.w * texture_height, r.h * texture_width, texture_height)
              \/ r.w = out.width
                 /\ Within(r.h * texture_width, r.w * texture_height, texture_width)
<1> DEFINE ow == out.width   oh == out.height
           tw == texture_width   th == texture_height
<1>1. ow \in Nat /\ oh \in Nat /\ tw \in Nat \ {0} /\ th \in Nat \ {0}
  OBVIOUS
<1>2. CASE Wider(out)
  <2>1. PICK w \in Scaled(oh, tw, th) :
            r = [x |-> (ow - w) \div 2, y |-> 0, w |-> w, h |-> oh]
    BY <1>2 DEF Rects
  <2>2. w \in Nat /\ w * th <= oh * tw /\ oh * tw <= w * th + th
    BY <1>1, <2>1, ScaledFacts
  <2>3. oh * tw <= ow * th
    BY <1>1, <1>2 DEF Wider
  <2>4. w <= ow
    <3>1. w * th <= ow * th
      <4>1. w * th \in Nat /\ oh * tw \in Nat /\ ow * th \in Nat
        BY <1>1, <2>2
      <4> QED
        BY <2>2, <2>3, <4>1
    <3> QED
      BY <1>1, <2>2, <3>1, SmallerFactor
  <2>5. r.x = (ow - w) \div 2 /\ r.y = 0 /\ r.w = w /\ r.h = oh
    BY <2>1
  <2>6. r.x + w <= ow /\ Within(r.x, ow - w - r.x, 1)
    BY <1>1, <2>2, <2>4, <2>5, Centred
  <2>7. Within(w * th, oh * tw, th)
    <3>1. w * th \in Nat /\ oh * tw \in Nat
      BY <1>1, <2>2
    <3> QED
      BY <1>1, <2>2, <3>1 DEF Within
  <2>8. Within(0, oh - oh - 0, 1)
    BY <1>1 DEF Within
  <2> QED
    BY <1>1, <2>5, <2>6, <2>7, <2>8
<1>3. CASE ~Wider(out)
  <2>1. PICK h \in Scaled(ow, th, tw) :
            r = [x |-> 0, y |-> (oh - h) \div 2, w |-> ow, h |-> h]
    BY <1>3 DEF Rects
  <2>2. h \in Nat /\ h * tw <= ow * th /\ ow * th <= h * tw + tw
    BY <1>1, <2>1, ScaledFacts
  <2>3. ow * th <= oh * tw
    BY <1>1, <1>3 DEF Wider
  <2>4. h <= oh
    <3>1. h * tw <= oh * tw
      <4>1. h * tw \in Nat /\ oh * tw \in Nat /\ ow * th \in Nat
        BY <1>1, <2>2
      <4> QED
        BY <2>2, <2>3, <4>1
    <3> QED
      BY <1>1, <2>2, <3>1, SmallerFactor
  <2>5. r.x = 0 /\ r.y = (oh - h) \div 2 /\ r.w = ow /\ r.h = h
    BY <2>1
  <2>6. r.y + h <= oh /\ Within(r.y, oh - h - r.y, 1)
    BY <1>1, <2>2, <2>4, <2>5, Centred
  <2>7. Within(h * tw, ow * th, tw)
    <3>1. h * tw \in Nat /\ ow * th \in Nat
      BY <1>1, <2>2
    <3> QED
      BY <1>1, <2>2, <3>1 DEF Within
  <2>8. Within(0, ow - ow - 0, 1)
    BY <1>1 DEF Within
  <2> QED
    BY <1>1, <2>5, <2>6, <2>7, <2>8
<1> QED
  BY <1>2, <1>3

LEMMA RectStep == ASSUME DisplayInv, [DisplayNext]_displayVars PROVE RectInv'
<1> USE DEF RectInv, DisplayInv, cached, objects, Goto, Opening
<1>1. CASE CalculateRect
  <2>0. PICK out \in {window, [width |-> texture_width, height |-> texture_height]} :
            \E rect \in Rects(out) : dst_rect' = [out |-> out, rect |-> rect]
    BY <1>1 DEF CalculateRect
  <2>1. PICK r \in Rects(out) : dst_rect' = [out |-> out, rect |-> r]
    BY <2>0
  <2>2. frame \in Frames /\ texture_width = frame.width /\ texture_height = frame.height
    BY <1>1 DEF CalculateRect, ShownInv, Drawing
  <2>3. texture_width \in Nat \ {0} /\ texture_height \in Nat \ {0}
    BY <2>2, SideBounds DEF Frames
  <2>4. out.width \in Nat /\ out.height \in Nat
    <3>1. CASE out = window
      BY <3>1, SideBounds DEF DisplayTypeOK, Windows
    <3>2. CASE out = [width |-> texture_width, height |-> texture_height]
      BY <2>3, <3>2
    <3> QED
      BY <3>1, <3>2
  <2>5. pc' = "present" /\ frame' = frame
    BY <1>1 DEF CalculateRect
  <2>6. dst_rect'.out = out /\ dst_rect'.rect = r
    BY <2>1
  <2>7. Letterboxed'
    BY <2>2, <2>3, <2>4, <2>5, <2>6, RectFacts DEF Letterboxed
  <2> QED
    BY <2>5, <2>7
<1>2. CASE Present
  BY <1>2 DEF Present, Letterboxed
<1>3. ASSUME NEW f \in Frames, RenderBegin(f) \/ RenderRefused(f)
      PROVE  RectInv'
  BY <1>3 DEF RenderBegin, RenderRefused, Letterboxed
<1>4. CASE \/ TextureKept \/ TextureCreated \/ TextureFails \/ Update
           \/ RenderFrameFails \/ PollQuit \/ Resize
  BY <1>4 DEF TextureKept, TextureCreated, TextureFails, Update,
              RenderFrameFails, PollQuit, Resize, Letterboxed
<1>5. CASE InitSDL \/ CreateWindow
  BY <1>5 DEF InitSDL, CreateWindow, Letterboxed
<1>6. CASE CreateRenderer
  BY <1>6 DEF CreateRenderer, Letterboxed
<1>7. CASE DestroyTexture \/ DestroyRenderer \/ DestroyWindow \/ QuitSDL
  BY <1>7 DEF DestroyTexture, DestroyRenderer, DestroyWindow, QuitSDL,
              Letterboxed
<1>8. CASE UNCHANGED displayVars
  BY <1>8 DEF displayVars, Letterboxed
<1> QED
  BY <1>1, <1>2, <1>3, <1>4, <1>5, <1>6, <1>7, <1>8 DEF DisplayNext, DisplayEnded

-----------------------------------------------------------------------------
(* The theorems.                                                           *)

LEMMA DisplayStep == ASSUME DisplayInv, [DisplayNext]_displayVars PROVE DisplayInv'
BY DisplayTypeStep, ObjectsStep, CacheStep, RectStep DEF DisplayInv

LEMMA DisplayInductive == DisplaySpec => []DisplayInv
<1>1. DisplayInit => DisplayInv
  BY DisplayInvInit
<1>2. DisplayInv /\ [DisplayNext]_displayVars => DisplayInv'
  BY DisplayStep
<1> QED
  BY <1>1, <1>2, PTL DEF DisplaySpec

\* Every variable keeps its type.
THEOREM DisplayTypeCorrect == DisplaySpec => []DisplayTypeOK
<1>1. DisplayInv => DisplayTypeOK
  BY DEF DisplayInv
<1> QED
  BY <1>1, DisplayInductive, PTL

\* create_texture's cache never lets a frame be copied into a texture of another
\* size or format.
THEOREM TextureFitsFrame == DisplaySpec => []TextureFits
<1>1. DisplayInv => TextureFits
  BY DEF DisplayInv, CacheInv, ShownInv, Drawing, TextureFits
<1> QED
  BY <1>1, DisplayInductive, PTL

\* SDL_Display_Init and SDL_Display_Destroy nest the objects and leave none.
THEOREM ObjectsAreNested == DisplaySpec => []ObjectsNested
<1>1. DisplayInv => ObjectsNested
  <2> SUFFICES ASSUME DisplayInv PROVE ObjectsNested
    OBVIOUS
  <2>1. textures # {} => pc \in Rendering
    BY DEF DisplayInv, CacheInv
  <2>2. pc \in Rendering => "renderer" \in live
    BY DEF DisplayInv, LiveInv, Rendering
  <2>3. "renderer" \in live => "window" \in live
    BY DEF DisplayInv, LiveInv
  <2>4. "window" \in live => "video" \in live
    BY DEF DisplayInv, LiveInv
  <2>5. pc = "exit" => live = {} /\ textures = {}
    BY <2>1 DEF DisplayInv, LiveInv, Rendering
  <2> QED
    BY <2>1, <2>2, <2>3, <2>4, <2>5 DEF DisplayInv, CacheInv, ObjectsNested
<1> QED
  BY <1>1, DisplayInductive, PTL

\* calculate_display_rect keeps the picture inside the output and in its ratio, for
\* every size of frame and window.
THEOREM PictureLetterboxed == DisplaySpec => []Letterboxed
<1>1. DisplayInv => Letterboxed
  BY DEF DisplayInv, RectInv
<1> QED
  BY <1>1, DisplayInductive, PTL

-----------------------------------------------------------------------------
(* Main's start and its ways out: sequences that are put together.         *)

\* A sequence of length n, of anything.
List(s, n) == n \in Nat /\ s = [i \in 1 .. n |-> s[i]]

LEMMA ListLen ==
    ASSUME NEW s, NEW n, List(s, n)
    PROVE  s \in Seq({s[i] : i \in 1 .. n}) /\ Len(s) = n /\ DOMAIN s = 1 .. n
<1> DEFINE S == {s[i] : i \in 1 .. n}
<1>1. s \in [1 .. n -> S] /\ n \in Nat
  BY DEF List
<1>2. s \in Seq(S)
  BY <1>1
<1> QED
  BY <1>1, <1>2

LEMMA SeqIsList == ASSUME NEW S, NEW u \in Seq(S) PROVE List(u, Len(u))
<1>1. Len(u) \in Nat /\ u \in [1 .. Len(u) -> S]
  BY LenProperties
<1> QED
  BY <1>1 DEF List

Cat(s, m, t, n) == [i \in 1 .. m + n |-> IF i <= m THEN s[i] ELSE t[i - m]]

LEMMA CatIs ==
    ASSUME NEW s, NEW m, List(s, m), NEW t, NEW n, List(t, n)
    PROVE  s \o t = Cat(s, m, t, n)
<1> DEFINE S == {s[i] : i \in 1 .. m} \cup {t[i] : i \in 1 .. n}
           u == s \o t
<1>1. m \in Nat /\ n \in Nat
  BY DEF List
<1>2. s \in Seq(S) /\ Len(s) = m
  BY <1>1, ListLen DEF List
<1>3. t \in Seq(S) /\ Len(t) = n
  BY <1>1, ListLen DEF List
<1> HIDE DEF S
<1>4. u \in Seq(S) /\ Len(u) = m + n
  BY <1>2, <1>3, ConcatProperties
<1>5. \A i \in 1 .. m + n : u[i] = IF i <= m THEN s[i] ELSE t[i - m]
  BY <1>2, <1>3, ConcatProperties
<1> HIDE DEF u
<1>6. List(u, m + n)
  BY <1>4, SeqIsList
<1>7. u = Cat(s, m, t, n)
  BY <1>5, <1>6 DEF List, Cat
<1> QED
  BY <1>7 DEF u

LEMMA CatElements ==
    ASSUME NEW s, NEW m, List(s, m), NEW t, NEW n, List(t, n)
    PROVE  /\ List(Cat(s, m, t, n), m + n)
           /\ \A i \in 1 .. m : Cat(s, m, t, n)[i] = s[i]
           /\ \A i \in 1 .. n : Cat(s, m, t, n)[m + i] = t[i]
<1>1. m \in Nat /\ n \in Nat
  BY DEF List
<1>2. List(Cat(s, m, t, n), m + n) /\ \A i \in 1 .. m : Cat(s, m, t, n)[i] = s[i]
  BY <1>1 DEF List, Cat
<1>3. ASSUME NEW i \in 1 .. n PROVE Cat(s, m, t, n)[m + i] = t[i]
  <2>1. m + i \in 1 .. m + n /\ ~(m + i <= m) /\ (m + i) - m = i
    BY <1>1
  <2> QED
    BY <2>1 DEF Cat
<1> QED
  BY <1>2, <1>3

-----------------------------------------------------------------------------
(* The ladder, rung by rung.                                               *)

Rung(step, calls) == [step |-> step, otherwise |-> calls]

LEMMA Attempted ==
    ASSUME NEW steps, NEW n, List(steps, n), NEW calls
    PROVE  /\ List(Attempt(steps, calls), n)
           /\ \A i \in 1 .. n : Attempt(steps, calls)[i] = Rung(steps[i], calls)
<1>1. DOMAIN steps = 1 .. n
  BY ListLen
<1> QED
  BY <1>1 DEF List, Attempt, Rung

LEMMA Rungs ==
    /\ Len(Ladder) = 23
    /\ \A i \in 1 .. 3 : Ladder[i] = Rung(TCP_Server_Init[i], <<>>)
    /\ \A i \in 1 .. 4 : Ladder[3 + i] = Rung(Queue_Init("packet_queue")[i], From(5))
    /\ \A i \in 1 .. 4 : Ladder[7 + i] = Rung(Queue_Init("frame_queue")[i], From(4))
    /\ \A i \in 1 .. 6 : Ladder[11 + i] = Rung(H264_Decoder_Init[i], From(3))
    /\ Ladder[18] = Rung(TCP_Server_Accept[1], From(2))
    /\ \A i \in 1 .. 3 : Ladder[18 + i] = Rung(SDL_Display_Init[i], From(2))
    /\ Ladder[22] = Rung(CreateThread("tcp")[1], From(1))
    /\ Ladder[23] = Rung(CreateThread("decoder")[1], DecoderThreadFails)
<1> DEFINE a == Attempt(TCP_Server_Init, <<>>)
           b == Attempt(Queue_Init("packet_queue"), From(5))
           c == Attempt(Queue_Init("frame_queue"), From(4))
           d == Attempt(H264_Decoder_Init, From(3))
           e == Attempt(TCP_Server_Accept, From(2))
           f == Attempt(SDL_Display_Init, From(2))
           g == Attempt(CreateThread("tcp"), From(1))
           h == Attempt(CreateThread("decoder"), DecoderThreadFails)
<1>1. /\ List(TCP_Server_Init, 3) /\ \A q : List(Queue_Init(q), 4)
      /\ List(H264_Decoder_Init, 6) /\ List(TCP_Server_Accept, 1)
      /\ List(SDL_Display_Init, 3) /\ \A t : List(CreateThread(t), 1)
  BY DEF List, TCP_Server_Init, Queue_Init, H264_Decoder_Init, TCP_Server_Accept,
         SDL_Display_Init, CreateThread
<1>2. /\ List(a, 3) /\ \A i \in 1 .. 3 : a[i] = Rung(TCP_Server_Init[i], <<>>)
      /\ List(b, 4) /\ \A i \in 1 .. 4 : b[i] = Rung(Queue_Init("packet_queue")[i], From(5))
      /\ List(c, 4) /\ \A i \in 1 .. 4 : c[i] = Rung(Queue_Init("frame_queue")[i], From(4))
      /\ List(d, 6) /\ \A i \in 1 .. 6 : d[i] = Rung(H264_Decoder_Init[i], From(3))
  BY <1>1, Attempted
<1>3. /\ List(e, 1) /\ e[1] = Rung(TCP_Server_Accept[1], From(2))
      /\ List(f, 3) /\ \A i \in 1 .. 3 : f[i] = Rung(SDL_Display_Init[i], From(2))
      /\ List(g, 1) /\ g[1] = Rung(CreateThread("tcp")[1], From(1))
      /\ List(h, 1) /\ h[1] = Rung(CreateThread("decoder")[1], DecoderThreadFails)
  BY <1>1, Attempted
<1> DEFINE ab == Cat(a, 3, b, 4)
           ac == Cat(ab, 7, c, 4)
           ad == Cat(ac, 11, d, 6)
           ae == Cat(ad, 17, e, 1)
           af == Cat(ae, 18, f, 3)
           ag == Cat(af, 21, g, 1)
           ah == Cat(ag, 22, h, 1)
<1>4. Ladder = ((((((a \o b) \o c) \o d) \o e) \o f) \o g) \o h
  BY DEF Ladder
<1> HIDE DEF a, b, c, d, e, f, g, h
<1>5. a \o b = ab
  <2>1. List(a, 3) /\ List(b, 4)
    BY <1>2
  <2> QED
    BY <2>1, CatIs
<1>6. /\ List(ab, 7) /\ \A i \in 1 .. 3 : ab[i] = a[i]
     /\ \A i \in 1 .. 4 : ab[3 + i] = b[i]
  <2>1. List(a, 3) /\ List(b, 4)
    BY <1>2
  <2> QED
    BY <2>1, CatElements
<1> HIDE DEF ab
<1>7. ab \o c = ac
  <2>1. List(ab, 7) /\ List(c, 4)
    BY <1>2, <1>6
  <2> QED
    BY <2>1, CatIs
<1>8. /\ List(ac, 11) /\ \A i \in 1 .. 7 : ac[i] = ab[i]
     /\ \A i \in 1 .. 4 : ac[7 + i] = c[i]
  BY <1>2, <1>6, CatElements
<1> HIDE DEF ac
<1>9. ac \o d = ad
  <2>1. List(ac, 11) /\ List(d, 6)
    BY <1>2, <1>8
  <2> QED
    BY <2>1, CatIs
<1>10. /\ List(ad, 17) /\ \A i \in 1 .. 11 : ad[i] = ac[i]
      /\ \A i \in 1 .. 6 : ad[11 + i] = d[i]
  BY <1>2, <1>8, CatElements
<1> HIDE DEF ad
<1>11. ad \o e = ae
  <2>1. List(ad, 17) /\ List(e, 1)
    BY <1>3, <1>10
  <2> QED
    BY <2>1, CatIs
<1>12. /\ List(ae, 18) /\ \A i \in 1 .. 17 : ae[i] = ad[i]
      /\ \A i \in 1 .. 1 : ae[17 + i] = e[i]
  BY <1>3, <1>10, CatElements
<1> HIDE DEF ae
<1>13. ae \o f = af
  <2>1. List(ae, 18) /\ List(f, 3)
    BY <1>3, <1>12
  <2> QED
    BY <2>1, CatIs
<1>14. /\ List(af, 21) /\ \A i \in 1 .. 18 : af[i] = ae[i]
      /\ \A i \in 1 .. 3 : af[18 + i] = f[i]
  BY <1>3, <1>12, CatElements
<1> HIDE DEF af
<1>15. af \o g = ag
  <2>1. List(af, 21) /\ List(g, 1)
    BY <1>3, <1>14
  <2> QED
    BY <2>1, CatIs
<1>16. /\ List(ag, 22) /\ \A i \in 1 .. 21 : ag[i] = af[i]
      /\ \A i \in 1 .. 1 : ag[21 + i] = g[i]
  BY <1>3, <1>14, CatElements
<1> HIDE DEF ag
<1>17. ag \o h = ah
  <2>1. List(ag, 22) /\ List(h, 1)
    BY <1>3, <1>16
  <2> QED
    BY <2>1, CatIs
<1>18. /\ List(ah, 23) /\ \A i \in 1 .. 22 : ah[i] = ag[i]
      /\ \A i \in 1 .. 1 : ah[22 + i] = h[i]
  BY <1>3, <1>16, CatElements
<1> HIDE DEF ah
<1>19. Ladder = ah
  BY <1>4, <1>5, <1>7, <1>9, <1>11, <1>13, <1>15, <1>17
<1>20. Len(ah) = 23
  BY <1>18, ListLen, ZenonT(60)
<1>21. \A i \in 1 .. 17 : ah[i] = ad[i]
  BY <1>12, <1>14, <1>16, <1>18
<1>22. /\ \A i \in 1 .. 3 : ah[i] = a[i]
       /\ \A i \in 1 .. 4 : ah[3 + i] = b[i]
       /\ \A i \in 1 .. 4 : ah[7 + i] = c[i]
       /\ \A i \in 1 .. 6 : ah[11 + i] = d[i]
  BY <1>6, <1>8, <1>10, <1>21
<1>23. /\ ah[18] = e[1] /\ \A i \in 1 .. 3 : ah[18 + i] = f[i]
       /\ ah[22] = g[1] /\ ah[23] = h[1]
  BY <1>12, <1>14, <1>16, <1>18
<1>24. /\ \A i \in 1 .. 3 : Ladder[i] = Rung(TCP_Server_Init[i], <<>>)
       /\ \A i \in 1 .. 4 : Ladder[3 + i] = Rung(Queue_Init("packet_queue")[i], From(5))
       /\ \A i \in 1 .. 4 : Ladder[7 + i] = Rung(Queue_Init("frame_queue")[i], From(4))
       /\ \A i \in 1 .. 6 : Ladder[11 + i] = Rung(H264_Decoder_Init[i], From(3))
  BY <1>2, <1>19, <1>22
<1>25. /\ Ladder[18] = Rung(TCP_Server_Accept[1], From(2))
       /\ \A i \in 1 .. 3 : Ladder[18 + i] = Rung(SDL_Display_Init[i], From(2))
       /\ Ladder[22] = Rung(CreateThread("tcp")[1], From(1))
       /\ Ladder[23] = Rung(CreateThread("decoder")[1], DecoderThreadFails)
  BY <1>3, <1>19, <1>23
<1> QED
  BY <1>19, <1>20, <1>24, <1>25
-----------------------------------------------------------------------------
(* Which rung acquires a resource, and which call releases it.             *)

LadderRung ==
    [server       |-> [listen_fd |-> 1, client_fd |-> 18],
     packet_queue |-> [slots |-> 4, mutex |-> 5, not_empty |-> 6, not_full |-> 7],
     frame_queue  |-> [slots |-> 8, mutex |-> 9, not_empty |-> 10, not_full |-> 11],
     decoder      |-> [parser |-> 13, codec_ctx |-> 14, packet |-> 16, frame |-> 17],
     display      |-> [sdl |-> 19, window |-> 20, renderer |-> 21],
     thread       |-> [tcp |-> 22, decoder |-> 23]]
RungOf(r) == LadderRung[r[1]][r[2]]

ListenFd   == <<"server", "listen_fd">>
ClientFd   == <<"server", "client_fd">>
RecvBuffer == <<"server", "recv_buffer">>       \* on no rung: the receive thread's

OnLadder == Resources \ {RecvBuffer}

\* What the threads and main's loop share, from before the first thread on.
Shared   == Resources \ (Of("thread") \cup {RecvBuffer, ClientFd})

ReleasedBy(r) == IF r[1] = "thread" THEN JoinOf(r[2]) ELSE DestroyOf(r[1])

\* Released without a look at whether it is there.
Unasked == Of("thread") \cup Part("packet_queue", {"mutex", "not_empty", "not_full"})

Parts == {"display", "decoder", "frame_queue", "packet_queue", "server"}
Calls == ({"stop"} \X {"frames", "packets"}) \cup {CloseOf("client_fd")}
             \cup {JoinOf(t) : t \in Threads} \cup {DestroyOf(part) : part \in Parts}

\* The calls of a list: only a queue is stopped twice, and all joins come first.
CallsOf(s) == {s[i] : i \in 1 .. Len(s)}
MayFollow(c, d) == /\ c = d => c[1] = "stop"
                   /\ d[1] = "join" => c[1] # "destroy"
Orderly(s) == /\ s \in Seq(Calls)
              /\ \A i, j \in 1 .. Len(s) : i < j => MayFollow(s[i], s[j])

LEMMA Kinds ==
    /\ \A r \in Resources :
           \/ r \in {ListenFd, ClientFd, RecvBuffer}
           \/ r \in {"packet_queue", "frame_queue"}
                        \X {"slots", "mutex", "not_empty", "not_full"}
           \/ r \in {"decoder"} \X {"parser", "codec_ctx", "packet", "frame"}
           \/ r \in {"display"} \X {"sdl", "window", "renderer"}
           \/ r \in {"thread"} \X {"tcp", "decoder"}
    /\ UNION {{ListenFd, ClientFd, RecvBuffer},
              {"packet_queue", "frame_queue"} \X {"slots", "mutex", "not_empty", "not_full"},
              {"decoder"} \X {"parser", "codec_ctx", "packet", "frame"},
              {"display"} \X {"sdl", "window", "renderer"},
              {"thread"} \X {"tcp", "decoder"}} \subseteq Resources
BY DEF Resources, Part, ListenFd, ClientFd, RecvBuffer

\* A rung: its step acquires the resources on it and undoes some of those below; the
\* calls main makes when it fails release all the others, and those only once.
Sound(r, n, takes, undo, calls) ==
    /\ r \in takes <=> RungOf(r) = n
    /\ r \in undo => RungOf(r) < n
    /\ RungOf(r) < n /\ r \notin undo => ReleasedBy(r) \in calls
    /\ r \in Unasked /\ ReleasedBy(r) \in calls => RungOf(r) < n /\ r \notin undo

SoundRung(n, takes, undo, calls) ==
    /\ \A r \in OnLadder : Sound(r, n, takes, undo, calls)
    /\ RecvBuffer \notin takes \cup undo
    /\ n = 23 => undo = {} /\ DestroyOf("server") \in calls

SoundAt(n) ==
    LET step == Ladder[n].step
    IN SoundRung(n, step.takes, step.undo, CallsOf(Ladder[n].otherwise))

LEMMA OrderlyList ==
    ASSUME NEW s, NEW n, List(s, n), \A i \in 1 .. n : s[i] \in Calls,
           \A i, j \in 1 .. n : i < j => MayFollow(s[i], s[j])
    PROVE  Orderly(s) /\ CallsOf(s) = {s[i] : i \in 1 .. n}
<1>1. s \in Seq({s[i] : i \in 1 .. n}) /\ Len(s) = n
  BY ListLen
<1>2. s \in Seq(Calls)
  BY <1>1
<1> QED
  BY <1>1, <1>2 DEF Orderly, CallsOf

LEMMA OrderlyJoin ==
    ASSUME NEW s, NEW m, List(s, m), NEW t, NEW n, List(t, n), Orderly(s), Orderly(t),
           \A c \in CallsOf(s) : c[1] # "destroy" /\ (c \in CallsOf(t) => c[1] = "stop")
    PROVE  /\ List(s \o t, m + n) /\ Orderly(s \o t)
           /\ CallsOf(s \o t) = CallsOf(s) \cup CallsOf(t)
<1> DEFINE u == Cat(s, m, t, n)
<1>1. s \o t = u
  BY CatIs
<1>2. /\ List(u, m + n) /\ \A i \in 1 .. m : u[i] = s[i]
      /\ \A i \in 1 .. n : u[m + i] = t[i]
  BY CatElements
<1>3. m \in Nat /\ n \in Nat /\ Len(s) = m /\ Len(t) = n
  BY ListLen DEF List
<1>4. /\ \A i \in 1 .. m : s[i] \in Calls /\ s[i] \in CallsOf(s)
      /\ \A i \in 1 .. n : t[i] \in Calls /\ t[i] \in CallsOf(t)
  BY <1>3 DEF Orderly, CallsOf
<1> HIDE DEF u
<1>5. ASSUME NEW i \in 1 .. m + n
      PROVE  \/ i <= m /\ u[i] = s[i]
             \/ i > m /\ i - m \in 1 .. n /\ u[i] = t[i - m]
  <2>1. CASE i <= m
    BY <1>2, <1>3, <2>1
  <2>2. CASE i > m
    <3>1. i - m \in 1 .. n /\ m + (i - m) = i
      BY <1>3, <2>2
    <3> QED
      BY <1>2, <2>2, <3>1
  <2> QED
    BY <1>3, <2>1, <2>2
<1>6. \A i \in 1 .. m + n : u[i] \in Calls
  BY <1>4, <1>5, <1>3
<1>7. ASSUME NEW i \in 1 .. m + n, NEW j \in 1 .. m + n, i < j
      PROVE  MayFollow(u[i], u[j])
  <2>1. CASE j <= m
    BY <1>3, <1>5, <1>7, <2>1 DEF Orderly
  <2>2. CASE i > m
    <3>1. i - m \in 1 .. n /\ j - m \in 1 .. n /\ i - m < j - m
      BY <1>3, <1>7, <2>2
    <3>2. u[i] = t[i - m] /\ u[j] = t[j - m]
      BY <1>3, <1>5, <1>7, <2>2
    <3> QED
      BY <1>3, <3>1, <3>2 DEF Orderly
  <2>3. CASE i <= m /\ j > m
    <3>1. u[i] \in CallsOf(s) /\ u[j] \in CallsOf(t)
      BY <1>3, <1>4, <1>5, <2>3
    <3> QED
      BY <3>1 DEF MayFollow
  <2> QED
    BY <1>3, <2>1, <2>2, <2>3
<1>8. Orderly(u) /\ CallsOf(u) = {u[i] : i \in 1 .. m + n}
  BY <1>2, <1>6, <1>7, OrderlyList
<1>9. ASSUME NEW c PROVE c \in CallsOf(u) <=> c \in CallsOf(s) \cup CallsOf(t)
  <2>1. ASSUME c \in CallsOf(u) PROVE c \in CallsOf(s) \cup CallsOf(t)
    BY <1>4, <1>5, <1>8, <2>1
  <2>2. ASSUME c \in CallsOf(s) PROVE c \in CallsOf(u)
    <3>1. PICK i \in 1 .. m : c = s[i]
      BY <1>3, <2>2 DEF CallsOf
    <3>2. i \in 1 .. m + n
      BY <1>3
    <3> QED
      BY <1>2, <1>8, <3>1, <3>2
  <2>3. ASSUME c \in CallsOf(t) PROVE c \in CallsOf(u)
    <3>1. PICK i \in 1 .. n : c = t[i]
      BY <1>3, <2>3 DEF CallsOf
    <3>2. m + i \in 1 .. m + n
      BY <1>3
    <3> QED
      BY <1>2, <1>8, <3>1, <3>2
  <2> QED
    BY <2>1, <2>2, <2>3
<1> QED
  BY <1>1, <1>2, <1>8, <1>9

LEMMA WaysOut ==
    /\ Orderly(<<>>) /\ CallsOf(<<>>) = {}
    /\ \A k \in 1 .. 5 : Orderly(From(k)) /\ CallsOf(From(k)) = {Destroys[i] : i \in k .. 5}
    /\ Orderly(DecoderThreadFails)
    /\ CallsOf(DecoderThreadFails) = {StopOf("frames"), StopOf("packets"), CloseOf("client_fd"),
                                     JoinOf("tcp")} \cup {DestroyOf(part) : part \in Parts}
    /\ Orderly(Finish)
    /\ CallsOf(Finish) = {StopOf("frames"), StopOf("packets")} \cup {JoinOf(t) : t \in Threads}
                             \cup {DestroyOf(part) : part \in Parts}
    /\ Orderly(StopPipeline \o Finish)
    /\ CallsOf(StopPipeline \o Finish) = Calls

<1> USE DEF StopOf, CloseOf, JoinOf, DestroyOf
<1>1. Orderly(<<>>) /\ CallsOf(<<>>) = {}
  BY DEF Orderly, CallsOf
<1>2. /\ List(Destroys, 5)
      /\ \A i \in 1 .. 5 : Destroys[i] \in Calls /\ Destroys[i][1] = "destroy"
      /\ \A i, j \in 1 .. 5 : i # j => Destroys[i] # Destroys[j]
      /\ {Destroys[i] : i \in 1 .. 5} = {DestroyOf(part) : part \in Parts}
  BY DEF List, Destroys, Calls, Parts
<1>3. Orderly(Destroys) /\ CallsOf(Destroys) = {DestroyOf(part) : part \in Parts}
  BY <1>2, OrderlyList DEF MayFollow
<1>4. ASSUME NEW k \in 1 .. 5
      PROVE  Orderly(From(k)) /\ CallsOf(From(k)) = {Destroys[i] : i \in k .. 5}
  <2>1. Destroys \in Seq(Calls) /\ Len(Destroys) = 5
    <3>1. Len(Destroys) = 5
      BY <1>2, ListLen
    <3> QED
      BY <1>3, <3>1 DEF Orderly
  <2>2. /\ From(k) \in Seq(Calls) /\ Len(From(k)) = 6 - k
        /\ \A i \in 1 .. 6 - k : From(k)[i] = Destroys[k + i - 1]
    BY <2>1, SubSeqProperties, SMTT(60) DEF From
  <2>3. List(From(k), 6 - k)
    BY <2>2, SeqIsList
  <2>4. \A i \in 1 .. 6 - k : k + i - 1 \in 1 .. 5
    OBVIOUS
  <2>5. Orderly(From(k)) /\ CallsOf(From(k)) = {From(k)[i] : i \in 1 .. 6 - k}
    <3>1. ASSUME NEW i \in 1 .. 6 - k, NEW j \in 1 .. 6 - k, i < j
          PROVE  From(k)[i] # From(k)[j] /\ From(k)[j][1] = "destroy"
      <4>1. /\ k + i - 1 \in 1 .. 5 /\ k + j - 1 \in 1 .. 5
            /\ k + i - 1 # k + j - 1
        BY <3>1
      <4>2. From(k)[i] = Destroys[k + i - 1] /\ From(k)[j] = Destroys[k + j - 1]
        BY <2>2
      <4> HIDE DEF DestroyOf
      <4> QED
        BY <1>2, <4>1, <4>2
    <3>2. \A i \in 1 .. 6 - k : From(k)[i] \in Calls
      BY <1>2, <2>2, <2>4
    <3> QED
      BY <2>3, <3>1, <3>2, OrderlyList DEF MayFollow
  <2>6. ASSUME NEW i \in k .. 5
        PROVE  i - k + 1 \in 1 .. 6 - k /\ From(k)[i - k + 1] = Destroys[i]
    <3>1. i - k + 1 \in 1 .. 6 - k /\ k + (i - k + 1) - 1 = i
      OBVIOUS
    <3> QED
      BY <2>2, <3>1
  <2>7. \A i \in 1 .. 6 - k : k + i - 1 \in k .. 5
    OBVIOUS
  <2>8. \A c : c \in {From(k)[i] : i \in 1 .. 6 - k} <=> c \in {Destroys[i] : i \in k .. 5}
    BY <2>2, <2>6, <2>7, SMTT(60)
  <2> QED
    BY <2>5, <2>8
<1> DEFINE a == StopPipeline
           b == <<JoinOf("tcp")>>
           c == <<StopOf("packets"), StopOf("frames"), JoinOf("tcp"), JoinOf("decoder")>>
           d == Destroys
<1>5. /\ List(a, 3) /\ Orderly(a)
      /\ CallsOf(a) = {StopOf("frames"), StopOf("packets"), CloseOf("client_fd")}
  <2>1. /\ List(a, 3) /\ \A i \in 1 .. 3 : a[i] \in Calls /\ a[i][1] \notin {"destroy", "join"}
        /\ \A i, j \in 1 .. 3 : i < j => a[i] # a[j]
        /\ {a[i] : i \in 1 .. 3} = {StopOf("frames"), StopOf("packets"), CloseOf("client_fd")}
    BY DEF List, StopPipeline, Calls
  <2> QED
    BY <2>1, OrderlyList DEF MayFollow
<1>6. List(b, 1) /\ Orderly(b) /\ CallsOf(b) = {JoinOf("tcp")}
  <2>1. /\ List(b, 1) /\ \A i \in 1 .. 1 : b[i] \in Calls
        /\ {b[i] : i \in 1 .. 1} = {JoinOf("tcp")}
    BY DEF List, Calls, Threads
  <2> QED
    BY <2>1, OrderlyList DEF MayFollow
<1>7. /\ List(c, 4) /\ Orderly(c)
      /\ CallsOf(c) = {StopOf("frames"), StopOf("packets")} \cup {JoinOf(t) : t \in Threads}
  <2>1. /\ List(c, 4) /\ \A i \in 1 .. 4 : c[i] \in Calls /\ c[i][1] # "destroy"
        /\ \A i, j \in 1 .. 4 : i < j => c[i] # c[j]
        /\ {c[i] : i \in 1 .. 4} =
               {StopOf("frames"), StopOf("packets")} \cup {JoinOf(t) : t \in Threads}
    BY DEF List, Calls, Threads
  <2> QED
    BY <2>1, OrderlyList DEF MayFollow
<1> HIDE DEF a, b, c, d
<1>8. /\ List(a \o b, 4) /\ Orderly(a \o b)
      /\ CallsOf(a \o b) = {StopOf("frames"), StopOf("packets"), CloseOf("client_fd"),
                            JoinOf("tcp")}
  <2>1. \A x \in CallsOf(a) : x[1] # "destroy" /\ (x \in CallsOf(b) => x[1] = "stop")
    BY <1>5, <1>6
  <2>2. List(a, 3) /\ List(b, 1) /\ Orderly(a) /\ Orderly(b)
    BY <1>5, <1>6
  <2>3. List(a \o b, 3 + 1) /\ Orderly(a \o b) /\ CallsOf(a \o b) = CallsOf(a) \cup CallsOf(b)
    BY <2>1, <2>2, OrderlyJoin
  <2> QED
    BY <1>5, <1>6, <2>3
<1>9. \A x \in CallsOf(d) : x[1] = "destroy"
  BY <1>3 DEF d
<1>10. /\ List(d, 5) /\ Orderly(d) /\ CallsOf(d) = {DestroyOf(part) : part \in Parts}
  BY <1>2, <1>3 DEF d
<1>11. Orderly((a \o b) \o d) /\ CallsOf((a \o b) \o d) = CallsOf(a \o b) \cup CallsOf(d)
  <2>1. \A x \in CallsOf(a \o b) : x[1] # "destroy" /\ (x \in CallsOf(d) => x[1] = "stop")
    BY <1>8, <1>9
  <2> QED
    BY <1>8, <1>10, <2>1, OrderlyJoin
<1>12. List(c \o d, 9) /\ Orderly(c \o d) /\ CallsOf(c \o d) = CallsOf(c) \cup CallsOf(d)
  <2>1. \A x \in CallsOf(c) : x[1] # "destroy" /\ (x \in CallsOf(d) => x[1] = "stop")
    BY <1>7, <1>9
  <2>2. List(c \o d, 4 + 5) /\ Orderly(c \o d) /\ CallsOf(c \o d) = CallsOf(c) \cup CallsOf(d)
    BY <1>7, <1>10, <2>1, OrderlyJoin
  <2> QED
    BY <2>2
<1>13. Orderly(a \o (c \o d)) /\ CallsOf(a \o (c \o d)) = CallsOf(a) \cup CallsOf(c \o d)
  <2>1. \A x \in CallsOf(a) : x[1] # "destroy" /\ (x \in CallsOf(c \o d) => x[1] = "stop")
    BY <1>5, <1>7, <1>10, <1>12
  <2> QED
    BY <1>5, <1>12, <2>1, OrderlyJoin
<1>14. /\ DecoderThreadFails = (a \o b) \o d /\ Finish = c \o d
       /\ StopPipeline \o Finish = a \o (c \o d)
  BY DEF a, b, c, d, DecoderThreadFails, Finish
<1>15. /\ Orderly(DecoderThreadFails)
       /\ CallsOf(DecoderThreadFails) = {StopOf("frames"), StopOf("packets"),
                 CloseOf("client_fd"), JoinOf("tcp")} \cup {DestroyOf(part) : part \in Parts}
  BY <1>8, <1>10, <1>11, <1>14
<1>16. /\ Orderly(Finish)
       /\ CallsOf(Finish) = {StopOf("frames"), StopOf("packets")}
              \cup {JoinOf(t) : t \in Threads} \cup {DestroyOf(part) : part \in Parts}
  BY <1>7, <1>10, <1>12, <1>14
<1>17. Orderly(StopPipeline \o Finish) /\ CallsOf(StopPipeline \o Finish) = Calls
  <2>1. CallsOf(a) \cup (CallsOf(c) \cup CallsOf(d)) = Calls
    BY <1>5, <1>7, <1>10 DEF Calls
  <2> QED
    BY <1>12, <1>13, <1>14, <2>1
<1> QED
  BY <1>1, <1>4, <1>15, <1>16, <1>17

\* The rung of each resource and the call that releases it.
LEMMA ResourceFacts ==
    ASSUME NEW r \in OnLadder
    PROVE  /\ ReleasedBy(r) = IF r[1] = "thread" THEN <<"join", r[2]>> ELSE <<"destroy", r[1]>>
           /\ \/ r = <<"server", "listen_fd">> /\ RungOf(r) = 1
              \/ r = <<"packet_queue", "slots">> /\ RungOf(r) = 4
              \/ r = <<"packet_queue", "mutex">> /\ RungOf(r) = 5
              \/ r = <<"packet_queue", "not_empty">> /\ RungOf(r) = 6
              \/ r = <<"packet_queue", "not_full">> /\ RungOf(r) = 7
              \/ r = <<"frame_queue", "slots">> /\ RungOf(r) = 8
              \/ r = <<"frame_queue", "mutex">> /\ RungOf(r) = 9
              \/ r = <<"frame_queue", "not_empty">> /\ RungOf(r) = 10
              \/ r = <<"frame_queue", "not_full">> /\ RungOf(r) = 11
              \/ r = <<"decoder", "parser">> /\ RungOf(r) = 13
              \/ r = <<"decoder", "codec_ctx">> /\ RungOf(r) = 14
              \/ r = <<"decoder", "packet">> /\ RungOf(r) = 16
              \/ r = <<"decoder", "frame">> /\ RungOf(r) = 17
              \/ r = <<"server", "client_fd">> /\ RungOf(r) = 18
              \/ r = <<"display", "sdl">> /\ RungOf(r) = 19
              \/ r = <<"display", "window">> /\ RungOf(r) = 20
              \/ r = <<"display", "renderer">> /\ RungOf(r) = 21
              \/ r = <<"thread", "tcp">> /\ RungOf(r) = 22
              \/ r = <<"thread", "decoder">> /\ RungOf(r) = 23
BY Kinds DEF OnLadder, RungOf, LadderRung, ReleasedBy, JoinOf, DestroyOf, ListenFd, ClientFd,
             RecvBuffer

LEMMA SoundRungs == Len(Ladder) = 23 /\ \A n \in 1 .. 23 : SoundAt(n)
<1>1. /\ CallsOf(<<>>) = {}
      /\ CallsOf(From(5)) = {DestroyOf("server")}
      /\ CallsOf(From(4)) = {DestroyOf("packet_queue"), DestroyOf("server")}
      /\ CallsOf(From(3)) = {DestroyOf("frame_queue"), DestroyOf("packet_queue"),
                            DestroyOf("server")}
      /\ CallsOf(From(2)) = {DestroyOf("decoder"), DestroyOf("frame_queue"),
                            DestroyOf("packet_queue"), DestroyOf("server")}
      /\ CallsOf(From(1)) = {DestroyOf(part) : part \in Parts}
  <2>1. /\ {Destroys[i] : i \in 5 .. 5} = {Destroys[5]}
        /\ {Destroys[i] : i \in 4 .. 5} = {Destroys[4], Destroys[5]}
        /\ {Destroys[i] : i \in 3 .. 5} = {Destroys[3], Destroys[4], Destroys[5]}
        /\ {Destroys[i] : i \in 2 .. 5} = {Destroys[2], Destroys[3], Destroys[4], Destroys[5]}
        /\ {Destroys[i] : i \in 1 .. 5} =
               {Destroys[1], Destroys[2], Destroys[3], Destroys[4], Destroys[5]}
    OBVIOUS
  <2> QED
    BY <2>1, WaysOut DEF Destroys, Parts
<1>2. ASSUME NEW n, NEW x, NEW c, Ladder[n] = Rung(x, c),
             n # 23, \A r \in OnLadder : Sound(r, n, x.takes, x.undo, CallsOf(c)),
             RecvBuffer \notin x.takes \cup x.undo
      PROVE  SoundAt(n)
  BY <1>2 DEF SoundAt, SoundRung, Rung
<1> USE DEF Sound, Step, Part, DestroyOf, JoinOf, Unasked, Of, RecvBuffer
<1>3. ASSUME NEW i \in 1 .. 3 PROVE SoundAt(i)
  <2> DEFINE x == TCP_Server_Init[i]
  <2>1. Ladder[i] = Rung(x, <<>>)
    BY Rungs
  <2>2. RecvBuffer \notin x.takes \cup x.undo
    BY DEF TCP_Server_Init
  <2>3. ASSUME NEW r \in OnLadder PROVE Sound(r, i, x.takes, x.undo, CallsOf(<<>>))
    BY <1>1, ResourceFacts, SMTT(60) DEF TCP_Server_Init
  <2> QED
    BY <1>2, <2>1, <2>2, <2>3
<1>4. ASSUME NEW i \in 1 .. 4 PROVE SoundAt(3 + i)
  <2> DEFINE x == Queue_Init("packet_queue")[i]
  <2>1. Ladder[3 + i] = Rung(x, From(5))
    BY Rungs
  <2>2. RecvBuffer \notin x.takes \cup x.undo
    BY DEF Queue_Init
  <2>3. ASSUME NEW r \in OnLadder PROVE Sound(r, 3 + i, x.takes, x.undo, CallsOf(From(5)))
    BY <1>1, ResourceFacts, SMTT(60) DEF Queue_Init
  <2> QED
    BY <1>2, <2>1, <2>2, <2>3
<1>5. ASSUME NEW i \in 1 .. 4 PROVE SoundAt(7 + i)
  <2> DEFINE x == Queue_Init("frame_queue")[i]
  <2>1. Ladder[7 + i] = Rung(x, From(4))
    BY Rungs
  <2>2. RecvBuffer \notin x.takes \cup x.undo
    BY DEF Queue_Init
  <2>3. ASSUME NEW r \in OnLadder PROVE Sound(r, 7 + i, x.takes, x.undo, CallsOf(From(4)))
    BY <1>1, ResourceFacts, SMTT(60) DEF Queue_Init
  <2> QED
    BY <1>2, <2>1, <2>2, <2>3
<1>6. ASSUME NEW i \in 1 .. 6 PROVE SoundAt(11 + i)
  <2> DEFINE x == H264_Decoder_Init[i]
  <2>1. Ladder[11 + i] = Rung(x, From(3))
    BY Rungs
  <2>2. RecvBuffer \notin x.takes \cup x.undo
    BY DEF H264_Decoder_Init
  <2>3. ASSUME NEW r \in OnLadder PROVE Sound(r, 11 + i, x.takes, x.undo, CallsOf(From(3)))
    BY <1>1, ResourceFacts DEF H264_Decoder_Init
  <2> QED
    BY <1>2, <2>1, <2>2, <2>3
<1>7. SoundAt(18)
  <2> DEFINE x == TCP_Server_Accept[1]
  <2>1. Ladder[18] = Rung(x, From(2))
    BY Rungs
  <2>2. RecvBuffer \notin x.takes \cup x.undo
    BY DEF TCP_Server_Accept
  <2>3. ASSUME NEW r \in OnLadder PROVE Sound(r, 18, x.takes, x.undo, CallsOf(From(2)))
    BY <1>1, ResourceFacts DEF TCP_Server_Accept, Parts
  <2> QED
    BY <1>2, <2>1, <2>2, <2>3
<1>8. ASSUME NEW i \in 1 .. 3 PROVE SoundAt(18 + i)
  <2> DEFINE x == SDL_Display_Init[i]
  <2>1. Ladder[18 + i] = Rung(x, From(2))
    BY Rungs
  <2>2. RecvBuffer \notin x.takes \cup x.undo
    BY DEF SDL_Display_Init
  <2>3. ASSUME NEW r \in OnLadder PROVE Sound(r, 18 + i, x.takes, x.undo, CallsOf(From(2)))
    BY <1>1, ResourceFacts, SMTT(60) DEF SDL_Display_Init
  <2> QED
    BY <1>2, <2>1, <2>2, <2>3
<1>9. SoundAt(22)
  <2> DEFINE x == CreateThread("tcp")[1]
  <2>1. Ladder[22] = Rung(x, From(1))
    BY Rungs
  <2>2. RecvBuffer \notin x.takes \cup x.undo
    BY DEF CreateThread
  <2>3. ASSUME NEW r \in OnLadder PROVE Sound(r, 22, x.takes, x.undo, CallsOf(From(1)))
    BY <1>1, ResourceFacts DEF CreateThread, Parts
  <2> QED
    BY <1>2, <2>1, <2>2, <2>3
<1>10. SoundAt(23)
  <2> DEFINE x == CreateThread("decoder")[1]
  <2>1. Ladder[23] = Rung(x, DecoderThreadFails)
    BY Rungs
  <2>2. x.takes = {<<"thread", "decoder">>} /\ x.undo = {}
    BY DEF CreateThread
  <2>3. CallsOf(DecoderThreadFails) = {StopOf("frames"), StopOf("packets"), CloseOf("client_fd"),
                <<"join", "tcp">>} \cup {<<"destroy", part>> : part \in Parts}
    BY WaysOut
  <2>4. ASSUME NEW r \in OnLadder
        PROVE  Sound(r, 23, x.takes, x.undo, CallsOf(DecoderThreadFails))
    <3>1. ReleasedBy(r) \in CallsOf(DecoderThreadFails) <=> r # <<"thread", "decoder">>
      BY <2>3, ResourceFacts DEF Parts, StopOf, CloseOf
    <3> QED
      BY <2>2, <3>1, ResourceFacts
  <2>5. DestroyOf("server") \in CallsOf(DecoderThreadFails)
    BY WaysOut DEF Parts
  <2> QED
    BY <2>1, <2>2, <2>4, <2>5 DEF SoundAt, SoundRung, Rung
<1> QED
  BY Rungs, <1>3, <1>4, <1>5, <1>6, <1>7, <1>8, <1>9, <1>10

LEMMA Exits == \A n \in 1 .. 23 : Orderly(Ladder[n].otherwise)
<1>1. /\ \A i \in 1 .. 3 : Orderly(Ladder[i].otherwise)
      /\ \A i \in 1 .. 4 : Orderly(Ladder[3 + i].otherwise)
      /\ \A i \in 1 .. 4 : Orderly(Ladder[7 + i].otherwise)
      /\ \A i \in 1 .. 6 : Orderly(Ladder[11 + i].otherwise)
  BY Rungs, WaysOut DEF Rung
<1>2. /\ \A i \in 1 .. 3 : Orderly(Ladder[18 + i].otherwise)
      /\ \A n \in {18, 22, 23} : Orderly(Ladder[n].otherwise)
  BY Rungs, WaysOut DEF Rung
<1> QED
  BY <1>1, <1>2

-----------------------------------------------------------------------------
(* The invariant of main's start and its ways out.                         *)

StartupTypes ==
    /\ phase \in {"init", "loop", "out"} /\ rung \in 1 .. 23
    /\ balance \in [Resources -> {0, 1}]
    /\ running \subseteq Threads

\* A running thread has not been joined.
RunningInv == \A t \in running : Held(<<"thread", t>>)

\* On the way up main holds what the rungs below it acquired, in its loop everything.
UpInv ==
    /\ phase = "init" => /\ \A r \in OnLadder : Held(r) <=> RungOf(r) < rung
                         /\ Held(RecvBuffer) => rung = 23
    /\ phase = "loop" => \A r \in OnLadder : Held(r)

\* On the way down what is held will be released, what will be released unasked is
\* held, and as long as a thread is not joined all that it may use is there.
DownInv ==
    phase = "out" =>
        /\ Orderly(todo)
        /\ \A r \in Resources : Held(r) => ReleasedBy(r) \in CallsOf(todo)
        /\ \A r \in Unasked : ReleasedBy(r) \in CallsOf(todo) => Held(r)
        /\ \A t \in Threads : Held(<<"thread", t>>) => \A r \in Shared : Held(r)

StartupInv == StartupTypes /\ RunningInv /\ UpInv /\ DownInv

LEMMA AcquireFacts ==
    ASSUME StartupTypes, NEW S, Acquire(S), \A r \in S \cap Resources : ~Held(r)
    PROVE  /\ balance' \in [Resources -> {0, 1}]
           /\ \A r \in Resources : Held(r)' <=> Held(r) \/ r \in S
<1>1. \A r \in Resources : /\ balance[r] \in {0, 1}
                           /\ balance'[r] = balance[r] + (IF r \in S THEN 1 ELSE 0)
                           /\ r \in S => balance[r] = 0
  BY DEF StartupTypes, Acquire, Held
<1>2. balance' = [r \in Resources |-> balance[r] + (IF r \in S THEN 1 ELSE 0)]
  BY DEF Acquire
<1> QED
  BY <1>1, <1>2 DEF Held

LEMMA ReleaseFacts ==
    ASSUME StartupTypes, NEW S, Release(S), \A r \in S \cap Resources : Held(r)
    PROVE  /\ balance' \in [Resources -> {0, 1}]
           /\ \A r \in Resources : Held(r)' <=> Held(r) /\ r \notin S
<1>1. \A r \in Resources : /\ balance[r] \in {0, 1}
                           /\ balance'[r] = balance[r] - (IF r \in S THEN 1 ELSE 0)
                           /\ r \in S => balance[r] = 1
  BY DEF StartupTypes, Release, Held
<1>2. balance' = [r \in Resources |-> balance[r] - (IF r \in S THEN 1 ELSE 0)]
  BY DEF Release
<1> QED
  BY <1>1, <1>2 DEF Held

LEMMA ThreadResources ==
    /\ OnLadder \cup {RecvBuffer} = Resources /\ RecvBuffer \notin OnLadder
    /\ Unasked \subseteq OnLadder /\ Shared \subseteq OnLadder
    /\ \A t \in Threads : /\ <<"thread", t>> \in Unasked
                          /\ ReleasedBy(<<"thread", t>>) = JoinOf(t)
    /\ RungOf(<<"thread", "tcp">>) = 22 /\ RungOf(<<"thread", "decoder">>) = 23
    /\ \A r \in Shared : RungOf(r) < 22
    /\ ReleasedBy(RecvBuffer) = DestroyOf("server") /\ ListenFd \in Shared
    /\ ReleasedBy(ListenFd) = DestroyOf("server")
<1>1. /\ OnLadder \cup {RecvBuffer} = Resources /\ RecvBuffer \notin OnLadder
      /\ Unasked \subseteq OnLadder /\ Shared \subseteq OnLadder
  BY Kinds DEF OnLadder, Unasked, Shared, Of, Part, RecvBuffer
<1>2. \A t \in Threads : <<"thread", t>> \in Unasked /\ ReleasedBy(<<"thread", t>>) = JoinOf(t)
  BY Kinds DEF Unasked, Of, Threads, ReleasedBy
<1>3. RungOf(<<"thread", "tcp">>) = 22 /\ RungOf(<<"thread", "decoder">>) = 23
  BY DEF RungOf, LadderRung
<1>4. \A r \in Shared : RungOf(r) < 22
  BY <1>1, ResourceFacts DEF Shared, Of
<1>5. /\ ReleasedBy(RecvBuffer) = DestroyOf("server") /\ ListenFd \in Shared
      /\ ReleasedBy(ListenFd) = DestroyOf("server")
  BY Kinds DEF ReleasedBy, RecvBuffer, ListenFd, ClientFd, Shared, Of
<1> QED
  BY <1>1, <1>2, <1>3, <1>4, <1>5

LEMMA StartupInvInit == ASSUME StartupInit PROVE StartupInv
<1>1. StartupTypes /\ RunningInv /\ DownInv
  BY DEF StartupInit, StartupTypes, RunningInv, DownInv
<1>2. \A r \in OnLadder : ~(RungOf(r) < 1)
  BY ResourceFacts
<1>3. \A r \in Resources : ~Held(r)
  BY DEF StartupInit, Held
<1>4. UpInv
  BY <1>2, <1>3, ThreadResources DEF StartupInit, UpInv
<1> QED
  BY <1>1, <1>4 DEF StartupInv

LEMMA SucceedsStep == ASSUME StartupInv, Succeeds PROVE StartupInv'
<1> DEFINE takes == Ladder[rung].step.takes
<1>1. /\ phase = "init" /\ rung \in 1 .. 23 /\ StartupTypes /\ RunningInv
      /\ \A r \in OnLadder : Held(r) <=> RungOf(r) < rung
      /\ Held(RecvBuffer) => rung = 23
  BY DEF StartupInv, UpInv, StartupTypes, Succeeds
<1>2. /\ \A r \in OnLadder : r \in takes <=> RungOf(r) = rung
      /\ RecvBuffer \notin takes /\ Len(Ladder) = 23
  BY <1>1, SoundRungs DEF SoundAt, SoundRung, Sound
<1>3. \A r \in OnLadder : RungOf(r) \in 1 .. 23
  BY ResourceFacts
<1>4. /\ balance' \in [Resources -> {0, 1}]
      /\ \A r \in Resources : Held(r)' <=> Held(r) \/ r \in takes
  <2>1. Acquire(takes)
    BY DEF Succeeds
  <2>2. \A r \in takes \cap Resources : ~Held(r)
    BY <1>1, <1>2, ThreadResources
  <2> HIDE DEF takes
  <2> QED
    BY <1>1, <2>1, <2>2, AcquireFacts
<1>5. running' = running \cup {t \in Threads : <<"thread", t>> \in takes}
  BY DEF Succeeds
<1>6. RunningInv' /\ running' \subseteq Threads
  <2>1. \A t \in Threads : <<"thread", t>> \in Resources
    BY ThreadResources
  <2> HIDE DEF takes
  <2> QED
    BY <1>1, <1>4, <1>5, <2>1 DEF RunningInv, StartupTypes
<1>7. CASE rung < 23
  <2>1. rung' = rung + 1 /\ phase' = "init"
    BY <1>1, <1>2, <1>7 DEF Succeeds
  <2>2. UpInv'
    BY <1>1, <1>2, <1>3, <1>4, <1>7, <2>1, ThreadResources DEF UpInv
  <2> QED
    BY <1>1, <1>4, <1>6, <1>7, <2>1, <2>2 DEF StartupInv, StartupTypes, DownInv
<1>8. CASE rung = 23
  <2>1. rung' = 23 /\ phase' = "loop"
    BY <1>1, <1>2, <1>8 DEF Succeeds
  <2>2. UpInv'
    BY <1>1, <1>2, <1>3, <1>4, <1>8, <2>1, ThreadResources DEF UpInv
  <2> QED
    BY <1>1, <1>4, <1>6, <2>1, <2>2 DEF StartupInv, StartupTypes, DownInv
<1> QED
  BY <1>1, <1>7, <1>8

LEMMA FailsStep == ASSUME StartupInv, Fails PROVE StartupInv'
<1> DEFINE undo == Ladder[rung].step.undo
           calls == CallsOf(Ladder[rung].otherwise)
<1>1. /\ phase = "init" /\ rung \in 1 .. 23 /\ StartupTypes /\ RunningInv
      /\ \A r \in OnLadder : Held(r) <=> RungOf(r) < rung
      /\ Held(RecvBuffer) => rung = 23
  BY DEF StartupInv, UpInv, StartupTypes, Fails
<1>2. SoundAt(rung)
  BY <1>1, SoundRungs
<1>3. /\ \A r \in OnLadder :
             /\ r \in undo => RungOf(r) < rung
             /\ RungOf(r) < rung /\ r \notin undo => ReleasedBy(r) \in calls
             /\ r \in Unasked /\ ReleasedBy(r) \in calls => RungOf(r) < rung /\ r \notin undo
      /\ RecvBuffer \notin undo
      /\ rung = 23 => undo = {} /\ DestroyOf("server") \in calls
  BY <1>2 DEF SoundAt, SoundRung, Sound
<1>4. /\ balance' \in [Resources -> {0, 1}]
      /\ \A r \in Resources : Held(r)' <=> Held(r) /\ r \notin undo
  <2>1. Release(undo)
    BY DEF Fails
  <2>2. \A r \in undo \cap Resources : Held(r)
    BY <1>1, <1>3, ThreadResources
  <2> HIDE DEF undo
  <2> QED
    BY <1>1, <2>1, <2>2, ReleaseFacts
<1>5. /\ phase' = "out" /\ rung' = rung /\ running' = running
      /\ CallsOf(todo') = calls /\ Orderly(todo')
  BY <1>1, Exits DEF Fails
<1> HIDE DEF undo, calls
<1>6. \A t \in Threads : Held(<<"thread", t>>) => rung = 23
  <2>1. <<"thread", "tcp">> \in OnLadder /\ <<"thread", "decoder">> \in OnLadder
    BY ThreadResources DEF Threads
  <2> QED
    BY <1>1, <2>1, ThreadResources DEF Threads
<1>7. RunningInv'
  <2>1. \A t \in running : t \in Threads /\ <<"thread", t>> \in Resources
    BY <1>1, ThreadResources DEF StartupTypes
  <2> QED
    BY <1>1, <1>3, <1>4, <1>5, <1>6, <2>1 DEF RunningInv
<1>8. ASSUME NEW r \in Resources, Held(r)' PROVE ReleasedBy(r) \in calls
  BY <1>1, <1>3, <1>4, <1>8, ThreadResources
<1>9. ASSUME NEW r \in Unasked, ReleasedBy(r) \in calls PROVE Held(r)'
  BY <1>1, <1>3, <1>4, <1>9, ThreadResources
<1>10. ASSUME NEW t \in Threads, Held(<<"thread", t>>)', NEW r \in Shared PROVE Held(r)'
  <2>1. <<"thread", t>> \in Resources
    BY ThreadResources
  <2>2. rung = 23 /\ undo = {}
    BY <1>3, <1>4, <1>6, <1>10, <2>1
  <2>3. r \in OnLadder /\ r \in Resources /\ RungOf(r) < 23
    BY ThreadResources, ResourceFacts
  <2> QED
    BY <1>1, <1>4, <2>2, <2>3
<1>11. DownInv'
  BY <1>5, <1>8, <1>9, <1>10 DEF DownInv
<1> QED
  BY <1>1, <1>4, <1>5, <1>7, <1>11 DEF StartupInv, StartupTypes, UpInv

\* What is left of main's calls after the next one.
LEMMA CallFacts ==
    ASSUME DownInv, NEW c, Call(c)
    PROVE  /\ phase = "out" /\ phase' = "out" /\ rung' = rung /\ running' = running
           /\ Orderly(todo') /\ c \in CallsOf(todo) /\ CallsOf(todo') \subseteq CallsOf(todo)
           /\ \A d \in CallsOf(todo) : d # c => d \in CallsOf(todo')
           /\ c[1] # "stop" => c \notin CallsOf(todo')
           /\ c[1] = "destroy" => \A d \in CallsOf(todo') : d[1] # "join"
<1>1. /\ phase = "out" /\ phase' = "out" /\ rung' = rung /\ running' = running
      /\ Orderly(todo) /\ todo # <<>> /\ c = Head(todo) /\ todo' = Tail(todo)
  BY DEF DownInv, Call
<1> DEFINE n == Len(todo)
<1>2. /\ n \in Nat \ {0} /\ c = todo[1]
      /\ todo' \in Seq(Calls) /\ Len(todo') = n - 1
      /\ \A i \in 1 .. n - 1 : todo'[i] = todo[i + 1]
  BY <1>1, HeadTailProperties DEF Orderly
<1>3. \A i, j \in 1 .. n : i < j => MayFollow(todo[i], todo[j])
  BY <1>1 DEF Orderly
<1>4. /\ CallsOf(todo) = {todo[i] : i \in 1 .. n}
      /\ CallsOf(todo') = {todo'[i] : i \in 1 .. n - 1}
  BY <1>2 DEF CallsOf
<1> HIDE DEF n
<1>5. Orderly(todo')
  <2>1. ASSUME NEW i \in 1 .. n - 1, NEW j \in 1 .. n - 1, i < j
        PROVE  MayFollow(todo'[i], todo'[j])
    <3>1. i + 1 \in 1 .. n /\ j + 1 \in 1 .. n /\ i + 1 < j + 1
      BY <1>2, <2>1
    <3> QED
      BY <1>2, <1>3, <3>1
  <2> QED
    BY <1>2, <2>1 DEF Orderly
<1>6. c \in CallsOf(todo)
  BY <1>2, <1>4
<1>7. ASSUME NEW d \in CallsOf(todo') PROVE d \in CallsOf(todo) /\ MayFollow(c, d)
  <2>1. PICK i \in 1 .. n - 1 : d = todo'[i]
    BY <1>4
  <2>2. i + 1 \in 1 .. n /\ 1 \in 1 .. n /\ 1 < i + 1
    BY <1>2
  <2> QED
    BY <1>2, <1>3, <1>4, <2>1, <2>2
<1>8. ASSUME NEW d \in CallsOf(todo), d # c PROVE d \in CallsOf(todo')
  <2>1. PICK i \in 1 .. n : d = todo[i]
    BY <1>4
  <2>2. i - 1 \in 1 .. n - 1 /\ (i - 1) + 1 = i
    BY <1>2, <1>8, <2>1
  <2>3. todo'[i - 1] = d
    BY <1>2, <2>1, <2>2
  <2> QED
    BY <1>4, <2>2, <2>3
<1> QED
  BY <1>1, <1>5, <1>6, <1>7, <1>8 DEF MayFollow

\* Main's next call releases the resources S, which are held; if c is what releases
\* a resource, that is among them.
LEMMA ReleasingStep ==
    ASSUME StartupInv, NEW c, Call(c), NEW S, Release(S),
           \A r \in S \cap Resources : Held(r) /\ (r = ClientFd \/ ReleasedBy(r) = c),
           \A r \in Resources : Held(r) /\ ReleasedBy(r) = c => r \in S,
           \A t \in Threads : <<"thread", t>> \in S => t \notin running,
           c[1] \in {"stop", "close", "join", "destroy"},
           c[1] # "destroy" => S \cap Shared = {},
           \A r \in Resources : ReleasedBy(r) = c => c[1] \in {"join", "destroy"}
    PROVE  StartupInv'
<1>1. StartupTypes /\ RunningInv /\ DownInv
  BY DEF StartupInv
<1>2. /\ phase = "out" /\ phase' = "out" /\ rung' = rung /\ running' = running
      /\ Orderly(todo') /\ c \in CallsOf(todo) /\ CallsOf(todo') \subseteq CallsOf(todo)
      /\ \A d \in CallsOf(todo) : d # c => d \in CallsOf(todo')
      /\ c[1] # "stop" => c \notin CallsOf(todo')
      /\ c[1] = "destroy" => \A d \in CallsOf(todo') : d[1] # "join"
  BY <1>1, CallFacts
<1>3. /\ balance' \in [Resources -> {0, 1}]
      /\ \A r \in Resources : Held(r)' <=> Held(r) /\ r \notin S
  BY <1>1, ReleaseFacts
<1>4. ASSUME NEW r \in Resources, Held(r)' PROVE ReleasedBy(r) \in CallsOf(todo')
  <2>1. Held(r) /\ ReleasedBy(r) # c
    BY <1>3, <1>4
  <2> QED
    BY <1>1, <1>2, <2>1 DEF DownInv
<1>5. ASSUME NEW r \in Unasked, ReleasedBy(r) \in CallsOf(todo') PROVE Held(r)'
  <2>1. r \in Resources /\ r # ClientFd
    BY ThreadResources, Kinds DEF Unasked, Of, Part, ClientFd
  <2>2. Held(r)
    BY <1>1, <1>2, <1>5 DEF DownInv
  <2>3. ReleasedBy(r) # c
    BY <1>2, <1>5, <2>1
  <2> QED
    BY <1>3, <2>1, <2>2, <2>3
<1>6. ASSUME NEW t \in Threads, Held(<<"thread", t>>)', NEW r \in Shared PROVE Held(r)'
  <2>1. /\ <<"thread", t>> \in Resources /\ ReleasedBy(<<"thread", t>>) = JoinOf(t)
        /\ r \in Resources
    BY ThreadResources
  <2>2. Held(<<"thread", t>>) /\ JoinOf(t) \in CallsOf(todo')
    BY <1>3, <1>4, <1>6, <2>1
  <2>3. c[1] # "destroy"
    BY <1>2, <2>2 DEF JoinOf
  <2>4. Held(r)
    BY <1>1, <1>2, <2>2 DEF DownInv
  <2> QED
    BY <1>3, <2>1, <2>3, <2>4
<1>7. RunningInv'
  <2>1. \A t \in running : t \in Threads /\ <<"thread", t>> \in Resources
    BY <1>1, ThreadResources DEF StartupTypes
  <2> QED
    BY <1>1, <1>2, <1>3, <2>1 DEF RunningInv
<1>8. DownInv'
  BY <1>2, <1>4, <1>5, <1>6 DEF DownInv
<1> QED
  BY <1>1, <1>2, <1>3, <1>7, <1>8 DEF StartupInv, StartupTypes, UpInv

LEMMA CallKinds ==
    ASSUME NEW r \in Resources
    PROVE  /\ ReleasedBy(r)[1] \in {"join", "destroy"}
           /\ \A t \in Threads : ReleasedBy(r) = JoinOf(t) <=> r = <<"thread", t>>
           /\ \A part \in Parts : ReleasedBy(r) = DestroyOf(part) <=> r \in Of(part)
BY Kinds DEF ReleasedBy, JoinOf, DestroyOf, Threads, Parts, Of, ListenFd, ClientFd, RecvBuffer

LEMMA StopStep ==
    ASSUME StartupInv, NEW q \in {"frames", "packets"}, StopQueue(q)
    PROVE  StartupInv'
<1>1. Call(StopOf(q)) /\ StopOf(q)[1] = "stop"
  BY DEF StopQueue, StopOf
<1>2. Release({})
  <2>1. balance \in [Resources -> {0, 1}] /\ balance' = balance
    BY DEF StartupInv, StartupTypes, StopQueue
  <2>2. \A r \in Resources : balance[r] - 0 = balance[r]
    BY <2>1
  <2>3. balance' = [r \in Resources |-> balance[r] - 0]
    BY <2>1, <2>2
  <2> QED
    BY <2>3 DEF Release
<1>3. \A r \in Resources : ReleasedBy(r) # StopOf(q)
  BY CallKinds DEF StopOf
<1> QED
  BY <1>1, <1>2, <1>3, ReleasingStep

LEMMA CloseStep == ASSUME StartupInv, CloseClient PROVE StartupInv'
<1> DEFINE S == {r \in {<<"server", "client_fd">>} : Held(r)}
           c == CloseOf("client_fd")
<1>1. Call(c) /\ Release(S) /\ c[1] = "close"
  BY DEF CloseClient, CloseOf
<1>2. \A r \in S : Held(r) /\ r = ClientFd
  BY DEF ClientFd
<1>3. \A r \in Resources : ReleasedBy(r) # c
  BY CallKinds DEF CloseOf
<1>4. S \cap Shared = {} /\ \A t \in Threads : <<"thread", t>> \notin S
  BY <1>2 DEF Shared, ClientFd
<1> HIDE DEF S, c
<1> QED
  BY <1>1, <1>2, <1>3, <1>4, ReleasingStep

LEMMA JoinStep == ASSUME StartupInv, NEW t \in Threads, Join(t) PROVE StartupInv'
<1> DEFINE S == {<<"thread", t>>}
           c == JoinOf(t)
<1>1. Call(c) /\ t \notin running /\ Release(S) /\ c[1] = "join"
  BY DEF Join, JoinOf
<1>2. <<"thread", t>> \in Unasked /\ <<"thread", t>> \in Resources
  BY ThreadResources
<1>3. Held(<<"thread", t>>) /\ ReleasedBy(<<"thread", t>>) = c
  <2>1. phase = "out" /\ c \in CallsOf(todo)
    BY <1>1, CallFacts DEF StartupInv
  <2> QED
    BY <1>2, <2>1, ThreadResources DEF StartupInv, DownInv
<1>4. \A r \in Resources : ReleasedBy(r) = c => r \in S
  BY CallKinds
<1>5. S \cap Shared = {} /\ \A u \in Threads : <<"thread", u>> \in S => u \notin running
  BY <1>1, <1>2 DEF Shared, Of
<1>6. \A r \in S \cap Resources : Held(r) /\ ReleasedBy(r) = c
  BY <1>3
<1> HIDE DEF S, c
<1> QED
  BY <1>1, <1>4, <1>5, <1>6, ReleasingStep

LEMMA DestroyStep == ASSUME StartupInv, NEW part \in Parts, Destroy(part) PROVE StartupInv'
<1> DEFINE S == Releases(part)
           c == DestroyOf(part)
<1>1. Call(c) /\ Release(S) /\ c[1] = "destroy"
  BY DEF Destroy, DestroyOf
<1>2. phase = "out" /\ c \in CallsOf(todo) /\ \A d \in CallsOf(todo') : d[1] # "join"
  BY <1>1, CallFacts DEF StartupInv
<1>3. \A r \in Resources : ReleasedBy(r) = c <=> r \in Of(part)
  BY CallKinds
<1>4. ASSUME NEW r \in S \cap Resources PROVE Held(r) /\ ReleasedBy(r) = c
  <2>1. CASE r \in Of(part) /\ Held(r)
    BY <1>3, <2>1
  <2>2. CASE /\ part = "packet_queue"
             /\ r \in Part("packet_queue", {"mutex", "not_empty", "not_full"})
    <3>1. r \in Unasked /\ r \in Of(part)
      BY <2>2 DEF Unasked, Of, Part
    <3> QED
      BY <1>2, <1>3, <3>1 DEF StartupInv, DownInv
  <2> QED
    BY <2>1, <2>2 DEF Releases, Part
<1>5. \A r \in Resources : Held(r) /\ ReleasedBy(r) = c => r \in S
  BY <1>3 DEF Releases
<1>6. \A t \in Threads : <<"thread", t>> \notin S
  BY DEF Releases, Of, Part, Parts
<1> HIDE DEF S, c
<1> QED
  BY <1>1, <1>4, <1>5, <1>6, ReleasingStep

LEMMA LeaveStep == ASSUME StartupInv, LeavesLoop \/ StreamEnds PROVE StartupInv'
<1>1. /\ phase = "loop" /\ phase' = "out" /\ rung' = rung /\ balance' = balance
      /\ running' = running /\ todo' \in {Finish, StopPipeline \o Finish}
  BY DEF LeavesLoop, StreamEnds
<1>2. Orderly(todo') /\ {JoinOf(t) : t \in Threads} \cup {DestroyOf(part) : part \in Parts}
                            \subseteq CallsOf(todo')
  BY <1>1, WaysOut DEF Calls
<1>3. \A r \in OnLadder : Held(r)
  BY <1>1 DEF StartupInv, UpInv
<1>4. \A r \in Resources : ReleasedBy(r) \in CallsOf(todo')
  <2>1. ASSUME NEW r \in Resources
        PROVE  \/ \E t \in Threads : ReleasedBy(r) = JoinOf(t)
               \/ \E part \in Parts : ReleasedBy(r) = DestroyOf(part)
    BY Kinds DEF ReleasedBy, Threads, Parts, ListenFd, ClientFd, RecvBuffer
  <2> QED
    BY <1>2, <2>1
<1>5. \A r : Held(r)' <=> Held(r)
  BY <1>1 DEF Held
<1>6. DownInv'
  BY <1>2, <1>3, <1>4, <1>5, ThreadResources DEF DownInv
<1> QED
  BY <1>1, <1>5, <1>6 DEF StartupInv, StartupTypes, RunningInv, UpInv

LEMMA ReceiveStep == ASSUME StartupInv, Receive PROVE StartupInv'
<1> DEFINE S == {<<"server", "recv_buffer">>}
<1>1. /\ Acquire(S) /\ "tcp" \in running /\ ~Held(RecvBuffer) /\ S = {RecvBuffer}
      /\ phase' = phase /\ rung' = rung /\ running' = running /\ todo' = todo
  BY DEF Receive, RecvBuffer
<1>2. StartupTypes /\ RunningInv /\ UpInv /\ DownInv
  BY DEF StartupInv
<1> HIDE DEF S
<1>3. /\ balance' \in [Resources -> {0, 1}]
      /\ \A r \in Resources : Held(r)' <=> Held(r) \/ r = RecvBuffer
  BY <1>1, <1>2, AcquireFacts
<1>4. /\ "tcp" \in Threads /\ <<"thread", "tcp">> \in OnLadder /\ Held(<<"thread", "tcp">>)
  BY <1>1, <1>2, ThreadResources DEF RunningInv, Threads
<1>5. \A r \in OnLadder : r \in Resources /\ (Held(r)' <=> Held(r))
  BY <1>3, ThreadResources
<1>6. UpInv'
  <2>1. ASSUME phase = "init" PROVE rung = 23
    BY <1>2, <1>4, <2>1, ThreadResources DEF UpInv, StartupTypes
  <2> QED
    BY <1>1, <1>2, <1>5, <2>1 DEF UpInv
<1>7. DownInv'
  <2> SUFFICES ASSUME phase = "out" PROVE DownInv'
    BY <1>1 DEF DownInv
  <2>1. ReleasedBy(RecvBuffer) \in CallsOf(todo)
    <3>1. Held(ListenFd) /\ ListenFd \in Resources
      BY <1>2, <1>4, ThreadResources DEF DownInv
    <3> QED
      BY <1>2, <3>1, ThreadResources DEF DownInv
  <2>2. \A r \in Resources : Held(r)' => ReleasedBy(r) \in CallsOf(todo)
    BY <1>2, <1>3, <2>1 DEF DownInv
  <2>3. \A r \in Unasked : ReleasedBy(r) \in CallsOf(todo) => Held(r)'
    BY <1>2, <1>5, ThreadResources DEF DownInv
  <2>4. \A t \in Threads : Held(<<"thread", t>>)' => \A r \in Shared : Held(r)'
    BY <1>2, <1>5, ThreadResources DEF DownInv
  <2> QED
    BY <1>1, <1>2, <2>2, <2>3, <2>4 DEF DownInv
<1>8. RunningInv'
  BY <1>1, <1>2, <1>5, ThreadResources DEF RunningInv, StartupTypes
<1> QED
  BY <1>1, <1>2, <1>3, <1>6, <1>7, <1>8 DEF StartupInv, StartupTypes

LEMMA ThreadEndsStep ==
    ASSUME StartupInv, TcpEnds \/ DecoderEnds \/ UNCHANGED startupVars PROVE StartupInv'
<1>1. /\ phase' = phase /\ rung' = rung /\ todo' = todo /\ balance' = balance
      /\ running' \subseteq running
  BY DEF TcpEnds, DecoderEnds, startupVars
<1>2. \A r : Held(r)' <=> Held(r)
  BY <1>1 DEF Held
<1> QED
  BY <1>1, <1>2 DEF StartupInv, StartupTypes, RunningInv, UpInv, DownInv

LEMMA StartupInductive == StartupSpec => []StartupInv
<1>1. StartupInv /\ [StartupNext]_startupVars => StartupInv'
  <2> SUFFICES ASSUME StartupInv, [StartupNext]_startupVars PROVE StartupInv'
    OBVIOUS
  <2>1. CASE Succeeds
    BY <2>1, SucceedsStep
  <2>2. CASE Fails
    BY <2>2, FailsStep
  <2>3. CASE LeavesLoop \/ StreamEnds
    BY <2>3, LeaveStep
  <2>4. CASE \E q \in {"frames", "packets"} : StopQueue(q)
    BY <2>4, StopStep
  <2>5. CASE CloseClient
    BY <2>5, CloseStep
  <2>6. CASE \E t \in Threads : Join(t)
    BY <2>6, JoinStep
  <2>7. CASE \E part \in Parts : Destroy(part)
    BY <2>7, DestroyStep
  <2>8. CASE Receive
    BY <2>8, ReceiveStep
  <2>9. CASE TcpEnds \/ DecoderEnds \/ UNCHANGED startupVars
    BY <2>9, ThreadEndsStep
  <2> QED
    BY <2>1, <2>2, <2>3, <2>4, <2>5, <2>6, <2>7, <2>8, <2>9
    DEF StartupNext, MainMoves, Parts
<1> QED
  BY <1>1, StartupInvInit, PTL DEF StartupSpec

\* Whichever of the 23 steps fails, and however the loop ends, H264PacketQueue_Destroy,
\* pthread_join and the rest release nothing that is not held, and main returns with
\* everything given back.
THEOREM ReleasedOnce == StartupSpec => []NothingLeft
<1>1. StartupInv => NothingLeft
  <2> SUFFICES ASSUME StartupInv PROVE NothingLeft
    OBVIOUS
  <2>1. \A r \in Resources : balance[r] \in {0, 1}
    BY DEF StartupInv, StartupTypes
  <2>2. ASSUME Returned, NEW r \in Resources PROVE balance[r] = 0
    <3>1. CallsOf(todo) = {}
      BY <2>2, WaysOut DEF Returned
    <3>2. ~Held(r)
      BY <2>2, <3>1 DEF StartupInv, DownInv, Returned
    <3> QED
      BY <2>1, <3>2 DEF Held
  <2> QED
    BY <2>1, <2>2 DEF NothingLeft
<1> QED
  BY <1>1, StartupInductive, PTL

\* main destroys the queues, the decoder and the listening socket only after it has
\* joined the threads that use them, also when the second thread cannot be created.
THEOREM ThreadsOutlived == StartupSpec => []NotUnderAThread
<1>1. StartupInv => NotUnderAThread
  <2> SUFFICES ASSUME StartupInv, NEW r \in InUse PROVE Held(r)
    BY DEF NotUnderAThread
  <2>1. CASE \E t \in running : r \in Shared
    <3>1. PICK t \in running : r \in Shared
      BY <2>1
    <3>2. /\ t \in Threads /\ Held(<<"thread", t>>) /\ <<"thread", t>> \in OnLadder
          /\ r \in OnLadder /\ RungOf(r) < 22 /\ RungOf(r) \in 1 .. 23
          /\ RungOf(<<"thread", t>>) >= 22
      BY <3>1, ThreadResources, ResourceFacts
      DEF StartupInv, StartupTypes, RunningInv, Threads
    <3>3. CASE phase = "init"
      <4>1. /\ RungOf(<<"thread", t>>) < rung /\ RungOf(<<"thread", t>>) \in 1 .. 23
            /\ rung \in Nat
        BY <3>2, <3>3, ResourceFacts DEF StartupInv, StartupTypes, UpInv
      <4>2. RungOf(r) < rung
        BY <3>2, <4>1
      <4> QED
        BY <3>2, <3>3, <4>2 DEF StartupInv, UpInv
    <3>4. CASE phase = "loop"
      BY <3>2, <3>4 DEF StartupInv, UpInv
    <3>5. CASE phase = "out"
      BY <3>1, <3>2, <3>5 DEF StartupInv, DownInv
    <3> QED
      BY <3>3, <3>4, <3>5 DEF StartupInv, StartupTypes
  <2>2. CASE phase = "loop" /\ r \in OnLadder
    BY <2>2 DEF StartupInv, UpInv
  <2>3. /\ Of("packet_queue") \cup Of("frame_queue") \cup Of("decoder") \subseteq Shared
        /\ ListenFd \in Shared /\ Of("display") \cup Of("frame_queue") \subseteq OnLadder
    BY Kinds DEF Shared, OnLadder, Of, ListenFd, ClientFd, RecvBuffer
  <2> QED
    BY <2>1, <2>2, <2>3 DEF InUse, ListenFd
<1> QED
  BY <1>1, StartupInductive, PTL
=============================================================================
