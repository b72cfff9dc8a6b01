---------------------------- MODULE Decoder_proofs ----------------------------
(***************************************************************************)
(* Proofs about Decoder for units, inputs and streams of any length and    *)
(* any delay of the codec.                                                 *)
(*                                                                         *)
(* A unit is out once the codec has it.  The invariant says that what is   *)
(* out is in order, that the packet in hand belongs to a later unit, and   *)
(* every piece still to be parsed to a later unit than that: the parser    *)
(* gives a unit away only when it has seen the start of the next.  While   *)
(* no call has failed, the unit of every piece given is out, in hand or    *)
(* still to be parsed.                                                     *)
(***************************************************************************)
EXTENDS Decoder, SequenceTheorems, TLAPS

Calling == pc \in {"receive", "callback"}

\* The input is what was given last; what the parser keeps came before it.
PieceInv ==
    /\ \A i \in 1 .. Len(input) : input[i] = (given - Len(input)) + i
    /\ \A i \in 1 .. Len(held) : held[i] <= given - Len(input)
    /\ Len(input) <= given
    /\ pc = "parse" => Len(input) > 0
    /\ pc = "idle" => Len(input) = 0

\* Which call is in progress and what it holds.
KeepInv ==
    /\ pc \in {"idle", "parse", "parsed"} => ~flushing
    /\ pc \in {"flush send", "flushed", "done"} => flushing
    /\ pc \in {"idle", "done"} => ~input_buffer
    /\ flushing => ~input_buffer
    /\ Calling => /\ after # "idle"
                  /\ after = "parsed" => ~flushing
                  /\ after \in {"flush send", "flushed"} => flushing
    /\ packet # <<>> <=> pc = "send" \/ (Calling /\ after = "send")
    /\ pc = "new packet" => parsed # <<>>
    /\ pc = "callback" => frame # <<>>

\* Every unit that is out comes before unit u.
OutBelow(u) ==
    /\ \A i \in 1 .. Len(delivered) : delivered[i].unit < u
    /\ \A j \in 1 .. Len(inside) : inside[j] < u
    /\ pc = "callback" => frame[1] < u

\* So does every unit in hand.
Ahead(u) ==
    /\ OutBelow(u)
    /\ pc = "new packet" => UnitOf(parsed[1]) < u
    /\ packet # <<>> => UnitOf(packet[1]) < u

\* The units of the pieces that are still to be parsed.
Later == {UnitOf(held[i]) : i \in 1 .. Len(held)}
         \cup {UnitOf(input[i]) : i \in 1 .. Len(input)}
         \cup {UnitOf(given + 1)}

OutInv ==
    /\ \A i, j \in 1 .. Len(delivered) : i < j =>
          /\ delivered[i].unit < delivered[j].unit
          /\ delivered[i].index < delivered[j].index
    /\ \A i \in 1 .. Len(delivered) : delivered[i].index <= frame_count
    /\ \A i, j \in 1 .. Len(inside) : i < j => inside[i] < inside[j]
    /\ \A i \in 1 .. Len(delivered), j \in 1 .. Len(inside) : delivered[i].unit < inside[j]
    /\ pc = "callback" =>
          /\ \A i \in 1 .. Len(delivered) :
                 delivered[i].unit < frame[1] /\ delivered[i].index < frame_count
          /\ \A j \in 1 .. Len(inside) : frame[1] < inside[j]

NextInv ==
    /\ pc = "new packet" => OutBelow(UnitOf(parsed[1]))
    /\ packet # <<>> => OutBelow(UnitOf(packet[1]))
    /\ ~flushing => \A u \in Later : Ahead(u)

IInv == TypeOK /\ PieceInv /\ KeepInv /\ OutInv /\ NextInv

-----------------------------------------------------------------------------
(* Units and sequences.                                                    *)

LEMMA Sizes == /\ PiecesPerUnit \in Nat \ {0} /\ MaxInput \in Nat \ {0}
               /\ Delay \in Nat /\ Backlog \in Nat /\ MaxUnits \in Nat
BY DecoderAssumption

LEMMA Division ==
    ASSUME NEW n \in Nat, NEW k \in Nat \ {0}
    PROVE  /\ n \div k \in Nat /\ n % k \in 0 .. k - 1
           /\ n = k * (n \div k) + (n % k)
BY SMTT(30)

LEMMA Quotients ==
    ASSUME NEW k \in Nat \ {0}, NEW a \in Nat, NEW b \in Nat
    PROVE  k * a < k * b <=> a < b
BY SMTT(30)

LEMMA QuotientMono ==
    ASSUME NEW k \in Nat \ {0}, NEW m \in Nat, NEW n \in Nat, m <= n
    PROVE  m \div k <= n \div k
BY SMTT(30)

LEMMA QuotientNext ==
    ASSUME NEW k \in Nat \ {0}, NEW m \in Nat, NEW n \in Nat, m < n, n % k = 0
    PROVE  m \div k < n \div k
<1>1. /\ m = k * (m \div k) + (m % k) /\ n = k * (n \div k)
      /\ m % k \in Nat /\ m \div k \in Nat /\ n \div k \in Nat
  BY Division
<1>2. k * (m \div k) < k * (n \div k)
  <2>1. k * (m \div k) \in Nat
    BY <1>1
  <2> QED
    BY <1>1, <2>1
<1> QED
  BY <1>1, <1>2, Quotients

LEMMA QuotientBelow ==
    ASSUME NEW k \in Nat \ {0}, NEW n \in Nat, NEW m \in Nat, n < m * k
    PROVE  n \div k < m
<1>1. n = k * (n \div k) + (n % k) /\ n % k \in Nat /\ n \div k \in Nat
  BY Division
<1>2. k * (n \div k) < k * m
  <2>1. k * (n \div k) \in Nat /\ m * k = k * m
    BY <1>1
  <2> QED
    BY <1>1, <2>1
<1> QED
  BY <1>1, <1>2, Quotients

LEMMA UnitMono ==
    ASSUME NEW p \in Nat \ {0}, NEW q \in Nat \ {0}, p <= q
    PROVE  UnitOf(p) \in Nat /\ UnitOf(p) <= UnitOf(q)
<1>1. p - 1 \in Nat /\ q - 1 \in Nat /\ p - 1 <= q - 1
  OBVIOUS
<1> QED
  BY <1>1, Sizes, Division, QuotientMono DEF UnitOf

LEMMA UnitNext ==
    ASSUME NEW p \in Nat \ {0}, NEW q \in Nat \ {0}, p < q, Starts(q)
    PROVE  UnitOf(p) < UnitOf(q)
<1>1. p - 1 \in Nat /\ q - 1 \in Nat /\ p - 1 < q - 1
  OBVIOUS
<1> QED
  BY <1>1, Sizes, Division, QuotientNext DEF UnitOf, Starts

LEMMA UnitType ==
    ASSUME NEW p \in Pieces
    PROVE  p \in Nat \ {0} /\ UnitOf(p) \in Units
<1>1. MaxPieces \in Nat
  BY Sizes DEF MaxPieces
<1>2. p \in Nat \ {0} /\ p - 1 \in Nat /\ p - 1 < MaxUnits * PiecesPerUnit
  BY <1>1 DEF Pieces, MaxPieces
<1>3. (p - 1) \div PiecesPerUnit < MaxUnits /\ (p - 1) \div PiecesPerUnit \in Nat
  BY <1>2, Sizes, QuotientBelow, Division
<1> QED
  BY <1>2, <1>3, Sizes DEF UnitOf, Units

LEMMA FunSeq ==
    ASSUME NEW S, NEW n \in Nat, NEW f \in [1 .. n -> S]
    PROVE  f \in Seq(S) /\ Len(f) = n
<1>1. f \in Seq(S)
  BY SeqDef
<1> QED
  BY <1>1, LenProperties

\* The first n elements and the rest.
LEMMA Cut ==
    ASSUME NEW S, NEW s \in Seq(S), NEW n \in 0 .. Len(s)
    PROVE  /\ SubSeq(s, 1, n) \in Seq(S) /\ Len(SubSeq(s, 1, n)) = n
           /\ \A i \in 1 .. n : SubSeq(s, 1, n)[i] = s[i]
           /\ SubSeq(s, n + 1, Len(s)) \in Seq(S)
           /\ Len(SubSeq(s, n + 1, Len(s))) = Len(s) - n
           /\ \A i \in 1 .. Len(s) - n : SubSeq(s, n + 1, Len(s))[i] = s[n + i]
<1>1. Len(s) \in Nat /\ \A i \in 1 .. Len(s) : s[i] \in S
  BY LenProperties, ElementOfSeq
<1>2. /\ SubSeq(s, 1, n) \in Seq(S)
      /\ Len(SubSeq(s, 1, n)) = IF 1 <= n THEN n - 1 + 1 ELSE 0
      /\ \A i \in 1 .. n - 1 + 1 : SubSeq(s, 1, n)[i] = s[1 + i - 1]
  <2>1. n \in Int /\ \A i \in 1 .. n : s[i] \in S
    BY <1>1
  <2> QED
    BY <2>1, SubSeqProperties
<1>3. /\ SubSeq(s, n + 1, Len(s)) \in Seq(S)
      /\ Len(SubSeq(s, n + 1, Len(s)))
             = IF n + 1 <= Len(s) THEN Len(s) - (n + 1) + 1 ELSE 0
      /\ \A i \in 1 .. Len(s) - (n + 1) + 1 :
             SubSeq(s, n + 1, Len(s))[i] = s[(n + 1) + i - 1]
  <2>1. n + 1 \in Int /\ Len(s) \in Int /\ \A i \in n + 1 .. Len(s) : s[i] \in S
    BY <1>1
  <2> QED
    BY <2>1, SubSeqProperties
<1> QED
  BY <1>1, <1>2, <1>3

\* A sequence that is not empty has a first element.
LEMMA First ==
    ASSUME NEW S, NEW s \in Seq(S), s # <<>>
    PROVE  Len(s) \in Nat /\ Len(s) >= 1 /\ 1 \in 1 .. Len(s) /\ Head(s) = s[1] /\ s[1] \in S
<1>1. Len(s) \in Nat /\ Len(s) # 0
  BY EmptySeq, LenProperties
<1>2. Head(s) = s[1]
  BY HeadTailProperties
<1> QED
  BY <1>1, <1>2, ElementOfSeq

-----------------------------------------------------------------------------
(* Control.                                                                *)

ControlType ==
    /\ pc \in {"idle", "parse", "parsed", "new packet", "send", "receive", "callback",
              "flush send", "flushed", "done"}
    /\ after \in {"idle", "parsed", "send", "flush send", "flushed"}
    /\ flushing \in BOOLEAN /\ input_buffer \in BOOLEAN
    /\ draining \in BOOLEAN /\ failed \in BOOLEAN

PieceType ==
    /\ input \in Seq(Pieces) /\ parsed \in Seq(Pieces)
    /\ held \in Seq(Pieces) /\ packet \in Seq(Pieces)
    /\ Len(input) <= MaxInput /\ consumed \in 0 .. MaxInput /\ given \in 0 .. MaxPieces

CodecType ==
    /\ inside \in Seq(Units) /\ frame \in {<<>>} \cup {<<u>> : u \in Units}
    /\ frame_count \in Nat /\ delivered \in Seq([unit : Units, index : Nat])

LEMMA TypeParts == TypeOK <=> ControlType /\ PieceType /\ CodecType
BY DEF TypeOK, ControlType, PieceType, CodecType

LEMMA ControlStep ==
    ASSUME IInv, [Next]_vars
    PROVE  ControlType' /\ KeepInv'
<1>0. ControlType /\ KeepInv
  BY TypeParts DEF IInv
<1> USE DEF ControlType, KeepInv, Calling
<1>1. ASSUME NEW n \in 1 .. MaxInput, DecodeBegin(n) PROVE ControlType' /\ KeepInv'
  <2>1. /\ pc = "idle" /\ pc' = "parse" /\ input_buffer' = TRUE
        /\ UNCHANGED <<after, flushing, packet, frame, draining, failed>>
    BY <1>1, Zenon DEF DecodeBegin, steps, codec
  <2> QED
    BY <1>0, <2>1
<1>a. ASSUME NEW n \in 1 .. MaxInput, DecodeRefused(n) PROVE ControlType' /\ KeepInv'
  <2>1. /\ pc = "idle" /\ failed' = TRUE
        /\ UNCHANGED <<pc, after, flushing, input_buffer, packet, frame, draining>>
    BY <1>a, Zenon DEF DecodeRefused, steps, local, codec
  <2> QED
    BY <1>0, <2>1
<1>2. CASE Parse
  <2>1. /\ pc = "parse" /\ pc' = IF parsed' = <<>> THEN "parsed" ELSE "new packet"
        /\ UNCHANGED <<after, flushing, input_buffer, packet, frame, draining, failed>>
    BY <1>2, Zenon DEF Parse, steps, codec
  <2>2. CASE parsed' = <<>>
    BY <1>0, <2>1, <2>2
  <2>3. CASE parsed' # <<>>
    BY <1>0, <2>1, <2>3
  <2> QED
    BY <2>2, <2>3
<1>3. CASE ParseAgain \/ DecodeReturns
  <2>1. /\ pc = "parsed" /\ UNCHANGED <<after, flushing, packet, frame, draining, failed>>
        /\ \/ pc' = "parse" /\ input_buffer' = input_buffer
           \/ pc' = "idle" /\ input_buffer' = FALSE
    BY <1>3, Zenon DEF ParseAgain, DecodeReturns, steps, local, codec
  <2>2. CASE pc' = "parse"
    BY <1>0, <2>1, <2>2
  <2>3. CASE pc' # "parse"
    BY <1>0, <2>1, <2>3
  <2> QED
    BY <2>2, <2>3
<1>4. CASE ParseFails \/ NewPacketFails \/ SendFails \/ CallbackRefuses \/ FlushFails
           \/ ReceiveFails
  <2>1. Fails /\ draining' = draining
    BY <1>4, Zenon DEF ParseFails, NewPacketFails, SendFails, CallbackRefuses, FlushFails,
                       ReceiveFails, codec
  <2>2. /\ pc' = IF flushing THEN "done" ELSE "idle"
        /\ after' = after /\ flushing' = flushing
        /\ failed' = TRUE /\ input_buffer' = FALSE /\ packet' = <<>>
    BY <2>1 DEF Fails, ReleasePacket, steps
  <2>3. CASE flushing
    BY <1>0, <2>1, <2>2, <2>3
  <2>4. CASE ~flushing
    BY <1>0, <2>1, <2>2, <2>4
  <2> QED
    BY <2>3, <2>4
<1>5. CASE NewPacket
  <2>1. /\ pc = "new packet" /\ pc' = "send" /\ packet' = parsed
        /\ UNCHANGED <<after, flushing, input_buffer, parsed, frame, draining, failed>>
    BY <1>5, Zenon DEF NewPacket, steps, local, parser, codec
  <2> QED
    BY <1>0, <2>1
<1>6. CASE SendAgain
  <2>1. /\ pc = "send" /\ pc' = "receive" /\ after' = "send"
        /\ UNCHANGED <<flushing, input_buffer, parsed, packet, frame, draining, failed>>
    BY <1>6, Zenon DEF SendAgain, local, parser, codec
  <2> QED
    BY <1>0, <2>1
<1>7. CASE SendAccepted
  <2>1. /\ pc = "send" /\ pc' = "receive" /\ packet' = <<>>
        /\ after' = IF flushing THEN "flush send" ELSE "parsed"
        /\ UNCHANGED <<flushing, input_buffer, parsed, draining, frame, failed>>
    BY <1>7, Zenon DEF SendAccepted, ReleasePacket, AfterSend, local, parser
  <2>2. CASE flushing
    BY <1>0, <2>1, <2>2
  <2>3. CASE ~flushing
    BY <1>0, <2>1, <2>3
  <2> QED
    BY <2>2, <2>3
<1>8. CASE Receive
  <2>1. frame' # <<>>
    BY <1>8, EmptySeq DEF Receive
  <2>2. /\ pc = "receive" /\ pc' = "callback"
        /\ UNCHANGED <<after, flushing, input_buffer, parsed, packet, draining, failed>>
    BY <1>8, Zenon DEF Receive, steps, local, parser
  <2> QED
    BY <1>0, <2>1, <2>2
<1>9. CASE CallbackAccepts \/ ReceiveReturns
  <2>1. /\ Calling /\ UNCHANGED <<after, flushing, input_buffer, parsed, packet, draining,
                                    failed>>
        /\ pc' = "receive" \/ pc' = after
    BY <1>9 DEF CallbackAccepts, ReceiveReturns, steps, local, parser, codec
  <2>2. CASE pc' = "receive"
    BY <1>0, <2>1, <2>2
  <2>3. CASE pc' # "receive"
    BY <1>0, <2>1, <2>3
  <2> QED
    BY <2>2, <2>3
<1>10. CASE FlushBegin
  <2>1. /\ pc = "idle" /\ pc' = IF parsed' = <<>> THEN "flush send" ELSE "new packet"
        /\ flushing' = TRUE
        /\ UNCHANGED <<after, input_buffer, packet, frame, draining, failed>>
    BY <1>10, Zenon DEF FlushBegin, local, codec
  <2>2. CASE parsed' = <<>>
    BY <1>0, <2>1, <2>2
  <2>3. CASE parsed' # <<>>
    BY <1>0, <2>1, <2>3
  <2> QED
    BY <2>2, <2>3
<1>11. CASE FlushParserFails
  <2>1. /\ pc = "idle" /\ pc' = "done" /\ flushing' = TRUE /\ failed' = TRUE
        /\ UNCHANGED <<after, input_buffer, packet, frame, draining>>
    BY <1>11, Zenon DEF FlushParserFails, local, codec
  <2> QED
    BY <1>0, <2>1
<1>12. CASE FlushAccepted \/ FlushAgain
  <2>1. /\ pc = "flush send" /\ pc' = "receive" /\ after' \in {"flush send", "flushed"}
        /\ draining' \in {draining, TRUE}
        /\ UNCHANGED <<flushing, input_buffer, packet, frame, failed>>
    BY <1>12 DEF FlushAccepted, FlushAgain, local, codec
  <2> QED
    BY <1>0, <2>1
<1>14. CASE FlushReturns
  <2>1. /\ pc = "flushed" /\ pc' = "done"
        /\ UNCHANGED <<after, flushing, input_buffer, packet, frame, draining, failed>>
    BY <1>14, Zenon DEF FlushReturns, steps, local, codec
  <2> QED
    BY <1>0, <2>1
<1>15. CASE ParserStalls
  <2>1. /\ pc = "parse" /\ pc' = "parsed" /\ failed' = TRUE
        /\ UNCHANGED <<after, flushing, input_buffer, packet, frame, draining>>
    BY <1>15, Zenon DEF ParserStalls, steps, local, codec
  <2> QED
    BY <1>0, <2>1
<1>13. CASE UNCHANGED vars
  <2>1. UNCHANGED <<pc, after, flushing, input_buffer, draining, failed, packet, parsed,
                    frame>>
    BY <1>13, Zenon DEF vars, steps, local, parser, codec
  <2> QED
    BY <1>0, <2>1
<1> QED
  BY <1>1, <1>a, <1>2, <1>3, <1>4, <1>5, <1>6, <1>7, <1>8, <1>9, <1>10, <1>11, <1>12,
     <1>13, <1>14, <1>15
     DEF Next, Step, Callback, Faults, Finished

-----------------------------------------------------------------------------
(* Pieces.                                                                 *)

\* Where the pieces in hand come from, and what the parser promises of a unit
\* it gives away: the next one starts in what is left of the input.
FromBefore(p) == \/ \E k \in 1 .. Len(held) : p = held[k]
                 \/ \E k \in 1 .. Len(input) : p = input[k]

LEMMA Counts ==
    ASSUME IInv
    PROVE  /\ Len(input) \in Nat /\ Len(held) \in Nat /\ given \in Nat /\ Len(input) <= given
           /\ input \in Seq(Pieces) /\ held \in Seq(Pieces) /\ MaxPieces \in Nat
           /\ Len(input) <= MaxInput
           /\ given <= MaxPieces
           /\ \A i \in 1 .. Len(input) : input[i] \in Pieces
           /\ \A i \in 1 .. Len(held) : held[i] \in Pieces
<1>1. input \in Seq(Pieces) /\ held \in Seq(Pieces) /\ MaxPieces \in Nat
  <2>1. MaxPieces \in Nat
    BY Sizes DEF MaxPieces
  <2> QED
    BY <2>1 DEF IInv, TypeOK
<1>2. given \in Nat /\ given <= MaxPieces /\ Len(input) <= MaxInput /\ Len(input) <= given
  <2>1. given \in 0 .. MaxPieces /\ Len(input) <= MaxInput
    BY DEF IInv, TypeOK
  <2>2. Len(input) <= given
    BY DEF IInv, PieceInv
  <2> QED
    BY <1>1, <2>1, <2>2
<1>3. Len(input) \in Nat /\ Len(held) \in Nat
  BY <1>1, LenProperties
<1>4. /\ \A i \in 1 .. Len(input) : input[i] \in Pieces
      /\ \A i \in 1 .. Len(held) : held[i] \in Pieces
  BY <1>1, ElementOfSeq
<1> QED
  BY <1>1, <1>2, <1>3, <1>4

LEMMA ParseFacts ==
    ASSUME IInv, Parse
    PROVE  /\ PieceType' /\ PieceInv'
           /\ \A i \in 1 .. Len(held') : FromBefore(held'[i])
           /\ \A i \in 1 .. Len(input') : FromBefore(input'[i])
           /\ parsed' # <<>> =>
                 /\ FromBefore(parsed'[1]) /\ Len(held') = 0
                 /\ \E q \in Nat \ {0} :
                        /\ Starts(q) /\ parsed'[1] < q /\ q <= given
                        /\ \A i \in 1 .. Len(input') : q <= input'[i]
<1>0. /\ Len(input) \in Nat /\ Len(held) \in Nat /\ given \in Nat /\ Len(input) <= given
      /\ input \in Seq(Pieces) /\ held \in Seq(Pieces)
      /\ Len(input) <= MaxInput
      /\ \A i \in 1 .. Len(input) : input[i] \in Pieces /\ input[i] = (given - Len(input)) + i
      /\ \A i \in 1 .. Len(held) : held[i] \in Pieces /\ held[i] <= given - Len(input)
      /\ Len(input) > 0
  BY Counts DEF IInv, PieceInv, Parse
<1>a. /\ packet' = packet /\ given' = given /\ pc' \notin {"parse", "idle"}
      /\ PieceType
  BY TypeParts DEF Parse, IInv
<1>p. \A k \in Pieces : k \in Nat \ {0}
  BY UnitType
<1>h. Head(input) = input[1] /\ 1 \in 1 .. Len(input)
  <2>1. input # <<>>
    BY <1>0, EmptySeq
  <2> QED
    BY <1>0, <2>1, First
<1>1. CASE held # <<>> /\ Starts(Head(input))
  <2>1. /\ consumed' = 0 /\ input' = SubSeq(input, 0 + 1, Len(input))
        /\ parsed' = held /\ held' = <<>>
    BY <1>1 DEF Parse, Take
  <2>2. /\ input' \in Seq(Pieces) /\ Len(input') = Len(input)
        /\ \A i \in 1 .. Len(input) : input'[i] = input[i]
    <3>1. 0 \in 0 .. Len(input) /\ Len(input) - 0 = Len(input)
          /\ \A i \in 1 .. Len(input) : 0 + i = i
      BY <1>0
    <3> QED
      BY <1>0, <2>1, <3>1, Cut
  <2>3. held' \in Seq(Pieces) /\ Len(held') = 0
    BY <2>1, EmptySeq
  <2>4. 1 \in 1 .. Len(held)
    BY <1>0, <1>1, First
  <2>5. PieceType'
    BY <1>0, <1>a, <2>1, <2>2, <2>3, Sizes DEF PieceType
  <2>6. PieceInv'
    BY <1>0, <1>a, <2>2, <2>3 DEF PieceInv
  <2>7. /\ input[1] \in Nat \ {0} /\ Starts(input[1]) /\ parsed'[1] < input[1]
        /\ input[1] <= given /\ \A i \in 1 .. Len(input') : input[1] <= input'[i]
    BY <1>0, <1>1, <1>h, <1>p, <2>1, <2>2, <2>4
  <2> QED
    BY <2>1, <2>2, <2>3, <2>4, <2>5, <2>6, <2>7 DEF FromBefore
<1>2. CASE ~(held # <<>> /\ Starts(Head(input))) /\ Boundary = {}
  <2>1. /\ consumed' = Len(input) /\ input' = SubSeq(input, Len(input) + 1, Len(input))
        /\ parsed' = <<>> /\ held' = held \o input
    BY <1>2 DEF Parse, Take
  <2>2. input' \in Seq(Pieces) /\ Len(input') = 0
    <3>1. Len(input) \in 0 .. Len(input) /\ Len(input) - Len(input) = 0
      BY <1>0
    <3> QED
      BY <1>0, <2>1, <3>1, Cut
  <2>3. /\ held' \in Seq(Pieces) /\ Len(held') = Len(held) + Len(input)
        /\ \A i \in 1 .. Len(held) + Len(input) :
               held'[i] = IF i <= Len(held) THEN held[i] ELSE input[i - Len(held)]
    BY <1>0, <2>1, ConcatProperties
  <2>4. ASSUME NEW i \in 1 .. Len(held') PROVE FromBefore(held'[i]) /\ held'[i] <= given
    <3>1. CASE i <= Len(held)
      <4>1. i \in 1 .. Len(held) /\ held'[i] = held[i]
        BY <1>0, <2>3, <3>1
      <4>2. held[i] \in Nat /\ held[i] <= given - Len(input)
        BY <1>0, <1>p, <4>1
      <4> QED
        BY <1>0, <4>1, <4>2 DEF FromBefore
    <3>2. CASE ~(i <= Len(held))
      <4>1. i - Len(held) \in 1 .. Len(input) /\ held'[i] = input[i - Len(held)]
        BY <1>0, <2>3, <3>2
      <4>2. input[i - Len(held)] = (given - Len(input)) + (i - Len(held))
        BY <1>0, <4>1
      <4> QED
        BY <1>0, <4>1, <4>2 DEF FromBefore
    <3> QED
      BY <3>1, <3>2
  <2>5. PieceType'
    BY <1>0, <1>a, <2>1, <2>2, <2>3, EmptySeq, Sizes DEF PieceType
  <2>6. PieceInv'
    BY <1>0, <1>a, <2>2, <2>4 DEF PieceInv
  <2> QED
    BY <2>1, <2>2, <2>4, <2>5, <2>6
<1>3. CASE ~(held # <<>> /\ Starts(Head(input))) /\ Boundary # {}
  <2>1. PICK b \in Boundary :
            /\ consumed' = b - 1 /\ input' = SubSeq(input, (b - 1) + 1, Len(input))
            /\ parsed' = held \o SubSeq(input, 1, b - 1) /\ held' = <<>>
    BY <1>3 DEF Parse, Take
  <2>2. b \in 2 .. Len(input) /\ Starts(input[b])
    BY <2>1 DEF Boundary
  <2>3. b - 1 \in 0 .. Len(input) /\ b - 1 \in 1 .. Len(input) /\ b \in 1 .. Len(input)
        /\ b \in Nat
    BY <1>0, <2>2
  <2>4. /\ SubSeq(input, 1, b - 1) \in Seq(Pieces) /\ Len(SubSeq(input, 1, b - 1)) = b - 1
        /\ \A i \in 1 .. b - 1 : SubSeq(input, 1, b - 1)[i] = input[i]
        /\ input' \in Seq(Pieces) /\ Len(input') = Len(input) - (b - 1)
        /\ \A i \in 1 .. Len(input) - (b - 1) : input'[i] = input[(b - 1) + i]
    BY <1>0, <2>1, <2>3, Cut
  <2>5. held' \in Seq(Pieces) /\ Len(held') = 0
    BY <2>1, EmptySeq
  <2>6. /\ parsed' \in Seq(Pieces) /\ Len(parsed') = Len(held) + (b - 1)
        /\ \A i \in 1 .. Len(held) + (b - 1) :
               parsed'[i] = IF i <= Len(held) THEN held[i]
                            ELSE SubSeq(input, 1, b - 1)[i - Len(held)]
    <3> DEFINE front == SubSeq(input, 1, b - 1)
    <3>1. front \in Seq(Pieces) /\ Len(front) = b - 1 /\ parsed' = held \o front
          /\ held \in Seq(Pieces)
      BY <1>0, <2>1, <2>4
    <3> HIDE DEF front
    <3>2. /\ parsed' \in Seq(Pieces) /\ Len(parsed') = Len(held) + Len(front)
          /\ \A i \in 1 .. Len(held) + Len(front) :
                 parsed'[i] = IF i <= Len(held) THEN held[i] ELSE front[i - Len(held)]
      BY ONLY <3>1, ConcatProperties
    <3> QED
      BY <3>1, <3>2 DEF front
  <2>7. ASSUME NEW i \in 1 .. Len(input')
        PROVE  /\ (b - 1) + i \in 1 .. Len(input) /\ input'[i] = input[(b - 1) + i]
               /\ input'[i] = (given - Len(input)) + ((b - 1) + i)
    <3>1. (b - 1) + i \in 1 .. Len(input) /\ i \in 1 .. Len(input) - (b - 1)
      BY <1>0, <2>3, <2>4
    <3> QED
      BY <1>0, <2>4, <3>1
  <2>8. PieceType'
    BY <1>0, <1>a, <2>1, <2>3, <2>4, <2>5, <2>6, Sizes DEF PieceType
  <2>9. PieceInv'
    <3>1. Len(input') <= given /\ Len(input') \in Nat
      BY <1>0, <2>3, <2>4
    <3>2. \A i \in 1 .. Len(input') : input'[i] = (given - Len(input')) + i
      BY <1>0, <2>3, <2>4, <2>7
    <3> QED
      BY <1>a, <2>5, <3>1, <3>2 DEF PieceInv
  <2>10. FromBefore(parsed'[1]) /\ parsed'[1] < input[b]
    <3>1. input[b] = (given - Len(input)) + b
      BY <1>0, <2>3
    <3>2. CASE Len(held) = 0
      <4>1. 1 \in 1 .. Len(held) + (b - 1) /\ ~(1 <= Len(held)) /\ 1 - Len(held) = 1
            /\ 1 \in 1 .. b - 1
        BY <1>0, <2>2, <3>2
      <4>2. parsed'[1] = input[1] /\ input[1] = (given - Len(input)) + 1
        BY <1>0, <1>h, <2>4, <2>6, <4>1
      <4> QED
        BY <1>0, <1>h, <2>2, <3>1, <4>2 DEF FromBefore
    <3>3. CASE Len(held) # 0
      <4>1. 1 \in 1 .. Len(held) + (b - 1) /\ 1 <= Len(held) /\ 1 \in 1 .. Len(held)
        BY <1>0, <2>2, <3>3
      <4>2. parsed'[1] = held[1] /\ held[1] <= given - Len(input) /\ held[1] \in Nat
        BY <1>0, <1>p, <2>6, <4>1
      <4> QED
        BY <1>0, <2>2, <3>1, <4>1, <4>2 DEF FromBefore
    <3> QED
      BY <3>2, <3>3
  <2>11. /\ input[b] \in Nat \ {0} /\ input[b] <= given
         /\ \A i \in 1 .. Len(input') : input[b] <= input'[i]
    <3>1. input[b] = (given - Len(input)) + b /\ input[b] \in Nat \ {0}
      BY <1>0, <1>p, <2>3
    <3>2. input[b] <= given
      BY <1>0, <2>2, <3>1
    <3>3. ASSUME NEW i \in 1 .. Len(input') PROVE input[b] <= input'[i]
      BY <1>0, <2>3, <2>4, <2>7, <3>1, <3>3
    <3> QED
      BY <3>1, <3>2, <3>3
  <2> QED
    BY <2>2, <2>5, <2>7, <2>8, <2>9, <2>10, <2>11 DEF FromBefore
<1> QED
  BY <1>1, <1>2, <1>3

\* Nothing is given and no input is parsed.
LEMMA PieceFrame ==
    ASSUME IInv, given' = given, UNCHANGED input \/ input' = <<>>, UNCHANGED held \/ held' = <<>>,
           pc' = "parse" => input' = input /\ input # <<>>,
           pc' = "idle" => input' = <<>>,
           parsed' \in Seq(Pieces), packet' \in Seq(Pieces), consumed' \in 0 .. MaxInput
    PROVE  PieceType' /\ PieceInv'
<1>0. /\ PieceType /\ PieceInv /\ Len(input) \in Nat /\ Len(held) \in Nat /\ given \in Nat
      /\ Len(input) <= given
      /\ \A i \in 1 .. Len(held) : held[i] \in Pieces
  BY TypeParts, Counts DEF IInv
<1>1. /\ input' \in Seq(Pieces) /\ Len(input') \in {0, Len(input)}
      /\ Len(input') # 0 => input' = input
      /\ input' = <<>> => Len(input') = 0
      /\ input' # <<>> => Len(input') # 0
  <2>1. input \in Seq(Pieces) /\ Len(<<>>) = 0 /\ <<>> \in Seq(Pieces)
        /\ (Len(input) = 0 => input = <<>>)
    BY <1>0, EmptySeq DEF PieceType
  <2>2. CASE input' = <<>>
    BY <2>1, <2>2
  <2>3. CASE input' = input
    BY <2>1, <2>3
  <2> QED
    BY <2>2, <2>3
<1>2. held' \in Seq(Pieces) /\ (Len(held') = 0 \/ held' = held)
  BY <1>0, EmptySeq DEF PieceType
<1>3. PieceType'
  BY <1>0, <1>1, <1>2, Sizes DEF PieceType
<1>4. \A i \in 1 .. Len(input') : input'[i] = (given' - Len(input')) + i
  <2>1. CASE Len(input') = 0
    BY <2>1
  <2>2. CASE Len(input') # 0
    <3>1. input' = input /\ given' = given
      BY <1>1, <2>2
    <3> QED
      BY <1>0, <3>1 DEF PieceInv
  <2> QED
    BY <2>1, <2>2
<1>5. \A i \in 1 .. Len(held') : held'[i] <= given' - Len(input')
  <2>1. SUFFICES ASSUME NEW i \in 1 .. Len(held') PROVE held'[i] <= given' - Len(input')
    OBVIOUS
  <2>2. held' = held /\ i \in 1 .. Len(held)
    BY <1>2, <2>1
  <2>3. held[i] \in Nat /\ held[i] <= given - Len(input)
    BY <1>0, <2>2, UnitType DEF PieceInv
  <2> QED
    BY <1>0, <1>1, <2>2, <2>3
<1>6. pc' = "parse" => Len(input') > 0
  BY <1>0, <1>1
<1>7. Len(input') <= given' /\ (pc' = "idle" => Len(input') = 0)
  BY <1>0, <1>1
<1> QED
  BY <1>3, <1>4, <1>5, <1>6, <1>7 DEF PieceInv

LEMMA PieceStep ==
    ASSUME IInv, [Next]_vars
    PROVE  PieceType' /\ PieceInv'
<1>0. PieceType /\ PieceInv /\ KeepInv
  BY TypeParts DEF IInv
<1>a. <<>> \in Seq(Pieces) /\ 0 \in 0 .. MaxInput
  BY EmptySeq, Sizes
<1>i. pc = "idle" => input = <<>>
  BY <1>0, EmptySeq DEF PieceInv, PieceType
<1>1. ASSUME NEW n \in 1 .. MaxInput, DecodeBegin(n) PROVE PieceType' /\ PieceInv'
  <2>0. /\ given \in Nat /\ MaxPieces \in Nat /\ n \in Nat \ {0} /\ n <= MaxInput
        /\ Len(input) \in Nat /\ Len(held) \in Nat
    BY Counts, Sizes
  <2>1. /\ given + n <= MaxPieces /\ given' = given + n /\ input' = [i \in 1 .. n |-> given + i]
        /\ UNCHANGED <<held, parsed, consumed, packet>> /\ pc' = "parse"
    BY <1>1 DEF DecodeBegin, parser
  <2>2. input' \in Seq(Pieces) /\ Len(input') = n
    <3>1. input' \in [1 .. n -> Pieces]
      BY <2>0, <2>1 DEF Pieces
    <3> QED
      BY <2>0, <3>1, FunSeq
  <2>3. PieceType'
    BY <1>0, <2>0, <2>1, <2>2 DEF PieceType
  <2>4. \A i \in 1 .. Len(held) : held[i] \in Nat /\ held[i] <= given - Len(input)
    BY <1>0, Counts, UnitType DEF PieceInv
  <2>5. \A i \in 1 .. Len(held') : held'[i] <= given' - Len(input')
    BY <2>0, <2>1, <2>2, <2>4
  <2>6. \A i \in 1 .. Len(input') : input'[i] = (given' - Len(input')) + i
    BY <2>0, <2>1, <2>2
  <2> QED
    BY <2>0, <2>1, <2>2, <2>3, <2>5, <2>6 DEF PieceInv
<1>2. ASSUME NEW n \in 1 .. MaxInput, DecodeRefused(n) PROVE PieceType' /\ PieceInv'
  <2>0. /\ given \in Nat /\ MaxPieces \in Nat /\ n \in Nat \ {0}
        /\ Len(held) \in Nat
    BY Counts, Sizes
  <2>1. /\ pc = "idle" /\ pc' = "idle" /\ given + n <= MaxPieces /\ given' = given + n
        /\ UNCHANGED <<input, held, parsed, consumed, packet>>
    BY <1>2 DEF DecodeRefused, parser, local
  <2>2. Len(input) = 0
    BY <1>0, <2>1 DEF PieceInv
  <2>3. \A i \in 1 .. Len(held) : held[i] \in Nat /\ held[i] <= given
    BY <1>0, <2>0, <2>2, Counts, UnitType DEF PieceInv
  <2>4. PieceType'
    BY <1>0, <2>0, <2>1 DEF PieceType
  <2> QED
    BY <2>0, <2>1, <2>2, <2>3, <2>4 DEF PieceInv
<1>3. CASE Parse
  BY <1>3, ParseFacts
<1>4. CASE ParseAgain
  BY <1>0, <1>4, PieceFrame DEF ParseAgain, PieceType, local, parser
<1>5. CASE DecodeReturns
  BY <1>0, <1>a, <1>5, PieceFrame DEF DecodeReturns, PieceType
<1>6. CASE ParseFails \/ NewPacketFails \/ SendFails \/ CallbackRefuses \/ FlushFails
           \/ ReceiveFails
  <2>1. Fails /\ held' = held
    BY <1>6, Zenon DEF ParseFails, NewPacketFails, SendFails, CallbackRefuses, FlushFails,
                       ReceiveFails
  <2>2. /\ pc' \in {"idle", "done"} /\ given' = given /\ input' = <<>> /\ parsed' = <<>>
        /\ packet' = <<>> /\ consumed' = 0
    BY <2>1 DEF Fails, ReleasePacket
  <2> QED
    BY <1>a, <2>1, <2>2, PieceFrame
<1>7. CASE NewPacket
  BY <1>0, <1>7, PieceFrame DEF NewPacket, PieceType, local, parser
<1>8. CASE SendAccepted
  BY <1>0, <1>a, <1>8, PieceFrame DEF SendAccepted, ReleasePacket, PieceType, local, parser
<1>9. CASE SendAgain \/ Receive \/ CallbackAccepts \/ FlushAccepted \/ FlushAgain
  <2>1. UNCHANGED <<input, consumed, parsed, held, packet, given>> /\ pc' \notin {"parse", "idle"}
    BY <1>9 DEF SendAgain, Receive, CallbackAccepts, FlushAccepted, FlushAgain, local, parser
  <2> QED
    BY <1>0, <2>1, PieceFrame DEF PieceType
<1>10. CASE ReceiveReturns
  <2>1. UNCHANGED <<input, consumed, parsed, held, packet, given>> /\ pc' = after
        /\ pc = "receive"
    BY <1>10 DEF ReceiveReturns, local, parser
  <2>2. after \in {"parsed", "send", "flush send", "flushed"}
    BY <1>0, <2>1, TypeParts DEF KeepInv, Calling, ControlType, IInv
  <2> QED
    BY <1>0, <2>1, <2>2, PieceFrame DEF PieceType
<1>11. CASE FlushBegin
  <2>1. /\ pc' \in {"flush send", "new packet"} /\ parsed' = held /\ held' = <<>>
        /\ UNCHANGED <<input, consumed, packet, given>>
    BY <1>11 DEF FlushBegin, FlushParser, local
  <2> QED
    BY <1>0, <2>1, PieceFrame DEF PieceType
<1>12. CASE FlushParserFails
  BY <1>0, <1>12, PieceFrame DEF FlushParserFails, PieceType, local, parser
<1>13. CASE FlushReturns
  BY <1>0, <1>a, <1>13, PieceFrame DEF FlushReturns, PieceType, local
<1>15. CASE ParserStalls
  BY <1>0, <1>a, <1>15, PieceFrame DEF ParserStalls, PieceType, local
<1>14. CASE UNCHANGED vars
  <2>1. UNCHANGED <<pc, input, consumed, parsed, held, packet, given>>
    BY <1>14, Zenon DEF vars, local, parser
  <2> QED
    BY <1>0, <2>1 DEF PieceType, PieceInv
<1> QED
  BY <1>1, <1>2, <1>3, <1>4, <1>5, <1>6, <1>7, <1>8, <1>9, <1>10, <1>11, <1>12, <1>13, <1>14,
     <1>15 DEF Next, Step, Callback, Faults, Finished

-----------------------------------------------------------------------------
(* Units.                                                                  *)

Records == [unit : Units, index : Nat]

LEMMA Trans ==
    ASSUME NEW a \in Nat, NEW b \in Nat, NEW c \in Nat, a < b, b <= c
    PROVE  a < c
OBVIOUS

LEMMA Beyond ==
    ASSUME NEW a \in Nat, NEW b \in Nat, a <= b
    PROVE  b + 1 \in Nat /\ b + 1 > a
OBVIOUS

LEMMA CodecFacts ==
    ASSUME IInv
    PROVE  /\ inside \in Seq(Units) /\ delivered \in Seq(Records)
           /\ Len(inside) \in Nat /\ Len(delivered) \in Nat /\ frame_count \in Nat
           /\ \A j \in 1 .. Len(inside) : inside[j] \in Units /\ inside[j] \in Nat
           /\ \A i \in 1 .. Len(delivered) :
                  delivered[i] \in Records /\ delivered[i].unit \in Nat
                  /\ delivered[i].index \in Nat
           /\ pc = "callback" => /\ Len(frame) = 1 /\ frame[1] \in Units /\ frame[1] \in Nat
                                 /\ Head(frame) = frame[1]
<1>1. inside \in Seq(Units) /\ delivered \in Seq(Records) /\ frame_count \in Nat
  BY DEF IInv, TypeOK, Records
<1>2. Units \subseteq Nat
  BY Sizes DEF Units
<1>3. /\ Len(inside) \in Nat /\ Len(delivered) \in Nat
      /\ \A j \in 1 .. Len(inside) : inside[j] \in Units
      /\ \A i \in 1 .. Len(delivered) : delivered[i] \in Records
  BY <1>1, LenProperties, ElementOfSeq
<1>4. pc = "callback" => /\ Len(frame) = 1 /\ frame[1] \in Units /\ Head(frame) = frame[1]
  <2>1. SUFFICES ASSUME pc = "callback"
                 PROVE  Len(frame) = 1 /\ frame[1] \in Units /\ Head(frame) = frame[1]
    OBVIOUS
  <2>2. frame # <<>> /\ frame \in {<<>>} \cup {<<u>> : u \in Units}
    BY <2>1 DEF IInv, TypeOK, KeepInv
  <2>3. PICK u \in Units : frame = <<u>>
    BY <2>2
  <2> QED
    BY <2>3
<1> QED
  BY <1>1, <1>2, <1>3, <1>4 DEF Records

LEMMA PacketUnits ==
    ASSUME IInv
    PROVE  /\ pc = "new packet" => Head(parsed) = parsed[1] /\ UnitOf(parsed[1]) \in Units
                                   /\ UnitOf(parsed[1]) \in Nat
           /\ packet # <<>> => Head(packet) = packet[1] /\ UnitOf(packet[1]) \in Units
                               /\ UnitOf(packet[1]) \in Nat
<1>1. Units \subseteq Nat
  BY Sizes DEF Units
<1>2. parsed \in Seq(Pieces) /\ packet \in Seq(Pieces) /\ (pc = "new packet" => parsed # <<>>)
  BY DEF IInv, TypeOK, KeepInv
<1> QED
  BY <1>1, <1>2, First, UnitType

LEMMA LaterFacts ==
    ASSUME IInv
    PROVE  Later \subseteq Nat /\ UnitOf(given + 1) \in Later
<1>1. \A p \in Nat \ {0} : UnitOf(p) \in Nat
  BY UnitMono
<1>2. /\ given + 1 \in Nat \ {0}
      /\ \A i \in 1 .. Len(held) : held[i] \in Nat \ {0}
      /\ \A i \in 1 .. Len(input) : input[i] \in Nat \ {0}
  BY Counts, UnitType
<1> QED
  BY <1>1, <1>2 DEF Later

\* What is to come only moves on.
LEMMA LaterMoves ==
    ASSUME IInv, given' \in Nat, given <= given',
           \A i \in 1 .. Len(held') : FromBefore(held'[i]),
           \A i \in 1 .. Len(input') :
               FromBefore(input'[i]) \/ (input'[i] \in Nat /\ input'[i] > given)
    PROVE  \A v \in Later' : v \in Nat /\ \E u \in Later : u <= v
<1>0. Later \subseteq Nat /\ UnitOf(given + 1) \in Later /\ given \in Nat
  BY LaterFacts, Counts
<1>1. ASSUME NEW p, FromBefore(p)
      PROVE  UnitOf(p) \in Nat /\ \E u \in Later : u <= UnitOf(p)
  <2>1. UnitOf(p) \in Later
    BY <1>1 DEF FromBefore, Later
  <2>2. UnitOf(p) \in Nat
    BY <1>0, <2>1
  <2>3. UnitOf(p) <= UnitOf(p)
    BY ONLY <2>2
  <2> QED
    BY <2>1, <2>2, <2>3
<1>2. ASSUME NEW p \in Nat, p > given
      PROVE  UnitOf(p) \in Nat /\ \E u \in Later : u <= UnitOf(p)
  <2>1. p \in Nat \ {0} /\ given + 1 \in Nat \ {0} /\ given + 1 <= p
    BY <1>0, <1>2
  <2>2. UnitOf(p) \in Nat /\ UnitOf(given + 1) <= UnitOf(p)
    BY <2>1, UnitMono
  <2> QED
    BY <1>0, <2>2
<1>3. SUFFICES ASSUME NEW v \in Later' PROVE v \in Nat /\ \E u \in Later : u <= v
  OBVIOUS
<1>4. CASE \E i \in 1 .. Len(held') : v = UnitOf(held'[i])
  BY <1>1, <1>4
<1>5. CASE \E i \in 1 .. Len(input') : v = UnitOf(input'[i])
  BY <1>1, <1>2, <1>5
<1>6. CASE v = UnitOf(given' + 1)
  <2>1. given' + 1 \in Nat /\ given' + 1 > given
    <3>1. given \in Nat /\ given' \in Nat /\ given <= given'
      BY <1>0
    <3> QED
      BY ONLY <3>1, Beyond
  <2> QED
    BY <1>2, <1>6, <2>1
<1> QED
  BY <1>3, <1>4, <1>5, <1>6 DEF Later

LEMMA Below ==
    ASSUME IInv, NEW u \in Nat, NEW v \in Nat, u <= v, Ahead(u)
    PROVE  Ahead(v)
<1>1. /\ \A j \in 1 .. Len(inside) : inside[j] \in Nat
      /\ \A i \in 1 .. Len(delivered) : delivered[i].unit \in Nat
      /\ pc = "callback" => frame[1] \in Nat
      /\ pc = "new packet" => UnitOf(parsed[1]) \in Nat
      /\ packet # <<>> => UnitOf(packet[1]) \in Nat
  BY CodecFacts, PacketUnits
<1>2. u \in Nat /\ v \in Nat /\ u <= v
  OBVIOUS
<1>3. \A a \in Nat : a < u => a < v
  BY ONLY <1>2, Trans
<1> QED
  BY <1>1, <1>3 DEF Ahead, OutBelow

\* The codec gives and takes nothing but, when decoding fails, its first unit; no
\* packet comes into hand.
LEMMA UnitFrame ==
    ASSUME IInv, UNCHANGED <<delivered, frame_count>>,
           NEW d \in {0, 1}, inside' \in Seq(Units), Len(inside') = Len(inside) - d,
           \A j \in 1 .. Len(inside) - d : inside'[j] = inside[j + d],
           pc' = "callback" => pc = "callback" /\ frame' = frame,
           pc' = "new packet" => pc = "new packet" /\ parsed' = parsed,
           packet' = <<>> \/ packet' = packet,
           ~flushing' => ~flushing /\ \A v \in Later' : v \in Nat /\ \E u \in Later : u <= v
    PROVE  OutInv' /\ NextInv'
<1>0. /\ OutInv /\ NextInv
      /\ Len(inside) \in Nat /\ Len(delivered) \in Nat /\ frame_count \in Nat
      /\ \A j \in 1 .. Len(inside) : inside[j] \in Nat
      /\ \A i \in 1 .. Len(delivered) : delivered[i].unit \in Nat /\ delivered[i].index \in Nat
      /\ pc = "callback" => frame[1] \in Nat
      /\ Later \subseteq Nat
  BY CodecFacts, LaterFacts DEF IInv
<1>1. \A j \in 1 .. Len(inside') :
          j + d \in 1 .. Len(inside) /\ inside'[j] = inside[j + d] /\ j \in Nat
  <2>1. d \in {0, 1} /\ Len(inside) \in Nat
    BY <1>0
  <2>2. \A j \in 1 .. Len(inside) - d : j + d \in 1 .. Len(inside) /\ j \in Nat
    BY ONLY <2>1
  <2> QED
    BY <2>2
<1>2. OutInv'
  <2>1. \A i, j \in 1 .. Len(inside') : i < j => inside'[i] < inside'[j]
    <3>1. SUFFICES ASSUME NEW i \in 1 .. Len(inside'), NEW j \in 1 .. Len(inside'), i < j
                   PROVE  inside'[i] < inside'[j]
      OBVIOUS
    <3>0. i \in Nat /\ j \in Nat /\ i < j /\ d \in {0, 1}
      BY <1>1, <3>1
    <3>2. i + d < j + d
      BY ONLY <3>0
    <3> QED
      BY <1>0, <1>1, <3>2 DEF OutInv
  <2> QED
    BY <1>0, <1>1, <2>1 DEF OutInv
<1>3. ASSUME NEW u, OutBelow(u) PROVE OutBelow(u)'
  BY <1>1, <1>3 DEF OutBelow
<1>4. ASSUME NEW v \in Nat, NEW u \in Nat, u <= v, Ahead(u) PROVE Ahead(v)'
  <2>1. Ahead(v)
    BY <1>4, Below
  <2> QED
    BY <1>3, <2>1 DEF Ahead
<1>5. pc' = "new packet" => OutBelow(UnitOf(parsed[1]))'
  BY <1>0, <1>3 DEF NextInv, OutBelow
<1>6. packet' # <<>> => OutBelow(UnitOf(packet[1]))'
  BY <1>0, <1>1 DEF NextInv, OutBelow
<1>7. ASSUME ~flushing' PROVE \A v \in Later' : Ahead(v)'
  BY <1>0, <1>4, <1>7 DEF NextInv
<1> QED
  BY <1>2, <1>5, <1>6, <1>7 DEF NextInv

\* Nothing at all happens in the codec.
LEMMA CodecIdle ==
    ASSUME IInv, UNCHANGED <<delivered, frame_count, inside>>,
           frame' = frame \/ frame' = <<>>,
           pc' = "callback" => pc = "callback" /\ frame' = frame,
           pc' = "new packet" => pc = "new packet" /\ parsed' = parsed,
           packet' = <<>> \/ packet' = packet,
           ~flushing' => ~flushing /\ \A v \in Later' : v \in Nat /\ \E u \in Later : u <= v
    PROVE  CodecType' /\ OutInv' /\ NextInv'
<1>1. CodecType /\ CodecType'
  BY TypeParts DEF CodecType, IInv
<1>2. /\ inside' \in Seq(Units) /\ Len(inside') = Len(inside) - 0
      /\ \A j \in 1 .. Len(inside) - 0 : inside'[j] = inside[j + 0]
  <2>1. inside' = inside /\ inside \in Seq(Units) /\ Len(inside) \in Nat
    BY CodecFacts
  <2>2. Len(inside) - 0 = Len(inside) /\ \A j \in 1 .. Len(inside) : j + 0 = j
    BY ONLY <2>1
  <2> QED
    BY <2>1, <2>2
<1>3. 0 \in {0, 1} /\ UNCHANGED <<delivered, frame_count>>
  OBVIOUS
<1>4. OutInv' /\ NextInv'
  BY <1>2, <1>3, UnitFrame
<1> QED
  BY <1>1, <1>4

\* The pieces to come are the same, or fewer.
LEMMA SamePieces ==
    ASSUME IInv, given' = given, held' = held, input' = input \/ input' = <<>>
    PROVE  \A v \in Later' : v \in Nat /\ \E u \in Later : u <= v
<1>1. given \in Nat /\ given <= given' /\ given' \in Nat
  BY Counts
<1>2. \A i \in 1 .. Len(held') : FromBefore(held'[i])
  BY DEF FromBefore
<1>3. \A i \in 1 .. Len(input') : FromBefore(input'[i])
  <2>1. CASE input' = input
    BY <2>1 DEF FromBefore
  <2>2. CASE input' = <<>>
    BY <2>2
  <2> QED
    BY <2>1, <2>2
<1> QED
  BY <1>1, <1>2, <1>3, LaterMoves

\* Every failure but the one of receive_frames leaves the codec as it is.
LEMMA FailsUnits ==
    ASSUME IInv, Fails, held' = held, UNCHANGED codec
    PROVE  CodecType' /\ OutInv' /\ NextInv'
<1>1. /\ pc' \in {"idle", "done"} /\ given' = given /\ input' = <<>> /\ packet' = <<>>
      /\ delivered' = delivered /\ flushing' = flushing
  BY Zenon DEF Fails, ReleasePacket, steps
<1>2. \A v \in Later' : v \in Nat /\ \E u \in Later : u <= v
  BY <1>1, SamePieces
<1> QED
  BY <1>1, <1>2, CodecIdle DEF codec

LEMMA BeginUnits ==
    ASSUME IInv, NEW n \in 1 .. MaxInput, DecodeBegin(n) \/ DecodeRefused(n)
    PROVE  CodecType' /\ OutInv' /\ NextInv'
<1>0. given \in Nat /\ n \in Nat \ {0} /\ Len(input) \in Nat
  BY Counts, Sizes
<1>1. /\ pc = "idle" /\ pc' \in {"idle", "parse"} /\ given' = given + n /\ held' = held
      /\ flushing' = flushing /\ packet' = packet
      /\ UNCHANGED <<delivered, frame_count, inside, frame>>
      /\ input' = input \/ input' = [i \in 1 .. n |-> given + i]
  BY DEF DecodeBegin, DecodeRefused, steps, local, parser, codec
<1>2. given' \in Nat /\ given <= given'
  BY <1>0, <1>1
<1>3. \A i \in 1 .. Len(held') : FromBefore(held'[i])
  BY <1>1 DEF FromBefore
<1>4. \A i \in 1 .. Len(input') :
          FromBefore(input'[i]) \/ (input'[i] \in Nat /\ input'[i] > given)
  <2>1. CASE input' = input
    BY <2>1 DEF FromBefore
  <2>2. CASE input' = [i \in 1 .. n |-> given + i]
    <3>1. input' \in [1 .. n -> Nat]
      BY <1>0, <2>2
    <3>2. Len(input') = n
      BY <1>0, <3>1, FunSeq
    <3> QED
      BY <1>0, <2>2, <3>2
  <2> QED
    BY <1>1, <2>1, <2>2
<1>5. \A v \in Later' : v \in Nat /\ \E u \in Later : u <= v
  BY <1>2, <1>3, <1>4, LaterMoves
<1>6. ~flushing' => ~flushing
  BY <1>1
<1>7. /\ UNCHANGED <<delivered, frame_count, inside>> /\ frame' = frame /\ packet' = packet
      /\ pc' # "callback" /\ pc' # "new packet"
  BY <1>1
<1> QED
  BY <1>5, <1>6, <1>7, CodecIdle

LEMMA ParseUnits ==
    ASSUME IInv, Parse
    PROVE  CodecType' /\ OutInv' /\ NextInv'
<1>0. /\ pc = "parse" /\ packet' = packet /\ given' = given /\ flushing' = flushing
      /\ UNCHANGED <<delivered, frame_count, inside, frame>>
      /\ pc' = IF parsed' = <<>> THEN "parsed" ELSE "new packet"
  BY Zenon DEF Parse, steps, codec
<1>1. packet = <<>> /\ ~flushing /\ given \in Nat /\ NextInv /\ OutInv
  BY <1>0, Counts DEF IInv, KeepInv, Calling
<1>2. \A v \in Later' : v \in Nat /\ \E u \in Later : u <= v
  <2>1. given' \in Nat /\ given <= given'
    <3>1. given \in Nat /\ given' = given
      BY <1>0, <1>1
    <3> QED
      BY ONLY <3>1
  <2>2. /\ \A i \in 1 .. Len(held') : FromBefore(held'[i])
        /\ \A i \in 1 .. Len(input') : FromBefore(input'[i])
    BY ParseFacts
  <2> QED
    BY <2>1, <2>2, LaterMoves
<1>3. CASE parsed' = <<>>
  BY <1>0, <1>2, <1>3, CodecIdle
<1>4. CASE parsed' # <<>>
  <2>1. /\ FromBefore(parsed'[1]) /\ Len(held') = 0 /\ PieceType'
        /\ \A i \in 1 .. Len(input') : FromBefore(input'[i])
    BY <1>4, ParseFacts
  <2>2. PICK q \in Nat \ {0} :
            /\ Starts(q) /\ parsed'[1] < q /\ q <= given
            /\ \A i \in 1 .. Len(input') : q <= input'[i]
    BY <1>4, ParseFacts
  <2>3. parsed'[1] \in Nat \ {0}
    BY <2>1, Counts, UnitType DEF FromBefore
  <2>4. PICK u \in Nat : u = UnitOf(parsed'[1])
    BY <2>3, UnitMono
  <2>5. Ahead(u)
    <3>1. u \in Later
      BY <2>1, <2>4 DEF FromBefore, Later
    <3> QED
      BY <1>1, <3>1 DEF NextInv
  <2>6. ASSUME NEW p \in Nat \ {0}, q <= p PROVE u < UnitOf(p)
    <3>1. u < UnitOf(q)
      BY <2>2, <2>3, <2>4, UnitNext
    <3>2. UnitOf(q) \in Nat /\ UnitOf(p) \in Nat /\ UnitOf(q) <= UnitOf(p)
      BY <2>6, UnitMono
    <3> QED
      BY <2>4, <3>1, <3>2, Trans
  <2>7. ASSUME NEW v \in Later' PROVE u < v
    <3>1. CASE \E i \in 1 .. Len(input') : v = UnitOf(input'[i])
      <4>1. PICK i \in 1 .. Len(input') : v = UnitOf(input'[i])
        BY <3>1
      <4>2. input'[i] \in Nat \ {0} /\ q <= input'[i]
        BY <2>1, <2>2, <4>1, Counts, UnitType DEF FromBefore
      <4> QED
        BY <2>6, <4>1, <4>2
    <3>2. CASE v = UnitOf(given' + 1)
      <4>1. given + 1 \in Nat \ {0} /\ q <= given + 1
        BY <1>1, <2>2
      <4> QED
        BY <1>0, <2>6, <3>2, <4>1
    <3>3. ~\E i \in 1 .. Len(held') : v = UnitOf(held'[i])
      BY <2>1
    <3> QED
      BY <3>1, <3>2, <3>3 DEF Later
  <2>8. ASSUME NEW v \in Later' PROVE Ahead(v)'
    <3>1. PICK w \in Later : v \in Nat /\ w <= v
      BY <1>2, <2>8
    <3>2. w \in Nat /\ Ahead(w)
      BY <1>1, <3>1, LaterFacts DEF NextInv
    <3>3. Ahead(v)
      BY <3>1, <3>2, Below
    <3>4. u < v
      BY <2>7, <2>8
    <3> QED
      BY <1>0, <1>1, <2>4, <3>3, <3>4 DEF Ahead, OutBelow
  <2>9. OutBelow(UnitOf(parsed[1]))'
    BY <1>0, <1>1, <2>4, <2>5 DEF Ahead, OutBelow
  <2>10. NextInv'
    BY <1>0, <1>1, <2>8, <2>9 DEF NextInv
  <2>11. OutInv'
    BY <1>0, <1>1, <1>4 DEF OutInv
  <2>12. CodecType'
    BY <1>0, TypeParts DEF CodecType, IInv
  <2> QED
    BY <2>10, <2>11, <2>12
<1> QED
  BY <1>3, <1>4

LEMMA PacketStep ==
    ASSUME IInv, NewPacket \/ SendAgain
    PROVE  CodecType' /\ OutInv' /\ NextInv'
<1>1. CASE SendAgain
  <2>1. /\ pc = "send" /\ pc' = "receive"
        /\ UNCHANGED <<flushing, input, held, packet, inside, frame, frame_count, given,
                       delivered>>
    BY <1>1, Zenon DEF SendAgain, local, parser, codec
  <2>2. \A v \in Later' : v \in Nat /\ \E u \in Later : u <= v
    BY <2>1, SamePieces
  <2> QED
    BY <2>1, <2>2, CodecIdle
<1>2. CASE NewPacket
  <2>1. /\ pc = "new packet" /\ pc' = "send" /\ packet' = parsed
        /\ UNCHANGED <<flushing, input, held, parsed, inside, frame, frame_count, given,
                       delivered>>
    BY <1>2, Zenon DEF NewPacket, steps, local, parser, codec
  <2>2. NextInv /\ OutInv /\ Later' = Later
    BY <2>1 DEF IInv, Later
  <2>3. NextInv'
    <3>1. packet' # <<>> => OutBelow(UnitOf(packet[1]))'
      BY <2>1, <2>2 DEF NextInv, OutBelow
    <3>2. ASSUME NEW u, Ahead(u) PROVE Ahead(u)'
      BY <2>1, <3>2 DEF Ahead, OutBelow
    <3> QED
      BY <2>1, <2>2, <3>1, <3>2 DEF NextInv
  <2>4. OutInv'
    BY <2>1, <2>2 DEF OutInv
  <2>5. CodecType'
    BY <2>1, TypeParts DEF CodecType, IInv
  <2> QED
    BY <2>3, <2>4, <2>5
<1> QED
  BY <1>1, <1>2

\* The packet goes into the codec, behind everything that is out.
LEMMA AcceptUnits ==
    ASSUME IInv, SendAccepted
    PROVE  CodecType' /\ OutInv' /\ NextInv'
<1>1. /\ pc = "send" /\ pc' = "receive" /\ packet' = <<>>
      /\ inside' = Append(inside, UnitOf(Head(packet)))
      /\ UNCHANGED <<flushing, input, held, frame, frame_count, given, delivered>>
  BY Zenon DEF SendAccepted, ReleasePacket, local, parser
<1>2. packet # <<>> /\ NextInv /\ OutInv /\ CodecType
  BY <1>1, TypeParts DEF IInv, KeepInv
<1>3. PICK u \in Units : u = UnitOf(packet[1]) /\ u = UnitOf(Head(packet)) /\ u \in Nat
  BY <1>2, PacketUnits
<1>4. OutBelow(u)
  BY <1>2, <1>3 DEF NextInv
<1>5. /\ inside' \in Seq(Units) /\ Len(inside') = Len(inside) + 1 /\ Len(inside) \in Nat
      /\ \A j \in 1 .. Len(inside) : inside'[j] = inside[j]
      /\ inside'[Len(inside) + 1] = u
  BY <1>1, <1>3, CodecFacts, AppendProperties
<1>6. \A j \in 1 .. Len(inside') :
          /\ j \in Nat
          /\ \/ j \in 1 .. Len(inside) /\ inside'[j] = inside[j]
             \/ j = Len(inside) + 1 /\ inside'[j] = u
  BY <1>5
<1>7. OutInv'
  <2>1. \A i, j \in 1 .. Len(inside') : i < j => inside'[i] < inside'[j]
    <3>1. SUFFICES ASSUME NEW i \in 1 .. Len(inside'), NEW j \in 1 .. Len(inside'), i < j
                   PROVE  inside'[i] < inside'[j]
      OBVIOUS
    <3>2. i \in 1 .. Len(inside)
      BY <1>5, <3>1
    <3>3. CASE j \in 1 .. Len(inside)
      BY <1>2, <1>5, <3>1, <3>2, <3>3 DEF OutInv
    <3>4. CASE j = Len(inside) + 1
      BY <1>4, <1>5, <3>2, <3>4 DEF OutBelow
    <3> QED
      BY <1>6, <3>1, <3>3, <3>4
  <2>2. \A i \in 1 .. Len(delivered), j \in 1 .. Len(inside') : delivered[i].unit < inside'[j]
    BY <1>2, <1>4, <1>6 DEF OutInv, OutBelow
  <2> QED
    BY <1>1, <1>2, <2>1, <2>2 DEF OutInv
<1>8. NextInv'
  <2>1. ASSUME NEW v \in Later, ~flushing PROVE Ahead(v)'
    <3>1. Ahead(v)
      BY <1>2, <2>1 DEF NextInv
    <3>2. u < v
      BY <1>2, <1>3, <3>1 DEF Ahead
    <3> QED
      BY <1>1, <1>6, <3>1, <3>2 DEF Ahead, OutBelow
  <2>2. Later' = Later
    BY <1>1 DEF Later
  <2> QED
    BY <1>1, <2>1, <2>2 DEF NextInv
<1>9. CodecType'
  BY <1>1, <1>2, <1>5 DEF CodecType
<1> QED
  BY <1>7, <1>8, <1>9

\* The first unit of the codec becomes the frame.
LEMMA ReceiveUnits ==
    ASSUME IInv, Receive
    PROVE  CodecType' /\ OutInv' /\ NextInv'
<1>1. /\ pc = "receive" /\ pc' = "callback" /\ inside # <<>> /\ frame' = <<Head(inside)>>
      /\ inside' = Tail(inside) /\ frame_count' = frame_count + 1
      /\ UNCHANGED <<flushing, input, held, packet, given, delivered>>
  BY Zenon DEF Receive, steps, local, parser
<1>2. NextInv /\ OutInv /\ CodecType
  BY TypeParts DEF IInv
<1>3. PICK u \in Units : u = Head(inside) /\ u = inside[1] /\ u \in Nat
  BY <1>1, CodecFacts, First
<1>4. frame'[1] = u /\ frame' \in {<<>>} \cup {<<w>> : w \in Units}
  BY <1>1, <1>3
<1>5. /\ inside' \in Seq(Units) /\ Len(inside') = Len(inside) - 1 /\ Len(inside) \in Nat
      /\ Len(inside) >= 1
      /\ \A j \in 1 .. Len(inside) - 1 : inside'[j] = inside[j + 1]
  BY <1>1, CodecFacts, First, HeadTailProperties
<1>6. \A j \in 1 .. Len(inside') :
          /\ j \in Nat /\ j >= 1 /\ j + 1 \in 1 .. Len(inside) /\ inside'[j] = inside[j + 1]
  BY <1>5
<1>7. 1 \in 1 .. Len(inside) /\ \A j \in Nat : j >= 1 => 1 < j + 1
  BY <1>5
<1>8. \A j \in 1 .. Len(inside') : u < inside'[j]
  BY <1>2, <1>3, <1>6, <1>7 DEF OutInv
<1>9. OutInv'
  <2>1. \A i, j \in 1 .. Len(inside') : i < j => inside'[i] < inside'[j]
    <3>1. SUFFICES ASSUME NEW i \in 1 .. Len(inside'), NEW j \in 1 .. Len(inside'), i < j
                   PROVE  inside'[i] < inside'[j]
      OBVIOUS
    <3>2. i + 1 < j + 1
      BY <1>6, <3>1
    <3> QED
      BY <1>2, <1>6, <3>1, <3>2 DEF OutInv
  <2>2. \A i \in 1 .. Len(delivered), j \in 1 .. Len(inside') : delivered[i].unit < inside'[j]
    BY <1>2, <1>6 DEF OutInv
  <2>3. \A i \in 1 .. Len(delivered) :
            /\ delivered[i].unit < u
            /\ delivered[i].index <= frame_count' /\ delivered[i].index < frame_count'
    <3>1. SUFFICES ASSUME NEW i \in 1 .. Len(delivered)
                   PROVE  /\ delivered[i].unit < u /\ delivered[i].index <= frame_count'
                          /\ delivered[i].index < frame_count'
      OBVIOUS
    <3>2. delivered[i].index \in Nat /\ frame_count \in Nat /\ delivered[i].index <= frame_count
      BY <1>2, <3>1, CodecFacts DEF OutInv
    <3>3. delivered[i].unit < u
      BY <1>2, <1>3, <1>7, <3>1 DEF OutInv
    <3> QED
      BY <1>1, <3>2, <3>3
  <2> QED
    BY <1>1, <1>2, <1>4, <1>8, <2>1, <2>2, <2>3 DEF OutInv
<1>10. ASSUME NEW v, OutBelow(v) PROVE OutBelow(v)'
  BY <1>1, <1>3, <1>4, <1>6, <1>7, <1>10 DEF OutBelow
<1>11. NextInv'
  <2>1. Later' = Later
    BY <1>1 DEF Later
  <2>2. ASSUME NEW v \in Later, ~flushing PROVE Ahead(v)'
    <3>1. Ahead(v)
      BY <1>2, <2>2 DEF NextInv
    <3> QED
      BY <1>1, <1>10, <3>1 DEF Ahead
  <2>3. packet' # <<>> => OutBelow(UnitOf(packet[1]))'
    <3>1. CASE packet = <<>>
      BY <1>1, <3>1
    <3>2. CASE packet # <<>>
      <4>1. PICK v : v = UnitOf(packet[1])
        OBVIOUS
      <4>2. OutBelow(v)
        BY <1>2, <3>2, <4>1 DEF NextInv
      <4>3. OutBelow(v)' /\ v = UnitOf(packet'[1])
        BY <1>1, <1>10, <4>1, <4>2
      <4> QED
        BY <4>3 DEF OutBelow
    <3> QED
      BY <3>1, <3>2
  <2> QED
    BY <1>1, <2>1, <2>2, <2>3 DEF NextInv
<1>12. CodecType'
  BY <1>1, <1>2, <1>4, <1>5 DEF CodecType
<1> QED
  BY <1>9, <1>11, <1>12


\* The callback takes the frame: it was in order, and now counts as delivered.
LEMMA CallbackUnits ==
    ASSUME IInv, CallbackAccepts
    PROVE  CodecType' /\ OutInv' /\ NextInv'
<1>1. /\ pc = "callback" /\ pc' = "receive"
      /\ delivered' = Append(delivered, [unit |-> Head(frame), index |-> frame_count])
      /\ UNCHANGED <<flushing, input, held, packet, inside, frame, frame_count, given>>
  BY Zenon DEF CallbackAccepts, steps, local, parser, codec
<1>2. NextInv /\ OutInv /\ CodecType
  BY TypeParts DEF IInv
<1>3. PICK u \in Units : u = Head(frame) /\ u = frame[1] /\ u \in Nat
  BY <1>1, CodecFacts
<1>4. PICK r \in Records : r = [unit |-> u, index |-> frame_count]
  BY CodecFacts DEF Records
<1>5. r.unit = u /\ r.index = frame_count
  BY <1>4
<1>6. /\ delivered' \in Seq(Records) /\ Len(delivered') = Len(delivered) + 1
      /\ Len(delivered) \in Nat
      /\ \A i \in 1 .. Len(delivered) : delivered'[i] = delivered[i]
      /\ delivered'[Len(delivered) + 1] = r
  BY <1>1, <1>3, <1>4, CodecFacts, AppendProperties
<1>7. \A i \in 1 .. Len(delivered') :
          /\ i \in Nat
          /\ \/ i \in 1 .. Len(delivered) /\ delivered'[i] = delivered[i]
             \/ i = Len(delivered) + 1 /\ delivered'[i] = r
  BY <1>6
<1>8. OutInv'
  <2>1. \A i, j \in 1 .. Len(delivered') : i < j =>
            /\ delivered'[i].unit < delivered'[j].unit
            /\ delivered'[i].index < delivered'[j].index
    <3>1. SUFFICES ASSUME NEW i \in 1 .. Len(delivered'), NEW j \in 1 .. Len(delivered'), i < j
                   PROVE  /\ delivered'[i].unit < delivered'[j].unit
                          /\ delivered'[i].index < delivered'[j].index
      OBVIOUS
    <3>2. i \in 1 .. Len(delivered)
      BY <1>6, <3>1
    <3>3. CASE j \in 1 .. Len(delivered)
      BY <1>2, <1>6, <3>1, <3>2, <3>3 DEF OutInv
    <3>4. CASE j = Len(delivered) + 1
      BY <1>1, <1>2, <1>3, <1>5, <1>6, <3>2, <3>4 DEF OutInv
    <3> QED
      BY <1>7, <3>1, <3>3, <3>4
  <2>2. \A i \in 1 .. Len(delivered') : delivered'[i].index <= frame_count
    <3>1. frame_count <= frame_count
      BY CodecFacts
    <3> QED
      BY <1>2, <1>5, <1>7, <3>1 DEF OutInv
  <2>3. \A i \in 1 .. Len(delivered'), j \in 1 .. Len(inside) : delivered'[i].unit < inside[j]
    BY <1>1, <1>2, <1>3, <1>5, <1>7 DEF OutInv
  <2> QED
    BY <1>1, <1>2, <2>1, <2>2, <2>3 DEF OutInv
<1>9. ASSUME NEW v, OutBelow(v) PROVE OutBelow(v)'
  BY <1>1, <1>3, <1>5, <1>7, <1>9 DEF OutBelow
<1>10. NextInv'
  <2>1. Later' = Later
    BY <1>1 DEF Later
  <2>2. ASSUME NEW v \in Later, ~flushing PROVE Ahead(v)'
    <3>1. Ahead(v)
      BY <1>2, <2>2 DEF NextInv
    <3> QED
      BY <1>1, <1>9, <3>1 DEF Ahead
  <2>3. packet' # <<>> => OutBelow(UnitOf(packet[1]))'
    <3>1. CASE packet = <<>>
      BY <1>1, <3>1
    <3>2. CASE packet # <<>>
      <4>1. PICK v : v = UnitOf(packet[1])
        OBVIOUS
      <4>2. OutBelow(v)
        BY <1>2, <3>2, <4>1 DEF NextInv
      <4>3. OutBelow(v)' /\ v = UnitOf(packet'[1])
        BY <1>1, <1>9, <4>1, <4>2
      <4> QED
        BY <4>3 DEF OutBelow
    <3> QED
      BY <3>1, <3>2
  <2> QED
    BY <1>1, <2>1, <2>2, <2>3 DEF NextInv
<1>11. CodecType'
  BY <1>1, <1>2, <1>6 DEF CodecType, Records
<1> QED
  BY <1>8, <1>10, <1>11

\* Decoding fails and the codec may have dropped its first unit.
LEMMA ReceiveFailsUnits ==
    ASSUME IInv, ReceiveFails
    PROVE  CodecType' /\ OutInv' /\ NextInv'
<1>1. /\ pc' \in {"idle", "done"} /\ given' = given /\ input' = <<>> /\ packet' = <<>>
      /\ delivered' = delivered /\ flushing' = flushing /\ held' = held
      /\ frame_count' = frame_count /\ frame' = <<>>
      /\ inside # <<>> /\ inside' \in {inside, Tail(inside)}
  BY DEF ReceiveFails, Fails, ReleasePacket, steps
<1>2. \A v \in Later' : v \in Nat /\ \E u \in Later : u <= v
  BY <1>1, SamePieces
<1>3. inside \in Seq(Units) /\ Len(inside) \in Nat
  BY CodecFacts
<1>4. PICK d \in {0, 1} :
          /\ inside' \in Seq(Units) /\ Len(inside') = Len(inside) - d
          /\ \A j \in 1 .. Len(inside) - d : inside'[j] = inside[j + d]
  <2>1. CASE inside' = inside
    <3>1. Len(inside) - 0 = Len(inside) /\ \A j \in 1 .. Len(inside) : j + 0 = j
      BY ONLY <1>3
    <3>2. /\ inside' \in Seq(Units) /\ Len(inside') = Len(inside) - 0
          /\ \A j \in 1 .. Len(inside) - 0 : inside'[j] = inside[j + 0]
      BY <1>3, <2>1, <3>1
    <3> QED
      BY <3>2
  <2>2. CASE inside' = Tail(inside)
    <3>1. /\ inside' \in Seq(Units) /\ Len(inside') = Len(inside) - 1
          /\ \A j \in 1 .. Len(inside) - 1 : inside'[j] = inside[j + 1]
      BY <1>1, <1>3, <2>2, HeadTailProperties
    <3> QED
      BY <3>1
  <2> QED
    BY <1>1, <2>1, <2>2
<1>5. OutInv' /\ NextInv'
  <2>1. /\ pc' # "callback" /\ pc' # "new packet" /\ UNCHANGED <<delivered, frame_count>>
        /\ ~flushing' => ~flushing
    BY <1>1
  <2> QED
    BY <1>1, <1>2, <1>4, <2>1, UnitFrame
<1>6. CodecType'
  BY <1>1, <1>4, TypeParts DEF CodecType, IInv
<1> QED
  BY <1>5, <1>6

\* The parser gives up the unit it keeps, when everything before it is out.
LEMMA FlushUnits ==
    ASSUME IInv, FlushBegin
    PROVE  CodecType' /\ OutInv' /\ NextInv'
<1>1. /\ pc = "idle" /\ pc' = IF parsed' = <<>> THEN "flush send" ELSE "new packet"
      /\ flushing' = TRUE /\ parsed' = held
      /\ UNCHANGED <<input, packet, inside, frame, frame_count, given, delivered>>
  BY Zenon DEF FlushBegin, FlushParser, local, codec
<1>2. NextInv /\ OutInv /\ CodecType /\ packet = <<>> /\ ~flushing
  BY <1>1, TypeParts DEF IInv, KeepInv, Calling
<1>3. pc' = "new packet" => OutBelow(UnitOf(parsed[1]))'
  <2>1. CASE held = <<>>
    BY <1>1, <2>1
  <2>2. CASE held # <<>>
    <3>1. PICK v : v = UnitOf(held[1])
      OBVIOUS
    <3>2. v \in Later
      BY <2>2, <3>1, Counts, First DEF Later
    <3>3. OutBelow(v)
      BY <1>2, <3>2 DEF NextInv, Ahead
    <3>4. pc' # "callback" /\ v = UnitOf(parsed'[1])
      BY <1>1, <3>1
    <3> QED
      BY <1>1, <3>3, <3>4 DEF OutBelow
  <2> QED
    BY <2>1, <2>2
<1>4. pc' # "callback"
  BY <1>1
<1>5. NextInv'
  BY <1>1, <1>2, <1>3 DEF NextInv
<1>6. OutInv' /\ CodecType'
  BY <1>1, <1>2, <1>4 DEF OutInv, CodecType
<1> QED
  BY <1>5, <1>6


LEMMA UnitStep ==
    ASSUME IInv, [Next]_vars
    PROVE  CodecType' /\ OutInv' /\ NextInv'
<1>1. CASE \E n \in 1 .. MaxInput : DecodeBegin(n) \/ DecodeRefused(n)
  BY <1>1, BeginUnits
<1>2. CASE ParseFails \/ NewPacketFails \/ SendFails \/ CallbackRefuses \/ FlushFails
  <2>1. Fails /\ held' = held /\ UNCHANGED codec
    BY <1>2, Zenon DEF ParseFails, NewPacketFails, SendFails, CallbackRefuses, FlushFails
  <2> QED
    BY <2>1, FailsUnits
<1>3. CASE ParseAgain \/ DecodeReturns \/ ReceiveReturns \/ FlushParserFails
           \/ FlushAccepted \/ FlushAgain \/ FlushReturns \/ ParserStalls \/ UNCHANGED vars
  <2>1. /\ UNCHANGED <<held, given, packet, inside, frame_count, delivered>>
        /\ input' = input \/ input' = <<>>
        /\ frame' = frame \/ frame' = <<>>
        /\ flushing' = flushing \/ flushing' = TRUE
    BY <1>3, Zenon DEF ParseAgain, DecodeReturns, ReceiveReturns, FlushParserFails,
                       FlushAccepted, FlushAgain, FlushReturns, ParserStalls, vars, steps,
                       local, parser, codec
  <2>2. /\ pc' = "callback" => pc = "callback" /\ frame' = frame
        /\ pc' = "new packet" => pc = "new packet" /\ parsed' = parsed
    <3>1. CASE UNCHANGED vars
      <4>1. UNCHANGED <<pc, frame, parsed>>
        BY <3>1, Zenon DEF vars, parser, codec
      <4> QED
        BY <4>1
    <3>2. CASE ReceiveReturns
      <4>1. pc' = after /\ after \in {"idle", "parsed", "send", "flush send", "flushed"}
        BY <3>2, TypeParts DEF ReceiveReturns, IInv, ControlType
      <4> QED
        BY <4>1
    <3>3. CASE ParseAgain \/ DecodeReturns \/ FlushParserFails \/ FlushAccepted \/ FlushAgain
               \/ FlushReturns \/ ParserStalls
      BY <3>3 DEF ParseAgain, DecodeReturns, FlushParserFails, FlushAccepted, FlushAgain,
                  FlushReturns, ParserStalls
    <3> QED
      BY <1>3, <3>1, <3>2, <3>3
  <2>3. ~flushing' => ~flushing
    BY <2>1
  <2>4. \A v \in Later' : v \in Nat /\ \E u \in Later : u <= v
    BY <2>1, SamePieces
  <2>5. UNCHANGED <<delivered, frame_count, inside>> /\ packet' = packet
    BY <2>1
  <2> QED
    BY <2>1, <2>2, <2>3, <2>4, <2>5, CodecIdle
<1> QED
  BY <1>1, <1>2, <1>3, ParseUnits, PacketStep, AcceptUnits, ReceiveUnits, CallbackUnits,
     ReceiveFailsUnits, FlushUnits
     DEF Next, Step, Callback, Faults, Finished

-----------------------------------------------------------------------------
(* Completeness: without a failure the unit of every piece given is still   *)
(* somewhere, and the pieces the parser keeps are of one unit.              *)

Out(u) == \/ \E i \in 1 .. Len(delivered) : delivered[i].unit = u
          \/ \E j \in 1 .. Len(inside) : inside[j] = u
          \/ pc = "callback" /\ frame[1] = u
          \/ pc = "new packet" /\ UnitOf(parsed[1]) = u
          \/ packet # <<>> /\ UnitOf(packet[1]) = u

Waiting(u) == \/ \E i \in 1 .. Len(held) : UnitOf(held[i]) = u
              \/ \E i \in 1 .. Len(input) : UnitOf(input[i]) = u

Covered == \A k \in 1 .. given : Out(UnitOf(k)) \/ Waiting(UnitOf(k))

HeldRun == /\ \A i \in 1 .. Len(held) : held[i] = ((given - Len(input)) - Len(held)) + i
           /\ \A i \in 2 .. Len(held) : ~Starts(held[i])

CourseInv ==
    /\ pc \in {"new packet", "send"} \/ (Calling /\ after \in {"parsed", "send"})
           => parsed # <<>>
    /\ pc = "parsed" => parsed # <<>> \/ Len(input) = 0
    /\ flushing => Len(held) = 0 /\ Len(input) = 0
    /\ Calling /\ after = "flushed" => draining
    /\ pc \in {"flushed", "done"} => Len(inside) = 0

CompleteInv == ~failed => Covered /\ HeldRun /\ CourseInv

LEMMA Multiple ==
    ASSUME NEW k \in Nat \ {0}, NEW m \in Nat
    PROVE  k * m \in Nat /\ (k * m) % k = 0
BY SMTT(30)

LEMMA Remainders ==
    ASSUME NEW k \in Nat \ {0}, NEW a \in Nat, NEW b \in Nat, a < b, NEW r \in 0 .. k - 1
    PROVE  (k * a) + r < k * b
<1>1. k * (b - (a + 1)) \in Nat
  BY SMTT(30)
<1>2. k * b = (k * a) + k + (k * (b - (a + 1)))
  BY SMTT(30)
<1>3. k * a \in Nat /\ k * b \in Nat
  BY SMTT(30)
<1> QED
  BY <1>1, <1>2, <1>3

\* Pieces with no start between them are of the same unit.
LEMMA SameUnit ==
    ASSUME NEW p \in Nat \ {0}, NEW q \in Nat \ {0}, p <= q,
           \A s \in Nat : p < s /\ s <= q => ~Starts(s)
    PROVE  UnitOf(p) = UnitOf(q)
<1> DEFINE a == (p - 1) \div PiecesPerUnit
           b == (q - 1) \div PiecesPerUnit
<1>1. /\ p - 1 \in Nat /\ q - 1 \in Nat /\ PiecesPerUnit \in Nat \ {0} /\ p - 1 <= q - 1
  BY Sizes
<1>2. /\ a \in Nat /\ p - 1 = PiecesPerUnit * a + ((p - 1) % PiecesPerUnit)
      /\ (p - 1) % PiecesPerUnit \in 0 .. PiecesPerUnit - 1
  BY <1>1, Division
<1>3. /\ b \in Nat /\ q - 1 = PiecesPerUnit * b + ((q - 1) % PiecesPerUnit)
      /\ (q - 1) % PiecesPerUnit \in 0 .. PiecesPerUnit - 1
  BY <1>1, Division
<1>4. a <= b
  BY <1>1, QuotientMono
<1>5. ~(a < b)
  <2>1. SUFFICES ASSUME a < b PROVE FALSE
    OBVIOUS
  <2>2. p - 1 < PiecesPerUnit * b
    BY <1>1, <1>2, <1>3, <2>1, Remainders
  <2>3. PiecesPerUnit * b \in Nat /\ (PiecesPerUnit * b) % PiecesPerUnit = 0
    BY <1>1, <1>3, Multiple
  <2>4. PICK m \in Nat : m = PiecesPerUnit * b
    BY <2>3
  <2> HIDE DEF a, b
  <2>5. p < m + 1 /\ m + 1 \in Nat /\ m + 1 <= q /\ (m + 1) - 1 = m
    BY <1>1, <1>3, <2>2, <2>4
  <2>6. Starts(m + 1)
    BY <2>3, <2>4, <2>5 DEF Starts
  <2> QED
    BY <2>5, <2>6
<1>6. a = b
  <2> HIDE DEF a, b
  <2> QED
    BY <1>2, <1>3, <1>4, <1>5
<1> QED
  BY <1>6 DEF UnitOf

\* So are the pieces the parser keeps.
LEMMA HeldUnit ==
    ASSUME IInv, HeldRun, NEW i \in 1 .. Len(held)
    PROVE  UnitOf(held[i]) = UnitOf(held[1])
<1>1. /\ Len(held) \in Nat /\ Len(input) \in Nat /\ given \in Nat
      /\ 1 \in 1 .. Len(held) /\ i \in Nat
  BY Counts
<1>2. held[1] \in Nat \ {0} /\ held[i] \in Nat \ {0}
  BY <1>1, Counts, UnitType
<1>a. (given - Len(input)) - Len(held) \in Int
  BY ONLY <1>1
<1>3. PICK e \in Int : e = (given - Len(input)) - Len(held)
  BY <1>a
<1>4. \A j \in 1 .. Len(held) : held[j] = e + j
  BY <1>3 DEF HeldRun
<1>5. held[1] <= held[i]
  BY <1>1, <1>3, <1>4
<1>6. \A s \in Nat : held[1] < s /\ s <= held[i] => ~Starts(s)
  <2>1. SUFFICES ASSUME NEW s \in Nat, held[1] < s, s <= held[i] PROVE ~Starts(s)
    OBVIOUS
  <2>2. held[1] = e + 1 /\ held[i] = e + i
    BY <1>1, <1>4
  <2>3. s - e \in 2 .. Len(held) /\ s - e \in 1 .. Len(held) /\ e + (s - e) = s
    BY <1>1, <1>3, <2>1, <2>2
  <2>4. held[s - e] = s
    BY <1>4, <2>3
  <2> QED
    BY <2>3, <2>4 DEF HeldRun
<1> QED
  BY <1>2, <1>5, <1>6, SameUnit


\* So is what comes next, as long as no unit starts there.
LEMMA JoinedUnit ==
    ASSUME IInv, HeldRun, NEW n \in 1 .. Len(input),
           \A i \in 2 .. n : ~Starts(input[i]),
           Len(held) > 0 => ~Starts(input[1]),
           NEW first, first = IF Len(held) > 0 THEN held[1] ELSE input[1],
           NEW i \in 1 .. n
    PROVE  UnitOf(input[i]) = UnitOf(first)
<1>1. /\ Len(held) \in Nat /\ Len(input) \in Nat /\ given \in Nat
      /\ n \in Nat /\ i \in Nat /\ i \in 1 .. Len(input) /\ 1 \in 1 .. Len(input)
      /\ n <= Len(input)
  BY Counts
<1>a. (given - Len(input)) - Len(held) \in Int
  BY ONLY <1>1
<1>2. PICK e \in Int : e = (given - Len(input)) - Len(held)
  BY <1>a
<1>b. PICK h \in Nat : h = Len(held)
  BY <1>1
<1>c. given - Len(input) = e + h
  <2>1. /\ given \in Nat /\ Len(input) \in Nat /\ h \in Nat
        /\ e = (given - Len(input)) - h
    BY <1>1, <1>2, <1>b
  <2> QED
    BY ONLY <2>1
<1>3. \A j \in 1 .. h : held[j] = e + j
  BY <1>2, <1>b DEF HeldRun
<1>4. \A j \in 1 .. Len(input) : input[j] = (e + h) + j
  BY <1>c DEF IInv, PieceInv
<1>5. first = e + 1 \/ (h = 0 /\ first = (e + h) + 1)
  <2>1. CASE h > 0
    <3>1. 1 \in 1 .. h
      BY <1>b, <2>1
    <3> QED
      BY <1>3, <1>b, <2>1, <3>1
  <2>2. CASE ~(h > 0)
    BY <1>1, <1>4, <1>b, <2>2
  <2> QED
    BY <2>1, <2>2
<1>6. first = e + 1
  BY <1>5, <1>b
<1>7. input[i] = (e + h) + i
  BY <1>1, <1>4
<1>8. first \in Nat \ {0} /\ input[i] \in Nat \ {0}
  <2>1. input[i] \in Nat \ {0} /\ input[1] \in Nat \ {0}
    BY <1>1, Counts, UnitType
  <2>2. Len(held) > 0 => held[1] \in Nat \ {0}
    <3>1. Len(held) > 0 => 1 \in 1 .. Len(held)
      BY <1>1
    <3> QED
      BY <3>1, Counts, UnitType
  <2> QED
    BY <2>1, <2>2
<1>9. first <= input[i]
  BY <1>1, <1>6, <1>7
<1>10. ASSUME NEW s \in Nat, first < s, s <= input[i] PROVE ~Starts(s)
  <2>1. CASE s <= e + h
    <3>1. s - e \in 2 .. h /\ s - e \in 1 .. h /\ e + (s - e) = s
      BY <1>6, <1>10, <2>1
    <3>2. held[s - e] = s
      BY <1>3, <3>1
    <3> QED
      BY <1>b, <3>1, <3>2 DEF HeldRun
  <2>2. CASE ~(s <= e + h)
    <3>1. PICK j \in Int : j = s - (e + h)
      OBVIOUS
    <3>2. j \in 1 .. i /\ (e + h) + j = s
      BY <1>1, <1>7, <1>10, <2>2, <3>1
    <3>3. j \in 1 .. Len(input) /\ j \in 1 .. n
      BY <1>1, <3>2
    <3>4. input[j] = s
      BY <1>4, <3>2, <3>3
    <3>5. CASE j = 1
      <4>1. h > 0
        BY <1>6, <1>10, <3>2, <3>5
      <4> QED
        BY <1>b, <3>4, <3>5, <4>1
    <3>6. CASE j # 1
      BY <1>1, <3>3, <3>4, <3>6
    <3> QED
      BY <3>5, <3>6
  <2> QED
    BY <2>1, <2>2
<1> QED
  BY <1>8, <1>9, <1>10, SameUnit

LEMMA ParseComplete ==
    ASSUME IInv, Parse, Covered, HeldRun
    PROVE  /\ Covered' /\ HeldRun'
           /\ parsed' = <<>> => Len(input') = 0
<1>0. /\ Len(input) \in Nat /\ Len(held) \in Nat /\ given \in Nat /\ Len(input) > 0
      /\ input \in Seq(Pieces) /\ held \in Seq(Pieces) /\ PieceInv
      /\ 1 \in 1 .. Len(input)
  <2>1. Len(input) > 0 /\ PieceInv
    BY DEF IInv, PieceInv, Parse
  <2>2. /\ Len(input) \in Nat /\ Len(held) \in Nat /\ given \in Nat
        /\ input \in Seq(Pieces) /\ held \in Seq(Pieces)
    BY Counts
  <2> QED
    BY <2>1, <2>2
<1>a. /\ pc = "parse" /\ pc' = IF parsed' = <<>> THEN "parsed" ELSE "new packet"
      /\ UNCHANGED <<packet, inside, given, delivered, frame>>
  BY Zenon DEF Parse, codec
<1>h. Head(input) = input[1] /\ (held # <<>> <=> Len(held) > 0)
  <2>1. input # <<>> /\ (held = <<>> <=> Len(held) = 0)
    BY <1>0, EmptySeq
  <2> QED
    BY <1>0, <2>1, First
<1>o. ASSUME NEW u, Out(u) PROVE Out(u)'
  BY <1>a, <1>o DEF Out
\* It is enough that the pieces that were waiting still are, or are in the packet.
<1>c. ASSUME \A u : \A i \in 1 .. Len(held) : u = UnitOf(held[i]) => Out(u)' \/ Waiting(u)',
             \A u : \A i \in 1 .. Len(input) : u = UnitOf(input[i]) => Out(u)' \/ Waiting(u)'
      PROVE  Covered'
  <2>1. ASSUME NEW u, Waiting(u) PROVE Out(u)' \/ Waiting(u)'
    BY <1>c, <2>1 DEF Waiting
  <2>2. ASSUME NEW k \in 1 .. given PROVE Out(UnitOf(k))' \/ Waiting(UnitOf(k))'
    <3>1. PICK u : u = UnitOf(k)
      OBVIOUS
    <3>2. Out(u)' \/ Waiting(u)'
      BY <1>o, <2>1, <3>1 DEF Covered
    <3> QED
      BY <3>1, <3>2
  <2> QED
    BY <1>a, <2>2 DEF Covered
<1>1. CASE held # <<>> /\ Starts(Head(input))
  <2>1. /\ input' = SubSeq(input, 0 + 1, Len(input))
        /\ parsed' = held /\ held' = <<>>
    BY <1>1 DEF Parse, Take
  <2>2. Len(input') = Len(input) /\ \A i \in 1 .. Len(input) : input'[i] = input[i]
    <3>1. 0 \in 0 .. Len(input) /\ Len(input) - 0 = Len(input)
          /\ \A i \in 1 .. Len(input) : 0 + i = i
      BY <1>0
    <3> QED
      BY <1>0, <2>1, <3>1, Cut
  <2>3. Len(held') = 0 /\ parsed' # <<>> /\ pc' = "new packet"
    BY <1>1, <1>a, <2>1, EmptySeq
  <2>4. ASSUME NEW u, NEW i \in 1 .. Len(held), u = UnitOf(held[i]) PROVE Out(u)'
    <3>1. u = UnitOf(parsed'[1])
      BY <2>1, <2>4, HeldUnit
    <3> QED
      BY <2>3, <3>1 DEF Out
  <2>5. ASSUME NEW u, NEW i \in 1 .. Len(input), u = UnitOf(input[i]) PROVE Waiting(u)'
    BY <2>2, <2>5 DEF Waiting
  <2>6. Covered'
    BY <1>c, <2>4, <2>5
  <2>7. HeldRun'
    <3>1. Len(held') = 0
      BY <2>3
    <3> QED
      BY <3>1 DEF HeldRun
  <2> QED
    BY <2>3, <2>6, <2>7
<1>2. CASE ~(held # <<>> /\ Starts(Head(input))) /\ Boundary = {}
  <2>1. /\ input' = SubSeq(input, Len(input) + 1, Len(input))
        /\ parsed' = <<>> /\ held' = held \o input
    BY <1>2 DEF Parse, Take
  <2>2. Len(input') = 0
    <3>1. Len(input) \in 0 .. Len(input) /\ Len(input) - Len(input) = 0
      BY <1>0
    <3> QED
      BY <1>0, <2>1, <3>1, Cut
  <2>3. /\ Len(held') = Len(held) + Len(input)
        /\ \A i \in 1 .. Len(held) + Len(input) :
               held'[i] = IF i <= Len(held) THEN held[i] ELSE input[i - Len(held)]
    BY <1>0, <2>1, ConcatProperties
  <2>4. ASSUME NEW u, NEW i \in 1 .. Len(held), u = UnitOf(held[i]) PROVE Waiting(u)'
    <3>1. i \in 1 .. Len(held') /\ held'[i] = held[i]
      BY <1>0, <2>3
    <3> QED
      BY <2>4, <3>1 DEF Waiting
  <2>5. ASSUME NEW u, NEW i \in 1 .. Len(input), u = UnitOf(input[i]) PROVE Waiting(u)'
    <3>1. /\ Len(held) + i \in 1 .. Len(held) + Len(input) /\ ~(Len(held) + i <= Len(held))
          /\ (Len(held) + i) - Len(held) = i
      BY <1>0
    <3>2. Len(held) + i \in 1 .. Len(held') /\ held'[Len(held) + i] = input[i]
      BY <2>3, <3>1
    <3>3. PICK j \in 1 .. Len(held') : held'[j] = input[i]
      BY <3>2
    <3> QED
      BY <2>5, <3>3 DEF Waiting
  <2>6. Covered'
    BY <1>c, <2>4, <2>5
  <2>7. ASSUME NEW i \in 1 .. Len(held')
        PROVE  /\ held'[i] = ((given' - Len(input')) - Len(held')) + i
               /\ i # 1 => ~Starts(held'[i])
    <3>e. (given' - Len(input')) - Len(held') = (given - Len(input)) - Len(held)
      <4>1. /\ given' = given /\ Len(input') = 0 /\ Len(held') = Len(held) + Len(input)
            /\ given \in Nat /\ Len(held) \in Nat /\ Len(input) \in Nat
        BY <1>0, <1>a, <2>2, <2>3
      <4> QED
        BY ONLY <4>1
    <3>1. i \in 1 .. Len(held) + Len(input) /\ i \in Nat
      BY <2>3
    <3>2. CASE i <= Len(held)
      <4>1. held'[i] = held[i] /\ i \in 1 .. Len(held)
        BY <1>0, <2>3, <3>1, <3>2
      <4>2. held[i] = ((given - Len(input)) - Len(held)) + i
        BY <4>1 DEF HeldRun
      <4>3. i # 1 => ~Starts(held[i])
        BY <4>1 DEF HeldRun
      <4> QED
        BY <3>e, <4>1, <4>2, <4>3
    <3>3. CASE ~(i <= Len(held))
      <4>1. PICK j \in 1 .. Len(input) : j = i - Len(held) /\ held'[i] = input[j]
        BY <1>0, <2>3, <3>1, <3>3
      <4>2. input[j] = (given - Len(input)) + j
        BY <1>0 DEF PieceInv
      <4>3. i # 1 => ~Starts(input[j])
        <5>1. CASE j = 1
          BY <1>0, <1>2, <1>h, <3>1, <4>1, <5>1
        <5>2. CASE j # 1
          <6>1. j \in 2 .. Len(input)
            BY <1>0, <5>2
          <6> QED
            BY <1>2, <6>1 DEF Boundary
        <5> QED
          BY <5>1, <5>2
      <4>4. held'[i] = ((given - Len(input)) - Len(held)) + i
        <5>1. /\ given \in Nat /\ Len(held) \in Nat /\ Len(input) \in Nat /\ i \in Nat
              /\ j = i - Len(held) /\ held'[i] = (given - Len(input)) + j
          BY <1>0, <3>1, <4>1, <4>2
        <5> QED
          BY ONLY <5>1
      <4> QED
        BY <3>e, <4>1, <4>3, <4>4
    <3> QED
      BY <3>2, <3>3
  <2>8. HeldRun'
    <3>1. \A i \in 2 .. Len(held') : i \in 1 .. Len(held') /\ i # 1
      OBVIOUS
    <3> QED
      BY <2>7, <3>1 DEF HeldRun
  <2> QED
    BY <2>2, <2>6, <2>8
<1>3. CASE ~(held # <<>> /\ Starts(Head(input))) /\ Boundary # {}
  <2>1. PICK b \in Boundary :
            /\ \A i \in Boundary : b <= i
            /\ input' = SubSeq(input, (b - 1) + 1, Len(input))
            /\ parsed' = held \o SubSeq(input, 1, b - 1) /\ held' = <<>>
    BY <1>3 DEF Parse, Take
  <2>2. /\ b \in 2 .. Len(input) /\ b \in Nat
        /\ b - 1 \in 0 .. Len(input) /\ b - 1 \in 1 .. Len(input)
    BY <1>0, <2>1 DEF Boundary
  <2>3. \A i \in 2 .. b - 1 : ~Starts(input[i])
    <3>1. SUFFICES ASSUME NEW i \in 2 .. b - 1, Starts(input[i]) PROVE FALSE
      OBVIOUS
    <3>2. i \in 2 .. Len(input) /\ ~(b <= i)
      BY <1>0, <2>2
    <3> QED
      BY <2>1, <3>1, <3>2 DEF Boundary
  <2>4. /\ SubSeq(input, 1, b - 1) \in Seq(Pieces) /\ Len(SubSeq(input, 1, b - 1)) = b - 1
        /\ \A i \in 1 .. b - 1 : SubSeq(input, 1, b - 1)[i] = input[i]
        /\ Len(input') = Len(input) - (b - 1)
        /\ \A i \in 1 .. Len(input) - (b - 1) : input'[i] = input[(b - 1) + i]
    BY <1>0, <2>1, <2>2, Cut
  <2>5. Len(held') = 0
    BY <2>1, EmptySeq
  <2>6. /\ parsed' # <<>>
        /\ parsed'[1] = IF Len(held) > 0 THEN held[1] ELSE input[1]
    <3> DEFINE front == SubSeq(input, 1, b - 1)
    <3>1. front \in Seq(Pieces) /\ Len(front) = b - 1 /\ parsed' = held \o front
          /\ held \in Seq(Pieces) /\ front[1] = input[1]
      BY <1>0, <2>1, <2>2, <2>4
    <3> HIDE DEF front
    <3>2. /\ Len(parsed') = Len(held) + Len(front)
          /\ \A i \in 1 .. Len(held) + Len(front) :
                 parsed'[i] = IF i <= Len(held) THEN held[i] ELSE front[i - Len(held)]
      BY ONLY <3>1, ConcatProperties
    <3>3. 1 \in 1 .. Len(held) + Len(front) /\ Len(parsed') # 0
          /\ (1 <= Len(held) <=> Len(held) > 0) /\ (~(1 <= Len(held)) => 1 - Len(held) = 1)
      BY <1>0, <2>2, <3>1, <3>2
    <3> QED
      BY <3>1, <3>2, <3>3, EmptySeq
  <2>7. pc' = "new packet"
    BY <1>a, <2>6
  <2>8. ASSUME NEW u, NEW i \in 1 .. Len(held), u = UnitOf(held[i]) PROVE Out(u)'
    <3>1. u = UnitOf(parsed'[1])
      BY <1>0, <2>6, <2>8, HeldUnit
    <3> QED
      BY <2>7, <3>1 DEF Out
  <2>9. ASSUME NEW u, NEW i \in 1 .. Len(input), u = UnitOf(input[i])
        PROVE  Out(u)' \/ Waiting(u)'
    <3>1. CASE i <= b - 1
      <4>1. i \in 1 .. b - 1 /\ (Len(held) > 0 => ~Starts(input[1]))
        BY <1>0, <1>3, <1>h, <2>2, <3>1
      <4>2. PICK first : first = IF Len(held) > 0 THEN held[1] ELSE input[1]
        OBVIOUS
      <4>3. UnitOf(input[i]) = UnitOf(first)
        BY <2>2, <2>3, <4>1, <4>2, JoinedUnit
      <4>4. u = UnitOf(parsed'[1])
        BY <2>6, <2>9, <4>2, <4>3
      <4> QED
        BY <2>7, <4>4 DEF Out
    <3>2. CASE ~(i <= b - 1)
      <4>1. PICK j \in 1 .. Len(input) - (b - 1) : (b - 1) + j = i
        <5>1. i - (b - 1) \in 1 .. Len(input) - (b - 1) /\ (b - 1) + (i - (b - 1)) = i
          BY <1>0, <2>2, <3>2
        <5> QED
          BY <5>1
      <4>2. j \in 1 .. Len(input') /\ input'[j] = input[i]
        BY <2>4, <4>1
      <4> QED
        BY <2>9, <4>2 DEF Waiting
    <3> QED
      BY <3>1, <3>2
  <2>10. Covered'
    BY <1>c, <2>8, <2>9
  <2>11. HeldRun'
    BY <2>5 DEF HeldRun
  <2> QED
    BY <2>6, <2>10, <2>11
<1> QED
  BY <1>1, <1>2, <1>3


\* A step that parses nothing loses nothing if what was out still is.
LEMMA StillCovered ==
    ASSUME Covered, HeldRun, given' = given, held' = held, input' = input,
           \A u : Out(u) => Out(u)'
    PROVE  Covered' /\ HeldRun'
<1>1. ASSUME NEW u, Waiting(u) PROVE Waiting(u)'
  BY <1>1 DEF Waiting
<1>2. ASSUME NEW k \in 1 .. given PROVE Out(UnitOf(k))' \/ Waiting(UnitOf(k))'
  <2>1. PICK u : u = UnitOf(k)
    OBVIOUS
  <2>2. Out(u)' \/ Waiting(u)'
    BY <1>1, <2>1 DEF Covered
  <2> QED
    BY <2>1, <2>2
<1> QED
  BY <1>2 DEF Covered, HeldRun

LEMMA BeginComplete ==
    ASSUME IInv, Covered, HeldRun, CourseInv, NEW n \in 1 .. MaxInput, DecodeBegin(n)
    PROVE  Covered' /\ HeldRun' /\ CourseInv'
<1>0. given \in Nat /\ n \in Nat \ {0} /\ Len(held) \in Nat
  BY Counts, Sizes
<1>1. /\ pc = "idle" /\ pc' = "parse" /\ given' = given + n
      /\ input' = [i \in 1 .. n |-> given + i]
      /\ UNCHANGED <<flushing, held, packet, inside, delivered>>
  BY DEF DecodeBegin, steps, parser, codec
<1>2. Len(input) = 0 /\ ~flushing
  BY <1>1 DEF IInv, PieceInv, KeepInv
<1>3. Len(input') = n
  <2>1. input' \in [1 .. n -> Nat]
    BY <1>0, <1>1
  <2> QED
    BY <1>0, <2>1, FunSeq
<1>4. HeldRun'
  <2>1. (given' - Len(input')) - Len(held') = (given - Len(input)) - Len(held)
    <3>1. /\ given \in Nat /\ n \in Nat /\ Len(held) \in Nat /\ Len(input) = 0
          /\ given' = given + n /\ Len(input') = n /\ Len(held') = Len(held)
      BY <1>0, <1>1, <1>2, <1>3
    <3> QED
      BY ONLY <3>1
  <2> QED
    BY <1>1, <2>1 DEF HeldRun
<1>5. ASSUME NEW k \in 1 .. given + n PROVE Out(UnitOf(k))' \/ Waiting(UnitOf(k))'
  <2>1. PICK u : u = UnitOf(k)
    OBVIOUS
  <2>2. CASE k <= given
    <3>1. Out(u) \/ Waiting(u)
      BY <1>0, <2>1, <2>2 DEF Covered
    <3>2. Out(u) => Out(u)'
      BY <1>1 DEF Out
    <3>3. Waiting(u) => Waiting(u)'
      BY <1>1, <1>2 DEF Waiting
    <3> QED
      BY <2>1, <3>1, <3>2, <3>3
  <2>3. CASE ~(k <= given)
    <3>1. PICK i \in 1 .. n : given + i = k
      <4>1. k - given \in 1 .. n /\ given + (k - given) = k
        BY <1>0, <2>3
      <4> QED
        BY <4>1
    <3>2. i \in 1 .. Len(input') /\ input'[i] = k
      BY <1>1, <1>3, <3>1
    <3>3. Waiting(u)'
      BY <2>1, <3>2 DEF Waiting
    <3> QED
      BY <2>1, <3>3
  <2> QED
    BY <2>2, <2>3
<1>6. Covered'
  BY <1>1, <1>5 DEF Covered
<1>7. CourseInv'
  BY <1>1, <1>2 DEF CourseInv, Calling
<1> QED
  BY <1>4, <1>6, <1>7

LEMMA SendComplete ==
    ASSUME IInv, Covered, HeldRun, CourseInv, NewPacket \/ SendAccepted \/ SendAgain
    PROVE  Covered' /\ HeldRun' /\ CourseInv'
<1>1. CASE NewPacket
  <2>1. /\ pc = "new packet" /\ pc' = "send" /\ packet' = parsed
        /\ UNCHANGED <<after, flushing, input, held, parsed, inside, given, delivered>>
    BY <1>1, Zenon DEF NewPacket, steps, local, parser, codec
  <2>2. packet = <<>> /\ parsed # <<>>
    BY <2>1 DEF IInv, KeepInv, Calling
  <2>3. ASSUME NEW u, Out(u) PROVE Out(u)'
    BY <2>1, <2>2, <2>3 DEF Out
  <2>4. CourseInv'
    BY <2>1, <2>2 DEF CourseInv, Calling
  <2> QED
    BY <2>1, <2>3, <2>4, StillCovered
<1>2. CASE SendAccepted
  <2>1. /\ pc = "send" /\ pc' = "receive" /\ packet' = <<>>
        /\ inside' = Append(inside, UnitOf(Head(packet)))
        /\ after' = IF flushing THEN "flush send" ELSE "parsed"
        /\ UNCHANGED <<flushing, input, held, parsed, given, delivered>>
    BY <1>2, Zenon DEF SendAccepted, ReleasePacket, AfterSend, local, parser
  <2>2. packet # <<>> /\ parsed # <<>>
    BY <2>1 DEF IInv, KeepInv, CourseInv
  <2>3. PICK w \in Units : w = UnitOf(packet[1]) /\ w = UnitOf(Head(packet))
    BY <2>2, PacketUnits
  <2>4. /\ Len(inside') = Len(inside) + 1 /\ Len(inside) \in Nat
        /\ \A j \in 1 .. Len(inside) : inside'[j] = inside[j]
        /\ inside'[Len(inside) + 1] = w
    <3>1. inside \in Seq(Units) /\ inside' = Append(inside, w)
      BY <2>1, <2>3, CodecFacts
    <3> QED
      BY ONLY <3>1, w \in Units, AppendProperties
  <2>5. /\ Len(inside) + 1 \in 1 .. Len(inside')
        /\ \A j \in 1 .. Len(inside) : j \in 1 .. Len(inside') /\ inside'[j] = inside[j]
    BY <2>4
  <2>6. ASSUME NEW u, Out(u) PROVE Out(u)'
    BY <2>1, <2>3, <2>4, <2>5, <2>6 DEF Out
  <2>7. CourseInv'
    <3>1. CASE flushing
      BY <2>1, <2>2, <3>1 DEF CourseInv, Calling
    <3>2. CASE ~flushing
      BY <2>1, <2>2, <3>2 DEF CourseInv, Calling
    <3> QED
      BY <3>1, <3>2
  <2> QED
    BY <2>1, <2>6, <2>7, StillCovered
<1>3. CASE SendAgain
  <2>1. /\ pc = "send" /\ pc' = "receive" /\ after' = "send"
        /\ UNCHANGED <<flushing, input, held, parsed, packet, inside, given, delivered>>
    BY <1>3, Zenon DEF SendAgain, local, parser, codec
  <2>2. ASSUME NEW u, Out(u) PROVE Out(u)'
    BY <2>1, <2>2 DEF Out
  <2>3. CourseInv'
    BY <2>1 DEF CourseInv, Calling
  <2> QED
    BY <2>1, <2>2, <2>3, StillCovered
<1> QED
  BY <1>1, <1>2, <1>3

LEMMA ReceiveComplete ==
    ASSUME IInv, Covered, HeldRun, CourseInv, Receive \/ CallbackAccepts \/ ReceiveReturns
    PROVE  Covered' /\ HeldRun' /\ CourseInv'
<1>1. CASE Receive
  <2>1. /\ pc = "receive" /\ pc' = "callback" /\ inside # <<>> /\ frame' = <<Head(inside)>>
        /\ inside' = Tail(inside)
        /\ UNCHANGED <<after, flushing, input, held, parsed, packet, draining, given,
                       delivered>>
    BY <1>1, Zenon DEF Receive, steps, local, parser
  <2>2. frame'[1] = inside[1]
    BY <2>1, CodecFacts, First
  <2>3. /\ Len(inside') = Len(inside) - 1 /\ Len(inside) \in Nat
        /\ \A j \in 1 .. Len(inside) - 1 : inside'[j] = inside[j + 1]
    BY <2>1, CodecFacts, HeadTailProperties
  <2>4. ASSUME NEW j \in 1 .. Len(inside), j # 1
        PROVE  \E i \in 1 .. Len(inside') : inside'[i] = inside[j]
    <3>1. j - 1 \in 1 .. Len(inside) - 1 /\ (j - 1) + 1 = j
      BY <2>3, <2>4
    <3> QED
      BY <2>3, <3>1
  <2>5. ASSUME NEW u, Out(u) PROVE Out(u)'
    <3>1. CASE \E j \in 1 .. Len(inside) : inside[j] = u
      <4>1. PICK j \in 1 .. Len(inside) : inside[j] = u
        BY <3>1
      <4>2. CASE j = 1
        BY <2>1, <2>2, <4>1, <4>2 DEF Out
      <4>3. CASE j # 1
        BY <2>4, <4>1, <4>3 DEF Out
      <4> QED
        BY <4>2, <4>3
    <3>2. CASE ~\E j \in 1 .. Len(inside) : inside[j] = u
      BY <2>1, <2>5, <3>2 DEF Out
    <3> QED
      BY <3>1, <3>2
  <2>6. CourseInv'
    BY <2>1 DEF CourseInv, Calling
  <2> QED
    BY <2>1, <2>5, <2>6, StillCovered
<1>2. CASE CallbackAccepts
  <2>1. /\ pc = "callback" /\ pc' = "receive"
        /\ delivered' = Append(delivered, [unit |-> Head(frame), index |-> frame_count])
        /\ UNCHANGED <<after, flushing, input, held, parsed, packet, inside, draining, given>>
    BY <1>2, Zenon DEF CallbackAccepts, steps, local, parser, codec
  <2>2. PICK w \in Units : w = Head(frame) /\ w = frame[1]
    BY <2>1, CodecFacts
  <2>3. PICK r \in Records : r = [unit |-> w, index |-> frame_count]
    BY CodecFacts DEF Records
  <2>4. /\ Len(delivered') = Len(delivered) + 1 /\ Len(delivered) \in Nat
        /\ \A i \in 1 .. Len(delivered) : delivered'[i] = delivered[i]
        /\ delivered'[Len(delivered) + 1] = r
    BY <2>1, <2>2, <2>3, CodecFacts, AppendProperties
  <2>5. /\ Len(delivered) + 1 \in 1 .. Len(delivered')
        /\ \A i \in 1 .. Len(delivered) : i \in 1 .. Len(delivered')
    BY <2>4
  <2>6. delivered'[Len(delivered) + 1].unit = w
    BY <2>3, <2>4
  <2>7. ASSUME NEW u, Out(u) PROVE Out(u)'
    BY <2>1, <2>2, <2>4, <2>5, <2>6, <2>7 DEF Out
  <2>8. CourseInv'
    BY <2>1 DEF CourseInv, Calling
  <2> QED
    BY <2>1, <2>7, <2>8, StillCovered
<1>3. CASE ReceiveReturns
  <2>1. /\ pc = "receive" /\ pc' = after /\ Exhausted
        /\ UNCHANGED <<after, flushing, input, held, parsed, packet, inside, draining, given,
                       delivered>>
    BY <1>3, Zenon DEF ReceiveReturns, steps, local, parser
  <2>2. after \in {"parsed", "send", "flush send", "flushed"}
    BY <2>1, TypeParts DEF IInv, KeepInv, ControlType, Calling
  <2>3. ASSUME NEW u, Out(u) PROVE Out(u)'
    BY <2>1, <2>2, <2>3 DEF Out
  <2>4. after = "flushed" => Len(inside) = 0
    BY <2>1, EmptySeq DEF Exhausted, CourseInv, Calling
  <2>5. CourseInv'
    BY <2>1, <2>2, <2>4 DEF CourseInv, Calling
  <2> QED
    BY <2>1, <2>3, <2>5, StillCovered
<1> QED
  BY <1>1, <1>2, <1>3

LEMMA FlushComplete ==
    ASSUME IInv, Covered, HeldRun, CourseInv, FlushBegin
    PROVE  Covered' /\ HeldRun' /\ CourseInv'
<1>1. /\ pc = "idle" /\ pc' = IF parsed' = <<>> THEN "flush send" ELSE "new packet"
      /\ flushing' = TRUE /\ parsed' = held /\ held' = <<>>
      /\ UNCHANGED <<input, packet, inside, given, delivered>>
  BY Zenon DEF FlushBegin, FlushParser, local, codec
<1>2. Len(input) = 0 /\ Len(held') = 0 /\ (held = <<>> => Len(held) = 0)
  BY <1>1, EmptySeq DEF IInv, PieceInv
<1>3. ASSUME NEW u, Out(u) PROVE Out(u)'
  BY <1>1, <1>3 DEF Out
<1>4. ASSUME NEW u, Waiting(u) PROVE Out(u)'
  <2>1. PICK i \in 1 .. Len(held) : UnitOf(held[i]) = u
    BY <1>2, <1>4 DEF Waiting
  <2>2. held # <<>>
    BY <1>2, <2>1
  <2>3. u = UnitOf(parsed'[1])
    BY <1>1, <2>1, HeldUnit
  <2>4. pc' = "new packet"
    BY <1>1, <2>2
  <2> QED
    BY <2>3, <2>4 DEF Out
<1>5. ASSUME NEW k \in 1 .. given PROVE Out(UnitOf(k))'
  <2>1. PICK u : u = UnitOf(k)
    OBVIOUS
  <2>2. Out(u)'
    BY <1>3, <1>4, <2>1 DEF Covered
  <2> QED
    BY <2>1, <2>2
<1>6. Covered'
  BY <1>1, <1>5 DEF Covered
<1>7. HeldRun' 
  BY <1>2 DEF HeldRun
<1>8. CourseInv'
  BY <1>1, <1>2 DEF CourseInv, Calling
<1> QED
  BY <1>6, <1>7, <1>8

LEMMA CompleteStep ==
    ASSUME IInv, CompleteInv, [Next]_vars
    PROVE  CompleteInv'
<1>1. SUFFICES ASSUME ~failed' PROVE Covered' /\ HeldRun' /\ CourseInv'
  BY DEF CompleteInv
<1>2. CASE ~failed
  <2>0. Covered /\ HeldRun /\ CourseInv
    BY <1>2 DEF CompleteInv
  <2>1. ASSUME NEW n \in 1 .. MaxInput, DecodeBegin(n)
        PROVE  Covered' /\ HeldRun' /\ CourseInv'
    BY <2>0, <2>1, BeginComplete
  <2>2. CASE Parse
    <3>1. /\ pc = "parse" /\ pc' = IF parsed' = <<>> THEN "parsed" ELSE "new packet"
          /\ flushing' = flushing
      BY <2>2, Zenon DEF Parse, steps
    <3>2. ~flushing
      BY <3>1 DEF IInv, KeepInv
    <3>3. Covered' /\ HeldRun' /\ (parsed' = <<>> => Len(input') = 0)
      BY <2>0, <2>2, ParseComplete
    <3>4. CourseInv'
      BY <3>1, <3>2, <3>3 DEF CourseInv, Calling
    <3> QED
      BY <3>3, <3>4
  <2>3. CASE \/ ParseAgain \/ DecodeReturns \/ FlushAccepted \/ FlushAgain
             \/ FlushReturns \/ UNCHANGED vars
    <3>1. UNCHANGED <<flushing, input, held, packet, inside, given, delivered>>
      <4>1. CASE DecodeReturns
        <5>1. /\ pc = "parsed" /\ (input = <<>> \/ Stuck) /\ input' = <<>>
              /\ UNCHANGED <<flushing, held, packet, inside, given, delivered>>
          BY <4>1, Zenon DEF DecodeReturns, steps, codec
        <5>2. input = <<>>
          BY <2>0, <5>1, Counts, EmptySeq DEF CourseInv, Stuck
        <5> QED
          BY <5>1, <5>2
      <4>2. CASE \/ ParseAgain \/ FlushAccepted \/ FlushAgain \/ FlushReturns
                 \/ UNCHANGED vars
        BY <4>2, Zenon DEF ParseAgain, FlushAccepted, FlushAgain, FlushReturns, vars, steps,
                           local, parser, codec
      <4> QED
        BY <2>3, <4>1, <4>2
    <3>2. \/ pc' = pc /\ UNCHANGED <<after, parsed, frame, draining>>
          \/ pc' \in {"parse", "idle"}
          \/ pc' = "receive" /\ after' = "flush send"
          \/ pc' = "receive" /\ after' = "flushed" /\ draining'
          \/ pc = "flushed" /\ pc' = "done"
      BY <2>3, Zenon DEF ParseAgain, DecodeReturns, FlushAccepted, FlushAgain, FlushReturns,
                         vars, steps, parser, codec
    <3>3. ASSUME NEW u, Out(u) PROVE Out(u)'
      <4>1. pc # pc' => pc \notin {"callback", "new packet"}
        BY <2>3, Zenon DEF ParseAgain, DecodeReturns, FlushAccepted, FlushAgain, FlushReturns,
                           vars
      <4>2. pc = pc' => UNCHANGED <<frame, parsed>>
        <5>1. CASE UNCHANGED vars
          BY <5>1, Zenon DEF vars, parser, codec
        <5>2. CASE ParseAgain \/ DecodeReturns \/ FlushAccepted \/ FlushAgain \/ FlushReturns
          BY <5>2 DEF ParseAgain, DecodeReturns, FlushAccepted, FlushAgain, FlushReturns
        <5> QED
          BY <2>3, <5>1, <5>2
      <4> QED
        BY <3>1, <3>3, <4>1, <4>2 DEF Out
    <3>4. CourseInv'
      BY <2>0, <3>1, <3>2 DEF CourseInv, Calling
    <3> QED
      BY <2>0, <3>1, <3>3, <3>4, StillCovered
  <2>4. CASE Faults \/ CallbackRefuses \/ \E n \in 1 .. MaxInput : DecodeRefused(n)
    BY <1>1, <2>4 DEF Faults, ParserStalls, ParseFails, NewPacketFails, SendFails,
                      ReceiveFails, FlushParserFails, FlushFails, CallbackRefuses, DecodeRefused, Fails
  <2> QED
    BY <2>0, <2>1, <2>2, <2>3, <2>4, SendComplete, ReceiveComplete, FlushComplete
       DEF Next, Step, Callback, Finished
<1>3. CASE failed
  <2>1. failed' = failed \/ failed' = TRUE
    BY Zenon DEF Next, Step, Faults, Callback, Finished, vars, DecodeBegin, DecodeRefused,
       Parse, ParseAgain, DecodeReturns, ParseFails, NewPacket, NewPacketFails, SendAccepted,
       SendAgain, SendFails, Receive, CallbackAccepts, CallbackRefuses, ReceiveReturns,
       ReceiveFails, FlushBegin, FlushParserFails, FlushAccepted, FlushAgain, FlushFails,
       FlushReturns, ParserStalls, Fails
  <2> QED
    BY <1>1, <1>3, <2>1
<1> QED
  BY <1>2, <1>3

-----------------------------------------------------------------------------
(* Theorems.                                                               *)

LEMMA Inductive == Spec => []IInv
<1>1. Init => IInv
  <2>1. SUFFICES ASSUME Init PROVE IInv
    OBVIOUS
  <2>2. MaxPieces \in Nat /\ 0 \in 0 .. MaxInput
    BY Sizes DEF MaxPieces
  <2>3. TypeOK
    <3>1. ControlType
      BY <2>1 DEF Init, ControlType
    <3>2. /\ <<>> \in Seq(Pieces) /\ <<>> \in Seq(Units) /\ Len(<<>>) = 0
          /\ <<>> \in Seq([unit : Units, index : Nat]) /\ 0 <= MaxInput
          /\ 0 \in 0 .. MaxPieces
      BY <2>2, EmptySeq, Sizes
    <3>3. PieceType
      BY <2>1, <2>2, <3>2 DEF Init, PieceType
    <3>4. CodecType
      BY <2>1, <3>2 DEF Init, CodecType
    <3> QED
      BY <3>1, <3>3, <3>4, TypeParts
  <2>4. PieceInv /\ KeepInv /\ OutInv
    BY <2>1 DEF Init, PieceInv, KeepInv, OutInv, Calling
  <2>5. NextInv
    <3>1. /\ pc = "idle" /\ packet = <<>>
          /\ Len(delivered) = 0 /\ Len(inside) = 0
      BY <2>1, EmptySeq DEF Init
    <3> QED
      BY <3>1 DEF NextInv, Ahead, OutBelow
  <2> QED
    BY <2>3, <2>4, <2>5 DEF IInv
<1>2. IInv /\ [Next]_vars => IInv'
  <2>1. SUFFICES ASSUME IInv, [Next]_vars PROVE IInv'
    OBVIOUS
  <2>2. ControlType' /\ KeepInv'
    BY <2>1, ControlStep
  <2>3. PieceType' /\ PieceInv'
    BY <2>1, PieceStep
  <2>4. CodecType' /\ OutInv' /\ NextInv'
    BY <2>1, UnitStep
  <2>5. TypeOK'
    BY <2>2, <2>3, <2>4 DEF TypeOK, ControlType, PieceType, CodecType
  <2> QED
    BY <2>2, <2>3, <2>4, <2>5 DEF IInv
<1> QED
  BY <1>1, <1>2, PTL DEF Spec

\* Every variable keeps its type: in particular no sequence of pieces or units
\* runs past what the stream has.
THEOREM TypeCorrect == Spec => []TypeOK
<1>1. IInv => TypeOK
  BY DEF IInv
<1> QED
  BY <1>1, Inductive, PTL

\* However Decode's inputs are cut, whatever call fails and however often FFmpeg
\* answers EAGAIN, frames reach frame_callback once, in stream order and with
\* growing indices.
THEOREM FramesInOrder == Spec => []InOrder
<1>1. IInv => InOrder
  BY DEF IInv, OutInv, InOrder
<1> QED
  BY <1>1, Inductive, PTL

\* Decode and Flush, on whatever path they return, leave no input buffer
\* allocated and nothing in decoder->packet.
THEOREM CallsKeepNothing == Spec => []NothingKept
<1>1. IInv => NothingKept
  BY DEF IInv, KeepInv, NothingKept, Calling
<1> QED
  BY <1>1, Inductive, PTL

\* When no call failed, Flush returns only after the frame of every unit given was
\* passed to frame_callback: neither the parser nor the codec keeps the last ones.
THEOREM EverythingDelivered == Spec => []AllDelivered
<1>1. Init => CompleteInv
  <2>1. SUFFICES ASSUME Init PROVE CompleteInv
    OBVIOUS
  <2>2. pc = "idle" /\ flushing = FALSE /\ given = 0 /\ Len(held) = 0
    BY <2>1, EmptySeq DEF Init
  <2> QED
    BY <2>2 DEF CompleteInv, Covered, HeldRun, CourseInv, Calling
<1>2. IInv /\ CompleteInv /\ [Next]_vars => CompleteInv'
  BY CompleteStep
<1>3. IInv /\ CompleteInv => AllDelivered
  <2>1. SUFFICES ASSUME IInv, CompleteInv, pc = "done", ~failed, NEW k \in 1 .. given
                 PROVE  \E i \in 1 .. Len(delivered) : delivered[i].unit = UnitOf(k)
    BY DEF AllDelivered
  <2>2. flushing /\ packet = <<>>
    BY <2>1 DEF IInv, KeepInv, Calling
  <2>3. Len(held) = 0 /\ Len(input) = 0 /\ Len(inside) = 0
    BY <2>1, <2>2 DEF CompleteInv, CourseInv
  <2>4. Out(UnitOf(k)) \/ Waiting(UnitOf(k))
    BY <2>1 DEF CompleteInv, Covered
  <2> QED
    BY <2>1, <2>2, <2>3, <2>4 DEF Out, Waiting
<1> QED
  BY <1>1, <1>2, <1>3, Inductive, PTL DEF Spec
=============================================================================
