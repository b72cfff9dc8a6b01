------------------------------- MODULE Decoder -------------------------------
(***************************************************************************)
(* server_pc/h264_decoder.c: Decode and Flush, called by the decoder       *)
(* thread, between FFmpeg and frame_callback.                              *)
(*                                                                         *)
(* The stream is a sequence of pieces, numbered from 1; PiecesPerUnit of   *)
(* them make an access unit, from which FFmpeg decodes one frame.  Decode  *)
(* gets the stream in inputs that need not end where a unit ends.  FFmpeg  *)
(* is external: the parser keeps a unit until it sees the first piece of   *)
(* the next one, and may then return it without consuming anything; the    *)
(* codec holds back up to Delay units until it is drained, refuses a       *)
(* packet (EAGAIN) only while it has a frame to give, and takes it at the  *)
(* latest when it has none.                                                *)
(***************************************************************************)
EXTENDS Naturals, Sequences

CONSTANTS PiecesPerUnit,
          Delay,        \* units the codec holds back (has_b_frames, threads)
          Backlog,      \* packets the codec takes while frames are waiting
          MaxUnits,     \* bound: units in the stream
          MaxInput      \* bound: pieces in one input

ASSUME DecoderAssumption ==
    /\ PiecesPerUnit \in Nat \ {0} /\ MaxInput \in Nat \ {0}
    /\ {Delay, Backlog, MaxUnits} \subseteq Nat

VARIABLES
    pc, after, flushing,     \* the call in progress; where receive_frames returns to;
                             \* it is Flush (or was: no Decode follows)
    input_buffer, input,     \* allocated?; what av_parser_parse2 has not consumed
    consumed, parsed,        \* its results: a length, the pieces of a unit
    held,                    \* pieces the parser keeps
    packet,                  \* decoder->packet: the pieces of a unit
    inside, draining,        \* units the codec keeps; it was sent NULL
    frame, frame_count,      \* decoder->frame: <<unit>> or <<>>
    given, delivered,        \* history: pieces given, frames passed to the callback
    failed                   \* history: some call returned -1 or dropped its input

parser == <<consumed, parsed, held>>
local  == <<input_buffer, input>>
codec  == <<inside, draining, frame, frame_count>>
steps  == <<after, flushing>>
vars   == <<pc, steps, local, parser, packet, codec, given, delivered, failed>>

UnitOf(piece)  == ((piece - 1) \div PiecesPerUnit) + 1
Starts(piece)  == (piece - 1) % PiecesPerUnit = 0
MaxPieces      == MaxUnits * PiecesPerUnit

Init ==
    /\ pc = "idle" /\ after = "idle" /\ flushing = FALSE
    /\ input_buffer = FALSE /\ input = <<>>
    /\ consumed = 0 /\ parsed = <<>> /\ held = <<>>
    /\ packet = <<>>
    /\ inside = <<>> /\ draining = FALSE /\ frame = <<>> /\ frame_count = 0
    /\ given = 0 /\ delivered = <<>> /\ failed = FALSE

ReleasePacket == packet' = <<>>     \* av_packet_unref

\* Every error path: what the call holds is given back, the rest of its input is
\* dropped and the caller gets -1.
Fails ==
    /\ pc' = IF flushing THEN "done" ELSE "idle"
    /\ failed' = TRUE
    /\ input_buffer' = FALSE /\ input' = <<>> /\ consumed' = 0 /\ parsed' = <<>>
    /\ ReleasePacket
    /\ UNCHANGED <<steps, given, delivered>>

-----------------------------------------------------------------------------
(* H264_Decoder_Decode.                                                    *)

\* The caller hands over the next n pieces; they are copied.
DecodeBegin(n) ==
    /\ pc = "idle" /\ given + n <= MaxPieces
    /\ given' = given + n
    /\ input_buffer' = TRUE
    /\ input' = [i \in 1 .. n |-> given + i]
    /\ pc' = "parse"
    /\ UNCHANGED <<steps, parser, packet, codec, delivered, failed>>

\* av_malloc failed: the input is lost.
DecodeRefused(n) ==
    /\ pc = "idle" /\ given + n <= MaxPieces
    /\ given' = given + n
    /\ failed' = TRUE
    /\ UNCHANGED <<pc, steps, local, parser, packet, codec, delivered>>

\* av_parser_parse2.  A unit ends where the next one starts; that start may be
\* the first piece of the input, and then nothing is consumed.
Boundary == {i \in 2 .. Len(input) : Starts(input[i])}
Take(n)  == /\ consumed' = n
            /\ input' = SubSeq(input, n + 1, Len(input))
Parse ==
    /\ pc = "parse"
    /\ IF held # <<>> /\ Starts(Head(input))
       THEN Take(0) /\ parsed' = held /\ held' = <<>>
       ELSE IF Boundary = {}
       THEN Take(Len(input)) /\ parsed' = <<>> /\ held' = held \o input
       ELSE \E b \in Boundary :
                /\ \A i \in Boundary : b <= i
                /\ Take(b - 1)
                /\ parsed' = held \o SubSeq(input, 1, b - 1) /\ held' = <<>>
    /\ pc' = IF parsed' = <<>> THEN "parsed" ELSE "new packet"
    /\ UNCHANGED <<steps, input_buffer, packet, codec, given, delivered, failed>>

\* The parser consumes nothing and returns nothing, which in theory it never does.
ParserStalls ==
    /\ pc = "parse"
    /\ consumed' = 0 /\ parsed' = <<>>
    /\ failed' = TRUE
    /\ pc' = "parsed"
    /\ UNCHANGED <<steps, local, held, packet, codec, given, delivered>>

\* Then the loop ends rather than spin, and the rest of the input is dropped.
MutantStuck == consumed = 0
MutantNeverStuck == FALSE
Stuck == consumed = 0 /\ parsed = <<>>

ParseAgain ==
    /\ pc = "parsed" /\ input # <<>> /\ ~Stuck
    /\ pc' = "parse"
    /\ UNCHANGED <<steps, local, parser, packet, codec, given, delivered, failed>>

DecodeReturns ==
    /\ pc = "parsed" /\ (input = <<>> \/ Stuck)
    /\ input_buffer' = FALSE /\ input' = <<>> /\ consumed' = 0 /\ parsed' = <<>>
    /\ pc' = "idle"
    /\ UNCHANGED <<steps, held, packet, codec, given, delivered, failed>>

ParseFails ==
    /\ pc = "parse"
    /\ Fails
    /\ UNCHANGED <<held, codec>>

-----------------------------------------------------------------------------
(* send_packet_to_decoder.                                                 *)

AfterSend == IF flushing THEN "flush send" ELSE "parsed"

NewPacket ==
    /\ pc = "new packet"
    /\ packet' = parsed
    /\ pc' = "send"
    /\ UNCHANGED <<steps, local, parser, codec, given, delivered, failed>>

NewPacketFails ==
    /\ pc = "new packet"
    /\ Fails
    /\ UNCHANGED <<held, codec>>

\* avcodec_send_packet took the packet: receive_frames is called once more and
\* its result is Decode's.
MutantSendTwice ==
    /\ pc = "send" /\ Len(inside) <= Delay + Backlog
    /\ inside' = Append(inside, UnitOf(Head(packet)))
    /\ pc' = "receive" /\ after' = "send"
    /\ UNCHANGED <<flushing, local, parser, packet, draining, frame, frame_count, given,
                   delivered, failed>>
SendAccepted ==
    /\ pc = "send" /\ Len(inside) <= Delay + Backlog
    /\ inside' = Append(inside, UnitOf(Head(packet)))
    /\ ReleasePacket
    /\ pc' = "receive" /\ after' = AfterSend
    /\ UNCHANGED <<flushing, local, parser, draining, frame, frame_count, given,
                   delivered, failed>>

\* EAGAIN: frames first, then the same packet again.
MutantSpin ==
    /\ pc = "send" /\ Len(inside) > Delay
    /\ UNCHANGED vars
SendAgain ==
    /\ pc = "send" /\ Len(inside) > Delay
    /\ pc' = "receive" /\ after' = "send"
    /\ UNCHANGED <<flushing, local, parser, packet, codec, given, delivered, failed>>

\* The data is damaged: the packet is gone.
SendFails ==
    /\ pc = "send"
    /\ Fails
    /\ UNCHANGED <<held, codec>>

-----------------------------------------------------------------------------
(* receive_frames.                                                         *)

Receive ==
    /\ pc = "receive" /\ inside # <<>>
    /\ frame' = <<Head(inside)>>
    /\ inside' = Tail(inside)
    /\ frame_count' = frame_count + 1
    /\ pc' = "callback"
    /\ UNCHANGED <<steps, local, parser, packet, draining, given, delivered, failed>>

CallbackAccepts ==
    /\ pc = "callback"
    /\ delivered' = Append(delivered, [unit |-> Head(frame), index |-> frame_count])
    /\ pc' = "receive"
    /\ UNCHANGED <<steps, local, parser, packet, codec, given, failed>>

\* frame_callback returned -1: the queue was stopped or the clone failed.
CallbackRefuses ==
    /\ pc = "callback"
    /\ Fails
    /\ UNCHANGED <<held, codec>>

\* EAGAIN or, once the codec is drained, EOF.
Exhausted == IF draining THEN inside = <<>> ELSE Len(inside) <= Delay

ReceiveReturns ==
    /\ pc = "receive" /\ Exhausted
    /\ frame' = <<>>
    /\ pc' = after
    /\ UNCHANGED <<steps, local, parser, packet, inside, draining, frame_count, given,
                   delivered, failed>>

\* A frame could not be decoded; the codec may have dropped it.
ReceiveFails ==
    /\ pc = "receive" /\ inside # <<>>
    /\ inside' \in {inside, Tail(inside)}
    /\ frame' = <<>>
    /\ Fails
    /\ UNCHANGED <<held, draining, frame_count>>

-----------------------------------------------------------------------------
(* H264_Decoder_Flush, called once, after the last Decode.                 *)

\* The parser gives up the unit it keeps.
FlushParser == parsed' = held /\ held' = <<>>

FlushBegin ==
    /\ pc = "idle"
    /\ flushing' = TRUE
    /\ FlushParser
    /\ pc' = IF parsed' = <<>> THEN "flush send" ELSE "new packet"
    /\ UNCHANGED <<after, local, consumed, packet, codec, given, delivered, failed>>

FlushParserFails ==
    /\ pc = "idle"
    /\ flushing' = TRUE /\ failed' = TRUE
    /\ pc' = "done"
    /\ UNCHANGED <<after, local, parser, packet, codec, given, delivered>>

\* avcodec_send_packet(NULL) drains the codec.
FlushAccepted ==
    /\ pc = "flush send" /\ Len(inside) <= Delay + Backlog
    /\ draining' = TRUE
    /\ pc' = "receive" /\ after' = "flushed"
    /\ UNCHANGED <<flushing, local, parser, packet, inside, frame, frame_count, given,
                   delivered, failed>>

FlushAgain ==
    /\ pc = "flush send" /\ Len(inside) > Delay
    /\ pc' = "receive" /\ after' = "flush send"
    /\ UNCHANGED <<flushing, local, parser, packet, codec, given, delivered, failed>>

FlushFails ==
    /\ pc = "flush send"
    /\ Fails
    /\ UNCHANGED <<held, codec>>

FlushReturns ==
    /\ pc = "flushed"
    /\ pc' = "done" /\ parsed' = <<>>
    /\ UNCHANGED <<steps, local, consumed, held, packet, codec, given, delivered, failed>>

-----------------------------------------------------------------------------
Callback == CallbackAccepts \/ CallbackRefuses

\* What the code and FFmpeg do on their own once they were called.
Step == \/ Parse \/ ParseAgain \/ DecodeReturns
        \/ NewPacket \/ SendAccepted \/ SendAgain
        \/ Receive \/ Callback \/ ReceiveReturns
        \/ FlushAccepted \/ FlushAgain \/ FlushReturns
Faults == \/ ParserStalls \/ ParseFails \/ NewPacketFails \/ SendFails \/ ReceiveFails
          \/ FlushParserFails \/ FlushFails

Finished == pc = "done" /\ UNCHANGED vars

Next == \/ \E n \in 1 .. MaxInput : DecodeBegin(n) \/ DecodeRefused(n)
        \/ FlushBegin \/ Step \/ Faults \/ Finished

Spec == Init /\ [][Next]_vars

\* FFmpeg's functions and the callback return (CallsReturn in FrameQueue).
FairSpec == Spec /\ WF_vars(Step)

-----------------------------------------------------------------------------
(* Properties                                                              *)

Units  == 1 .. MaxUnits
Pieces == 1 .. MaxPieces

\* The type of every variable.
TypeOK ==
    /\ pc \in {"idle", "parse", "parsed", "new packet", "send", "receive", "callback",
              "flush send", "flushed", "done"}
    /\ after \in {"idle", "parsed", "send", "flush send", "flushed"}
    /\ flushing \in BOOLEAN /\ input_buffer \in BOOLEAN
    /\ draining \in BOOLEAN /\ failed \in BOOLEAN
    /\ input \in Seq(Pieces) /\ parsed \in Seq(Pieces)
    /\ held \in Seq(Pieces) /\ packet \in Seq(Pieces)
    /\ Len(input) <= MaxInput /\ consumed \in 0 .. MaxInput /\ given \in 0 .. MaxPieces
    /\ inside \in Seq(Units) /\ frame \in {<<>>} \cup {<<u>> : u \in Units}
    /\ frame_count \in Nat /\ delivered \in Seq([unit : Units, index : Nat])

\* However the inputs are cut, whatever fails and whatever is retried on EAGAIN,
\* no frame reaches the callback twice or after a later one, and the indices it
\* is given grow with it.
InOrder ==
    \A i, j \in 1 .. Len(delivered) : i < j =>
        /\ delivered[i].unit < delivered[j].unit
        /\ delivered[i].index < delivered[j].index

\* When no call failed and the parser never stalled the frame of every unit given,
\* the last one included, has reached the callback when Flush returns.
AllDelivered ==
    pc = "done" /\ ~failed =>
        \A k \in 1 .. given : \E i \in 1 .. Len(delivered) :
            delivered[i].unit = UnitOf(k)

\* Between two calls no input buffer is allocated and the packet is empty, on
\* whatever path the last call returned.
NothingKept == pc \in {"idle", "done"} => ~input_buffer /\ packet = <<>>

\* Decode and Flush return: every EAGAIN makes room before the next attempt, and
\* the parser loop ends when the parser makes no progress.
CallsReturn == pc # "idle" ~> pc \in {"idle", "done"}
=============================================================================
