--------------------------- MODULE ServerPipeline ---------------------------
(***************************************************************************)
(* server_pc/main.c: the TCP receive thread, the decoder thread and main   *)
(* (the SDL loop), connected by the packet queue and the frame queue, from *)
(* the creation of the threads to the end of the process.                  *)
(*                                                                         *)
(* The queues are StopChannels, which is what PacketQueue and FrameQueue   *)
(* are shown to implement: a Push waits for room or for Stop, a Pop for a  *)
(* packet or for Stop, TryPop never waits.  Packets are numbered in the    *)
(* order the client sends them; a frame has the number of its packet.      *)
(* FFmpeg and the client are external: FFmpeg gives frames back in order,  *)
(* holding back at most Delay of them until it is flushed.                 *)
(***************************************************************************)
EXTENDS Naturals, Sequences

CONSTANTS PacketCap, FrameCap,   \* capacities of the two queues
          Delay,                 \* frames FFmpeg holds back
          MaxPackets             \* bound: packets the client sends

ASSUME PipelineAssumption ==
    /\ PacketCap \in Nat \ {0} /\ FrameCap \in Nat \ {0}
    /\ Delay \in Nat /\ MaxPackets \in Nat

VARIABLES
    wire, sent, peer,            \* the client's end of the connection
    socket,                      \* client_fd: "open", "shut", "closed"
    packetQ, packetStop, frameQ, frameStop,
    tcpPc, tcpPacket, received, tcp_error,
    decPc, decPacket, inside, decFrame, flushing, decoder_error,
    mainPc, mainFrame, shown,
    aborted, oom, flushFailed    \* history: why frames may be missing

client == <<wire, sent, peer>>
queues == <<packetQ, packetStop, frameQ, frameStop>>
tcp    == <<tcpPc, tcpPacket, received, tcp_error>>
dec    == <<decPc, decPacket, inside, decFrame, flushing, decoder_error>>
screen == <<mainPc, mainFrame, shown>>
causes == <<aborted, oom, flushFailed>>
vars   == <<client, socket, queues, tcp, dec, screen, causes>>

None == <<>>     \* an empty hand; a full one is <<number>>

Init ==
    /\ wire = <<>> /\ sent = 0 /\ peer = "up" /\ socket = "open"
    /\ packetQ = <<>> /\ packetStop = FALSE /\ frameQ = <<>> /\ frameStop = FALSE
    /\ tcpPc = "enter" /\ tcpPacket = None /\ received = 0 /\ tcp_error = FALSE
    /\ decPc = "not created" /\ decPacket = None /\ inside = <<>> /\ decFrame = None
    /\ flushing = FALSE /\ decoder_error = FALSE
    /\ mainPc = "create decoder" /\ mainFrame = None /\ shown = <<>>
    /\ aborted = FALSE /\ oom = FALSE /\ flushFailed = FALSE

-----------------------------------------------------------------------------
(* The client and the network.                                             *)

ClientSends ==
    /\ peer = "up" /\ sent < MaxPackets
    /\ sent' = sent + 1
    /\ wire' = Append(wire, sent + 1)
    /\ UNCHANGED <<peer, socket, queues, tcp, dec, screen, causes>>

\* A close still delivers what was sent; a reset may lose it.
ClientLeaves ==
    /\ peer = "up"
    /\ peer' \in {"closed", "reset"}
    /\ UNCHANGED <<wire, sent, socket, queues, tcp, dec, screen, causes>>

-----------------------------------------------------------------------------
(* tcp_receive_thread_run.                                                 *)

\* TCP_Server_RecvH264 begins with a look at client_fd.
RecvEnter ==
    /\ tcpPc = "enter" /\ socket # "closed"
    /\ tcpPc' = "recv"
    /\ UNCHANGED <<client, socket, queues, tcpPacket, received, tcp_error, dec,
                   screen, causes>>

RecvPacket ==
    /\ tcpPc = "recv" /\ wire # <<>>
    /\ tcpPacket' = <<Head(wire)>>
    /\ wire' = Tail(wire)
    /\ received' = received + 1
    /\ tcpPc' = "push"
    /\ UNCHANGED <<sent, peer, socket, queues, tcp_error, dec, screen, causes>>

\* recv returned 0: the client closed the connection, or main shut it down.
RecvEnds ==
    /\ tcpPc = "recv"
    /\ (peer = "closed" /\ wire = <<>>) \/ socket # "open"
    /\ tcpPc' = "stop"
    /\ UNCHANGED <<client, socket, queues, tcpPacket, received, tcp_error, dec,
                   screen, causes>>

\* RecvH264 returned -1: no client_fd any more, recv failed, or, with the peer still
\* there, no memory for a packet whose header has come.  It rejects no header this
\* client sends (InStep of H264Link).
RecvFails ==
    /\ \/ tcpPc \in {"enter", "recv"} /\ socket = "closed"
       \/ tcpPc = "recv" /\ (peer = "reset" \/ wire # <<>>)
    /\ tcp_error' = TRUE
    /\ tcpPc' = "stop"
    /\ UNCHANGED <<client, socket, queues, tcpPacket, received, dec, screen, causes>>

MutantDropNewest    == packetQ' = IF Len(packetQ) < PacketCap
                                  THEN packetQ \o tcpPacket ELSE packetQ
MutantPushFront     == Len(packetQ) < PacketCap /\ packetQ' = tcpPacket \o packetQ
MutantOneShort      == Len(packetQ) < PacketCap - 1 /\ packetQ' = packetQ \o tcpPacket
PacketPush == /\ Len(packetQ) < PacketCap
              /\ packetQ' = packetQ \o tcpPacket

PushPacket ==
    /\ tcpPc = "push" /\ ~packetStop
    /\ PacketPush
    /\ tcpPacket' = None
    /\ tcpPc' = "enter"
    /\ UNCHANGED <<client, socket, packetStop, frameQ, frameStop, received, tcp_error,
                   dec, screen, causes>>

PushPacketRefused ==
    /\ tcpPc = "push" /\ packetStop
    /\ tcpPacket' = None
    /\ tcpPc' = "stop"
    /\ UNCHANGED <<client, socket, queues, received, tcp_error, dec, screen, causes>>

\* malloc failed inside Push.
PushPacketFails ==
    /\ tcpPc = "push"
    /\ tcpPacket' = None
    /\ tcp_error' = TRUE /\ oom' = TRUE
    /\ tcpPc' = "stop"
    /\ UNCHANGED <<client, socket, queues, received, dec, screen, aborted, flushFailed>>

MutantTcpForgetsStop ==
    /\ tcpPc = "stop"
    /\ tcpPc' = "exit"
    /\ UNCHANGED <<client, socket, queues, tcpPacket, received, tcp_error, dec,
                   screen, causes>>

TcpStop ==
    /\ tcpPc = "stop"
    /\ packetStop' = TRUE
    /\ tcpPc' = "exit"
    /\ UNCHANGED <<client, socket, packetQ, frameQ, frameStop, tcpPacket, received,
                   tcp_error, dec, screen, causes>>

-----------------------------------------------------------------------------
(* decoder_thread_run.                                                     *)

MutantPopEndsAtStop == packetStop
PacketsEnd == packetQ = <<>> /\ packetStop

PopPacket ==
    /\ decPc = "pop" /\ packetQ # <<>> /\ ~PacketsEnd
    /\ decPacket' = <<Head(packetQ)>>
    /\ packetQ' = Tail(packetQ)
    /\ decPc' = "decode"
    /\ UNCHANGED <<client, socket, packetStop, frameQ, frameStop, tcp, inside, decFrame,
                   flushing, decoder_error, screen, causes>>

PopEnds ==
    /\ decPc = "pop" /\ PacketsEnd
    /\ flushing' = TRUE
    /\ decPc' = "emit"
    /\ UNCHANGED <<client, socket, queues, tcp, decPacket, inside, decFrame,
                   decoder_error, screen, causes>>

\* H264_Decoder_Decode: parser and avcodec_send_packet take the packet.
Feed ==
    /\ decPc = "decode"
    /\ inside' = inside \o decPacket
    /\ decPacket' = None
    /\ decPc' = "emit"
    /\ UNCHANGED <<client, socket, queues, tcp, decFrame, flushing, decoder_error,
                   screen, causes>>

\* receive_frames: the next frame, handed to frame_callback.
Emit ==
    /\ decPc = "emit" /\ inside # <<>>
    /\ decFrame' = <<Head(inside)>>
    /\ inside' = Tail(inside)
    /\ decPc' = "push"
    /\ UNCHANGED <<client, socket, queues, tcp, decPacket, flushing, decoder_error,
                   screen, causes>>

PushFrame ==
    /\ decPc = "push" /\ ~frameStop /\ Len(frameQ) < FrameCap
    /\ frameQ' = frameQ \o decFrame
    /\ decFrame' = None
    /\ decPc' = "emit"
    /\ UNCHANGED <<client, socket, packetQ, packetStop, frameStop, tcp, decPacket,
                   inside, flushing, decoder_error, screen, causes>>

\* A failed Decode drops the rest of its input, with the unit the parser would
\* have found in it; FFmpeg drops a frame it cannot decode (Decoder).
Remains == IF inside = <<>> THEN {inside}
           ELSE {inside, Tail(inside), SubSeq(inside, 1, Len(inside) - 1)}

\* Decode or Flush returned a negative value.  After a failed Decode the thread
\* goes on with the next packet, and only that failure is recorded.
GiveUp == /\ decFrame' = None
          /\ inside' \in Remains
          /\ decPc' = IF flushing THEN "stop" ELSE "pop"
          /\ decoder_error' = (decoder_error \/ ~flushing)
          /\ flushFailed' = (flushFailed \/ flushing)

\* The parser, an allocation or FFmpeg failed.
FFmpegFails ==
    /\ decPc \in {"decode", "emit"}
    /\ decPacket' = None
    /\ GiveUp
    /\ UNCHANGED <<client, socket, queues, tcp, flushing, screen, aborted, oom>>

\* frame_callback returned -1: Push refused the frame, or could not clone it.
PushFrameRefused ==
    /\ decPc = "push" /\ frameStop
    /\ GiveUp
    /\ UNCHANGED <<client, socket, queues, tcp, decPacket, flushing, screen, aborted,
                   oom>>

PushFrameFails ==
    /\ decPc = "push"
    /\ GiveUp
    /\ UNCHANGED <<client, socket, queues, tcp, decPacket, flushing, screen, aborted,
                   oom>>

\* AVERROR(EAGAIN): Decode returns and the packet is freed.
DecodeReturns ==
    /\ decPc = "emit" /\ ~flushing
    /\ Len(inside) <= Delay
    /\ decPc' = "pop"
    /\ UNCHANGED <<client, socket, queues, tcp, decPacket, inside, decFrame, flushing,
                   decoder_error, screen, causes>>

\* AVERROR_EOF after the flush.
MutantNoFlush == TRUE
Drained == inside = <<>>

FlushReturns ==
    /\ decPc = "emit" /\ flushing
    /\ Drained
    /\ decPc' = "stop"
    /\ UNCHANGED <<client, socket, queues, tcp, decPacket, inside, decFrame, flushing,
                   decoder_error, screen, causes>>

DecoderStop ==
    /\ decPc = "stop"
    /\ frameStop' = TRUE
    /\ decPc' = "exit"
    /\ UNCHANGED <<client, socket, packetQ, packetStop, frameQ, tcp, decPacket, inside,
                   decFrame, flushing, decoder_error, screen, causes>>

-----------------------------------------------------------------------------
(* main.                                                                   *)

MainGoes(label) == mainPc' = label

CreateDecoder ==
    /\ mainPc = "create decoder"
    /\ decPc' = "pop"
    /\ MainGoes("poll quit")
    /\ UNCHANGED <<client, socket, queues, tcp, decPacket, inside, decFrame, flushing,
                   decoder_error, mainFrame, shown, causes>>

\* stop_pipeline is what every abnormal way out of the loop begins with.
Abort == /\ MainGoes("stop frames")
         /\ aborted' = TRUE
         /\ UNCHANGED <<client, socket, queues, tcp, shown, oom, flushFailed>>

CreateDecoderFails ==
    /\ mainPc = "create decoder"
    /\ decPc' = "exit"
    /\ Abort
    /\ UNCHANGED <<decPacket, inside, decFrame, flushing, decoder_error, mainFrame>>

\* SDL_Display_PollQuit: the window was closed, or SDL failed.
Quit ==
    /\ mainPc = "poll quit"
    /\ Abort
    /\ UNCHANGED <<dec, mainFrame>>

NoQuit ==
    /\ mainPc = "poll quit"
    /\ MainGoes("try pop")
    /\ UNCHANGED <<client, socket, queues, tcp, dec, mainFrame, shown, causes>>

TryPopFrame ==
    /\ mainPc = "try pop" /\ frameQ # <<>>
    /\ mainFrame' = <<Head(frameQ)>>
    /\ frameQ' = Tail(frameQ)
    /\ MainGoes("render")
    /\ UNCHANGED <<client, socket, packetQ, packetStop, frameStop, tcp, dec, shown,
                   causes>>

TryPopNothing ==
    /\ mainPc = "try pop" /\ frameQ = <<>> /\ ~frameStop
    /\ MainGoes("poll quit")
    /\ UNCHANGED <<client, socket, queues, tcp, dec, mainFrame, shown, causes>>

MutantEndWhenEmpty == frameQ = <<>>
FramesEnd == frameQ = <<>> /\ frameStop

TryPopEnds ==
    /\ mainPc = "try pop" /\ FramesEnd
    /\ MainGoes("last packet stop")
    /\ UNCHANGED <<client, socket, queues, tcp, dec, mainFrame, shown, causes>>

Render ==
    /\ mainPc = "render"
    /\ shown' = shown \o mainFrame
    /\ mainFrame' = None
    /\ MainGoes("poll quit")
    /\ UNCHANGED <<client, socket, queues, tcp, dec, causes>>

RenderFails ==
    /\ mainPc = "render"
    /\ mainFrame' = None
    /\ Abort
    /\ UNCHANGED dec

\* AVFrameQueue_Stop, H264PacketQueue_Stop, and the two halves of
\* TCP_Server_CloseClient: shutdown wakes a blocked recv, close ends the rest.
StopFrames ==
    /\ mainPc = "stop frames"
    /\ frameStop' = TRUE
    /\ MainGoes("stop packets")
    /\ UNCHANGED <<client, socket, packetQ, packetStop, frameQ, tcp, dec, mainFrame,
                   shown, causes>>

StopPackets ==
    /\ mainPc = "stop packets"
    /\ packetStop' = TRUE
    /\ MainGoes("shutdown")
    /\ UNCHANGED <<client, socket, packetQ, frameQ, frameStop, tcp, dec, mainFrame,
                   shown, causes>>

MutantNoShutdown ==
    /\ mainPc = "shutdown"
    /\ MainGoes("last packet stop")
    /\ UNCHANGED <<client, socket, queues, tcp, dec, mainFrame, shown, causes>>

Shutdown ==
    /\ mainPc = "shutdown"
    /\ socket' = "shut"
    /\ MainGoes("close")
    /\ UNCHANGED <<client, queues, tcp, dec, mainFrame, shown, causes>>

Close ==
    /\ mainPc = "close"
    /\ socket' = "closed"
    /\ MainGoes("last packet stop")
    /\ UNCHANGED <<client, queues, tcp, dec, mainFrame, shown, causes>>

LastPacketStop ==
    /\ mainPc = "last packet stop"
    /\ packetStop' = TRUE
    /\ MainGoes("last frame stop")
    /\ UNCHANGED <<client, socket, packetQ, frameQ, frameStop, tcp, dec, mainFrame,
                   shown, causes>>

LastFrameStop ==
    /\ mainPc = "last frame stop"
    /\ frameStop' = TRUE
    /\ MainGoes("join")
    /\ UNCHANGED <<client, socket, packetQ, packetStop, frameQ, tcp, dec, mainFrame,
                   shown, causes>>

\* Both threads joined, everything is destroyed, main returns.
JoinAndDestroy ==
    /\ mainPc = "join" /\ tcpPc = "exit" /\ decPc = "exit"
    /\ packetQ' = <<>> /\ frameQ' = <<>>
    /\ socket' = "closed"
    /\ MainGoes("exit")
    /\ UNCHANGED <<client, packetStop, frameStop, tcp, dec, mainFrame, shown, causes>>

-----------------------------------------------------------------------------
TcpStep == \/ RecvEnter \/ RecvPacket \/ RecvEnds \/ RecvFails
           \/ PushPacket \/ PushPacketRefused \/ TcpStop
DecoderStep == \/ PopPacket \/ PopEnds \/ Feed \/ Emit \/ PushFrame
               \/ PushFrameRefused \/ DecodeReturns \/ FlushReturns \/ DecoderStop
MainStep == \/ CreateDecoder \/ NoQuit \/ TryPopFrame \/ TryPopNothing \/ TryPopEnds
            \/ Render \/ StopFrames \/ StopPackets \/ Shutdown \/ Close
            \/ LastPacketStop \/ LastFrameStop \/ JoinAndDestroy
Faults == \/ PushPacketFails \/ FFmpegFails \/ PushFrameFails
          \/ CreateDecoderFails \/ RenderFails

Finished == mainPc = "exit" /\ UNCHANGED vars

Next == \/ ClientSends \/ ClientLeaves
        \/ TcpStep \/ DecoderStep \/ MainStep \/ Faults \/ Quit
        \/ Finished

Spec == Init /\ [][Next]_vars

\* Each thread runs when it can; the client, the user and the faults owe nothing.
FairSpec == Spec /\ WF_vars(TcpStep) /\ WF_vars(DecoderStep) /\ WF_vars(MainStep)

-----------------------------------------------------------------------------
(* Properties                                                              *)

Numbers == 1 .. MaxPackets
Hand    == {None} \cup {<<k>> : k \in Numbers}

\* The type of every variable; a closed queue's capacity is respected, too.
TypeOK ==
    /\ wire \in Seq(Numbers) /\ sent \in 0 .. MaxPackets
    /\ peer \in {"up", "closed", "reset"} /\ socket \in {"open", "shut", "closed"}
    /\ packetQ \in Seq(Numbers) /\ Len(packetQ) <= PacketCap
    /\ frameQ \in Seq(Numbers) /\ Len(frameQ) <= FrameCap
    /\ {packetStop, frameStop, tcp_error, decoder_error, flushing} \subseteq BOOLEAN
    /\ tcpPc \in {"enter", "recv", "push", "stop", "exit"}
    /\ decPc \in {"not created", "pop", "decode", "emit", "push", "stop", "exit"}
    /\ mainPc \in {"create decoder", "poll quit", "try pop", "render", "stop frames",
                   "stop packets", "shutdown", "close", "last packet stop",
                   "last frame stop", "join", "exit"}
    /\ {tcpPacket, decPacket, decFrame, mainFrame} \subseteq Hand
    /\ inside \in Seq(Numbers) /\ shown \in Seq(Numbers) /\ received \in 0 .. MaxPackets
    /\ {aborted, oom, flushFailed} \subseteq BOOLEAN

\* Everything between recv and the screen, the oldest first.
Line == shown \o mainFrame \o frameQ \o decFrame \o inside \o decPacket \o packetQ
        \o tcpPacket

\* Frames reach the screen in the order their packets were received, none of
\* them twice, whatever is given up on the way.
InOrder == \A i, j \in DOMAIN Line : i < j => Line[i] < Line[j]

\* As long as nobody aborts and nothing fails, every packet received is on the
\* screen or on its way to it: neither queue nor the decoder loses one, and
\* stopping a queue at the end of the stream drops nothing.
NothingLost ==
    ~aborted /\ ~oom /\ ~decoder_error /\ ~flushFailed =>
        Line = [k \in 1 .. received |-> k]

\* When the client disconnects, what it delivered is shown to the last frame
\* before the process ends.
DrainedAtExit ==
    mainPc = "exit" /\ ~aborted /\ ~oom /\ ~decoder_error /\ ~flushFailed =>
        shown = [k \in 1 .. received |-> k]

\* The window closed, rendering failed, or the decoder thread could not be
\* created: the process ends, wherever the other threads were blocked.
AbortExits == aborted ~> mainPc = "exit"

\* The client's end of the stream ends the process by itself.
DisconnectExits == peer # "up" ~> mainPc = "exit"

\* Two full queues in a row hold the client up but never wedge: everything that
\* was sent is received in the end unless the process ends.
BackpressureYields == wire # <<>> ~> wire = <<>> \/ mainPc = "exit"
=============================================================================
