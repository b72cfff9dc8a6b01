----------------------------- MODULE MppEncoder -----------------------------
(***************************************************************************)
(* client_rk3568/mpp.c: MPP_Encode, called by mpp_thread for each frame,   *)
(* and what the thread does with its result.                               *)
(*                                                                         *)
(* Pictures are numbered in the order the camera delivers them.  The       *)
(* Rockchip encoder is external and runs beside the thread: a frame put    *)
(* into it is encoded some time later from the one input buffer, whatever  *)
(* that contains by then, and its packets come out in order.  With         *)
(* MPP_POLL_BLOCK a get waits for a packet; it may still fail.             *)
(*                                                                         *)
(* TCP_Client_SendH264 is what H264Link shows it to be: a packet is sent   *)
(* whole, or the connection is given up for good.                          *)
(***************************************************************************)
EXTENDS Naturals, Sequences

CONSTANTS HeaderLen,     \* bytes of SPS and PPS, read by MPP_Get_Header
          Slack,         \* what the output buffer grows by beyond the need: 64 KiB
          MaxLen,        \* the largest packet the encoder makes
          MaxFrames      \* bound: frames from the camera

\* With its header a packet is far below TCP_MAX_PAYLOAD_SIZE (8 MiB), so that
\* SendH264 never refuses one for its size.
ASSUME EncoderAssumption ==
    /\ {HeaderLen, MaxLen} \subseteq Nat \ {0} /\ {Slack, MaxFrames} \subseteq Nat

VARIABLES
    pc, current,                \* mpp_thread: the call, the frame it was given
    buffer,                     \* the picture in enc->buffer
    tasks, made, ready,         \* the encoder: frames put, packets made and
                                \* not taken yet
    packet,                     \* what the call's MppPacket holds
    handles,                    \* MppFrame and MppPacket not deinitialised yet
    header_sent, packet_capacity,
    len, packet_ptr,            \* the output: a length, what the memory holds
    connected, submitted,       \* the TCP client; history: packets it took
    missed                      \* history: a frame was put and its packet not taken

encoder == <<buffer, tasks, made, ready>>
output  == <<header_sent, packet_capacity, len, packet_ptr>>
tcp     == <<connected, submitted>>
vars    == <<pc, current, encoder, packet, handles, output, tcp, missed>>

NoPacket == [number |-> 0, picture |-> 0, len |-> 0]
NoOutput == [header |-> FALSE, number |-> 0, picture |-> 0]

Init ==
    /\ pc = "idle" /\ current = 0
    /\ buffer = 0 /\ tasks = 0 /\ made = 0 /\ ready = <<>>
    /\ packet = NoPacket /\ handles = {}
    /\ header_sent = FALSE /\ packet_capacity = 0 /\ len = 0 /\ packet_ptr = NoOutput
    /\ connected = TRUE /\ submitted = <<>>
    /\ missed = FALSE

-----------------------------------------------------------------------------
(* The encoder.                                                            *)

\* A packet of length 0 is one MPP_Encode finds invalid.
EncoderRuns(n) ==
    /\ tasks > 0
    /\ tasks' = tasks - 1
    /\ made' = made + 1
    /\ ready' = Append(ready, [number |-> made', picture |-> buffer, len |-> n])
    /\ UNCHANGED <<pc, current, buffer, packet, handles, output, tcp, missed>>

-----------------------------------------------------------------------------
(* MPP_Encode.                                                             *)

\* -1: mpp_thread prints a message and is done with the frame.
MutantIgnoreResult == pc' = "send"
ReturnFailure == pc' = "idle"

EncodeBegin ==
    /\ pc = "idle" /\ current < MaxFrames
    /\ current' = current + 1
    /\ pc' = "fill"
    /\ UNCHANGED <<encoder, packet, handles, output, tcp, missed>>

\* The camera delivered less than its stride calls for.
SourceTooSmall ==
    /\ pc = "fill"
    /\ ReturnFailure
    /\ UNCHANGED <<current, encoder, packet, handles, output, tcp, missed>>

\* The picture is copied row by row into the one input buffer.
MutantFillOnce == buffer' = IF buffer = 0 THEN current ELSE buffer
CopyRows == buffer' = current

Fill ==
    /\ pc = "fill"
    /\ CopyRows
    /\ pc' = "init"
    /\ UNCHANGED <<current, tasks, made, ready, packet, handles, output, tcp, missed>>

FrameInit ==
    /\ pc = "init"
    /\ handles' = handles \cup {"frame"}
    /\ pc' = "put"
    /\ UNCHANGED <<current, encoder, packet, output, tcp, missed>>

FrameInitFails ==
    /\ pc = "init"
    /\ ReturnFailure
    /\ UNCHANGED <<current, encoder, packet, handles, output, tcp, missed>>

FrameDeinit == handles' = handles \ {"frame"}

MutantNotPut == UNCHANGED tasks
PutTask == tasks' = tasks + 1

Put ==
    /\ pc = "put"
    /\ PutTask
    /\ pc' = "get"
    /\ UNCHANGED <<current, buffer, made, ready, packet, handles, output, tcp, missed>>

PutFails ==
    /\ pc = "put"
    /\ FrameDeinit
    /\ ReturnFailure
    /\ UNCHANGED <<current, encoder, packet, output, tcp, missed>>

Get ==
    /\ pc = "get" /\ ready # <<>>
    /\ packet' = Head(ready)
    /\ ready' = Tail(ready)
    /\ handles' = (handles \ {"frame"}) \cup {"packet"}
    /\ pc' = "got"
    /\ UNCHANGED <<current, buffer, tasks, made, output, tcp, missed>>

\* encode_get_packet failed, or succeeded without a packet: the frame just put
\* stays with the encoder.
GetFails ==
    /\ pc = "get"
    /\ FrameDeinit
    /\ missed' = TRUE
    /\ ReturnFailure
    /\ UNCHANGED <<current, encoder, packet, output, tcp>>

PacketDeinit ==
    /\ packet' = NoPacket
    /\ handles' = handles \ {"packet"}

InvalidPacket ==
    /\ pc = "got" /\ packet.len = 0
    /\ PacketDeinit
    /\ ReturnFailure
    /\ UNCHANGED <<current, encoder, output, tcp, missed>>

\* MPP_Ensure_Packet_Capacity: the memory only grows.
Need == IF header_sent THEN packet.len ELSE HeaderLen + packet.len

CapacityFails ==
    /\ pc = "got" /\ packet.len > 0 /\ packet_capacity < Need
    /\ PacketDeinit
    /\ ReturnFailure
    /\ UNCHANGED <<current, encoder, output, tcp, missed>>

Grown == Need + Slack

EnsureCapacity ==
    /\ pc = "got" /\ packet.len > 0
    /\ packet_capacity' = IF packet_capacity >= Need THEN packet_capacity ELSE Grown
    /\ pc' = "copy"
    /\ UNCHANGED <<current, encoder, packet, handles, header_sent, len, packet_ptr,
                   tcp, missed>>

\* The first packet goes behind the header, the others stand alone.  The check
\* of header_sent comes first, so a packet dropped above leaves it unset.
Copy ==
    /\ pc = "copy"
    /\ packet_ptr' = [header |-> ~header_sent, number |-> packet.number,
                      picture |-> packet.picture]
    /\ len' = IF header_sent THEN packet.len ELSE HeaderLen + packet.len
    /\ header_sent' = TRUE
    /\ PacketDeinit
    /\ pc' = "send"
    /\ UNCHANGED <<current, encoder, packet_capacity, tcp, missed>>

-----------------------------------------------------------------------------
(* mpp_thread: TCP_Client_SendH264.                                        *)

Sendable == len > 0     \* enc->packet_ptr is set as soon as a length is

SendH264 ==
    /\ pc = "send" /\ Sendable /\ connected
    /\ submitted' = Append(submitted, [packet |-> packet_ptr, frame |-> current])
    /\ pc' = "idle"
    /\ UNCHANGED <<current, encoder, packet, handles, output, connected, missed>>

MutantStayConnected == UNCHANGED connected
GiveUpConnection == connected' = FALSE

\* Nothing to send, or send failed, or had failed before: the thread goes on
\* encoding.
NotSent ==
    /\ pc = "send"
    /\ IF Sendable THEN GiveUpConnection ELSE UNCHANGED connected
    /\ pc' = "idle"
    /\ UNCHANGED <<current, encoder, packet, handles, output, submitted, missed>>

-----------------------------------------------------------------------------
Lengths == 0 .. MaxLen

EncodeStep == \/ Fill \/ FrameInit \/ Put \/ Get
              \/ InvalidPacket \/ EnsureCapacity \/ Copy
              \/ SendH264 \/ NotSent
Faults == \/ SourceTooSmall \/ FrameInitFails \/ PutFails \/ GetFails \/ CapacityFails

\* The bound on the frames is reached.
Finished == pc = "idle" /\ current = MaxFrames /\ UNCHANGED vars

Next == \/ EncodeBegin \/ EncodeStep \/ Faults
        \/ \E n \in Lengths : EncoderRuns(n)
        \/ Finished

Spec == Init /\ [][Next]_vars

\* The thread runs, and the encoder works through what it was given.
FairSpec == Spec /\ WF_vars(EncodeStep) /\ WF_vars(\E n \in Lengths : EncoderRuns(n))

-----------------------------------------------------------------------------
(* Properties                                                              *)

Numbers == 0 .. MaxFrames
Packets == [number : Numbers, picture : Numbers, len : Lengths]

\* The type of every variable.
TypeOK ==
    /\ pc \in {"idle", "fill", "init", "put", "get", "got", "copy", "send"}
    /\ current \in Numbers /\ buffer \in Numbers /\ tasks \in Numbers /\ made \in Numbers
    /\ ready \in Seq(Packets)
    /\ header_sent \in BOOLEAN /\ connected \in BOOLEAN /\ missed \in BOOLEAN
    /\ packet \in Packets
    /\ handles \subseteq {"frame", "packet"}
    /\ packet_capacity \in 0 .. HeaderLen + MaxLen + Slack
    /\ len \in 0 .. HeaderLen + MaxLen
    /\ packet_ptr \in [header : BOOLEAN, number : Numbers, picture : Numbers]

\* SPS and PPS come first: the first packet the server gets begins with them,
\* and no later one does, whichever frames were dropped before it and although
\* header_sent is set before the packet is sent.
HeaderFirst ==
    \A i \in 1 .. Len(submitted) : submitted[i].packet.header <=> i = 1

\* The encoder's packets are sent in order and once each: after a call that failed
\* what an earlier call left in packet_ptr is not sent again.
NothingSentTwice ==
    \A i, j \in 1 .. Len(submitted) :
        i < j => submitted[i].packet.number < submitted[j].packet.number

\* The stream never goes back to an earlier picture, also when a get failed, its
\* packet comes out for a later frame, and the input buffer was overwritten before it
\* was encoded; and as long as no get failed the packet sent for a frame is that frame's.
PicturesGoForward ==
    \A i \in 1 .. Len(submitted) :
        /\ \A j \in 1 .. i : submitted[j].packet.picture <= submitted[i].packet.picture
        /\ ~missed => submitted[i].packet.picture = submitted[i].frame

\* The MppFrame and the MppPacket of a call are deinitialised when it returns, on
\* every path.
HandlesReturned == pc \in {"idle", "send"} => handles = {}

\* What is copied into packet_ptr fits: also the first packet with its header.
OutputFits == len <= packet_capacity

\* MPP_Encode and the send return, so that mpp_done is set for every frame, also
\* after calls whose packets were left in the encoder.
EncodeReturns == pc # "idle" ~> pc = "idle"
=============================================================================
