---------------------------- MODULE ServerStartup ----------------------------
(***************************************************************************)
(* server_pc/main.c: what main acquires before the stream runs, and what   *)
(* it gives back on each of the ways out.                                  *)
(*                                                                         *)
(* main climbs a ladder of calls that may each fail: the steps of every    *)
(* Init function, accept, and the creation of the two threads.  A failing  *)
(* step is undone by its own Init function; main then makes the calls      *)
(* written out for that place, <<rung.otherwise>>.                         *)
(*                                                                         *)
(* What the threads do meanwhile is ServerPipeline's subject.  Here they   *)
(* use the parts they share with main until they end.  A thread that was   *)
(* created and not joined is a resource like any other.                    *)
(***************************************************************************)
EXTENDS Integers, Sequences

VARIABLES
    phase,         \* main: climbing the ladder, in its loop, or on its way out
    rung,          \* the step of the ladder main is at
    todo,          \* the calls main has still to make on its way out
    balance,       \* how often each resource was acquired, less how often released
    running,       \* threads that have not ended
    stopped        \* the queues that were told to stop

startupVars == <<phase, rung, todo, balance, running, stopped>>

Part(part, names) == {part} \X names

Resources ==
    UNION {Part("server", {"listen_fd", "client_fd", "recv_buffer"}),
           Part("packet_queue", {"slots", "mutex", "not_empty", "not_full"}),
           Part("frame_queue", {"slots", "mutex", "not_empty", "not_full"}),
           Part("decoder", {"parser", "codec_ctx", "packet", "frame"}),
           Part("display", {"sdl", "window", "renderer"}),
           Part("thread", {"tcp", "decoder"})}

Held(r) == balance[r] > 0
Of(part) == {r \in Resources : r[1] = part}
Threads == {"tcp", "decoder"}

-----------------------------------------------------------------------------
(* The ladder: what a step acquires, what is released when it fails.       *)

Step(part, takes, undo) == [takes |-> Part(part, takes), undo |-> Part(part, undo)]

\* socket, bind, listen.
TCP_Server_Init ==
    <<Step("server", {"listen_fd"}, {}),
      Step("server", {}, {"listen_fd"}),
      Step("server", {}, {"listen_fd"})>>

\* H264PacketQueue_Init and AVFrameQueue_Init: calloc, pthread_mutex_init and
\* pthread_cond_init twice.
MutantForgetSlots(q) ==
    <<Step(q, {"slots"}, {}),
      Step(q, {"mutex"}, {"slots"}),
      Step(q, {"not_empty"}, {"slots", "mutex"}),
      Step(q, {"not_full"}, {"mutex", "not_empty"})>>
Queue_Init(q) ==
    <<Step(q, {"slots"}, {}),
      Step(q, {"mutex"}, {"slots"}),
      Step(q, {"not_empty"}, {"slots", "mutex"}),
      Step(q, {"not_full"}, {"slots", "mutex", "not_empty"})>>

\* Every failure but the first is undone by H264_Decoder_Destroy, which frees
\* what is not NULL; avcodec_open2 acquires nothing of its own.
H264_Decoder_Init ==
    <<Step("decoder", {}, {}),
      Step("decoder", {"parser"}, {}),
      Step("decoder", {"codec_ctx"}, {"parser"}),
      Step("decoder", {}, {"parser", "codec_ctx"}),
      Step("decoder", {"packet"}, {"parser", "codec_ctx"}),
      Step("decoder", {"frame"}, {"parser", "codec_ctx", "packet"})>>

TCP_Server_Accept == <<Step("server", {"client_fd"}, {})>>

SDL_Display_Init ==
    <<Step("display", {"sdl"}, {}),
      Step("display", {"window"}, {"sdl"}),
      Step("display", {"renderer"}, {"sdl", "window"})>>

CreateThread(t) == <<Step("thread", {t}, {})>>

-----------------------------------------------------------------------------
(* What main calls on its way out.                                         *)

StopOf(q)       == <<"stop", q>>            \* H264PacketQueue_Stop, AVFrameQueue_Stop
CloseOf(socket) == <<"close", socket>>      \* TCP_Server_CloseClient
JoinOf(t)       == <<"join", t>>            \* pthread_join
DestroyOf(part) == <<"destroy", part>>

Destroys == <<DestroyOf("display"), DestroyOf("decoder"), DestroyOf("frame_queue"),
              DestroyOf("packet_queue"), DestroyOf("server")>>
From(k)  == SubSeq(Destroys, k, 5)

MutantStopPipeline == <<StopOf("frames"), StopOf("packets")>>
StopPipeline == <<StopOf("frames"), StopOf("packets"), CloseOf("client_fd")>>

MutantDecoderThreadFails == StopPipeline \o Destroys \o <<JoinOf("tcp")>>
DecoderThreadFails == StopPipeline \o <<JoinOf("tcp")>> \o Destroys

Finish == <<StopOf("packets"), StopOf("frames"), JoinOf("tcp"), JoinOf("decoder")>> \o Destroys

Attempt(steps, calls) == [i \in DOMAIN steps |-> [step |-> steps[i], otherwise |-> calls]]

Ladder ==
    Attempt(TCP_Server_Init, <<>>)
        \o Attempt(Queue_Init("packet_queue"), From(5))
        \o Attempt(Queue_Init("frame_queue"), From(4))
        \o Attempt(H264_Decoder_Init, From(3))
        \o Attempt(TCP_Server_Accept, From(2))
        \o Attempt(SDL_Display_Init, From(2))
        \o Attempt(CreateThread("tcp"), From(1))
        \o Attempt(CreateThread("decoder"), DecoderThreadFails)

StartupInit ==
    /\ phase = "init" /\ rung = 1 /\ todo = <<>>
    /\ balance = [r \in Resources |-> 0]
    /\ running = {} /\ stopped = {}

-----------------------------------------------------------------------------
Acquire(set) == balance' = [r \in Resources |-> balance[r] + (IF r \in set THEN 1 ELSE 0)]
Release(set) == balance' = [r \in Resources |-> balance[r] - (IF r \in set THEN 1 ELSE 0)]

Succeeds ==
    /\ phase = "init"
    /\ Acquire(Ladder[rung].step.takes)
    /\ running' = running \cup {t \in Threads : <<"thread", t>> \in Ladder[rung].step.takes}
    /\ IF rung < Len(Ladder)
       THEN rung' = rung + 1 /\ UNCHANGED phase
       ELSE phase' = "loop" /\ UNCHANGED rung
    /\ UNCHANGED <<todo, stopped>>

Fails ==
    /\ phase = "init"
    /\ Release(Ladder[rung].step.undo)
    /\ phase' = "out" /\ todo' = Ladder[rung].otherwise
    /\ UNCHANGED <<rung, running, stopped>>

\* The window is closed, TryPop or RenderFrame fails: stop_pipeline comes first.
LeavesLoop ==
    /\ phase = "loop"
    /\ phase' = "out" /\ todo' = StopPipeline \o Finish
    /\ UNCHANGED <<rung, balance, running, stopped>>

\* The frame queue ended: the decoder thread stopped it and it is empty.
StreamEnds ==
    /\ phase = "loop" /\ "frames" \in stopped
    /\ phase' = "out" /\ todo' = Finish
    /\ UNCHANGED <<rung, balance, running, stopped>>

\* main's next call on the way out.
Call(call) == /\ phase = "out" /\ todo # <<>> /\ Head(todo) = call
              /\ todo' = Tail(todo)
              /\ UNCHANGED <<phase, rung, running>>

StopQueue(q) ==
    /\ Call(StopOf(q))
    /\ stopped' = stopped \cup {q}
    /\ UNCHANGED balance

CloseClient ==
    /\ Call(CloseOf("client_fd"))
    /\ Release({r \in {<<"server", "client_fd">>} : Held(r)})
    /\ UNCHANGED stopped

Join(t) ==
    /\ Call(JoinOf(t)) /\ t \notin running
    /\ Release({<<"thread", t>>})
    /\ UNCHANGED stopped

\* What is checked for NULL, INVALID_SOCKET_FD or "initialized" is released if it
\* is there; H264PacketQueue_Destroy destroys its mutex and conditions unasked.
Releases(part) ==
    {r \in Of(part) : Held(r)} \cup
        Part("packet_queue", IF part = "packet_queue" THEN {"mutex", "not_empty", "not_full"} ELSE {})

Destroy(part) ==
    /\ Call(DestroyOf(part))
    /\ Release(Releases(part))
    /\ UNCHANGED stopped

-----------------------------------------------------------------------------
(* The threads.                                                            *)

\* The first packet makes TCP_Server_RecvH264 allocate its buffer.
Receive ==
    /\ "tcp" \in running /\ ~Held(<<"server", "recv_buffer">>)
    /\ Acquire({<<"server", "recv_buffer">>})
    /\ UNCHANGED <<phase, rung, todo, running, stopped>>

\* The connection ends or is closed under the thread, or a packet is refused.
TcpEnds ==
    /\ "tcp" \in running
    /\ running' = running \ {"tcp"}
    /\ stopped' = stopped \cup {"packets"}
    /\ UNCHANGED <<phase, rung, todo, balance>>

\* The packet queue was stopped and is empty.
DecoderEnds ==
    /\ "decoder" \in running /\ "packets" \in stopped
    /\ running' = running \ {"decoder"}
    /\ stopped' = stopped \cup {"frames"}
    /\ UNCHANGED <<phase, rung, todo, balance>>

MainMoves ==
    \/ Succeeds \/ Fails \/ LeavesLoop \/ StreamEnds
    \/ \E q \in {"frames", "packets"} : StopQueue(q)
    \/ CloseClient
    \/ \E t \in Threads : Join(t)
    \/ \E part \in {"display", "decoder", "frame_queue", "packet_queue", "server"} : Destroy(part)

StartupNext == MainMoves \/ Receive \/ TcpEnds \/ DecoderEnds

StartupSpec == StartupInit /\ [][StartupNext]_startupVars

\* Out of its loop main goes on; recv returns once its socket is shut down, and
\* the decoder's Pop once its queue is stopped.  Nothing else ends recv.
StartupFairSpec ==
    /\ StartupSpec
    /\ WF_startupVars(phase = "out" /\ MainMoves)
    /\ WF_startupVars(~Held(<<"server", "client_fd">>) /\ TcpEnds)
    /\ WF_startupVars(DecoderEnds)

-----------------------------------------------------------------------------
(* Properties.                                                             *)

Returned == phase = "out" /\ todo = <<>>

\* Whichever step fails, and however the loop ends, no resource is released that is
\* not held (by the Init function that undoes itself, by main's own list for that
\* failure, or by both of them together), and main returns with every resource
\* given back and every thread it created joined.
NothingLeft == /\ \A r \in Resources : balance[r] \in {0, 1}
               /\ Returned => \A r \in Resources : balance[r] = 0

\* What a running thread, or main in its loop, works with.  The client's socket
\* is not among it: main closes that under the receive thread on purpose.
InUse ==
    UNION {IF "tcp" \in running
             THEN Of("packet_queue") \cup {<<"server", "listen_fd">>} ELSE {},
           IF "decoder" \in running
             THEN Of("packet_queue") \cup Of("frame_queue") \cup Of("decoder") ELSE {},
           IF phase = "loop" THEN Of("display") \cup Of("frame_queue") ELSE {}}

\* Nothing is destroyed under a thread that still uses it, also when the second
\* thread cannot be created and the first is already receiving.
NotUnderAThread == \A r \in InUse : Held(r)

\* Once main is on its way out it returns: every thread it joins was told to end
\* by something it waits for.
MainReturns == phase = "out" ~> Returned
=============================================================================
