---------------------------- MODULE ClientStartup ----------------------------
(***************************************************************************)
(* client_rk3568/main.c up to the threads: Imx415_Init, DRM_LCD_Init,      *)
(* MPP_Init and TCP_Client_Init, each with its ways to fail.               *)
(*                                                                         *)
(* The camera's and the LCD's Init end the process with exit() when a call *)
(* fails.  The encoder's and the connection's undo their own steps and     *)
(* return -1; main then destroys the LCD and returns.  The drivers and the *)
(* encoder library are external: any call may fail, the camera chooses a   *)
(* format near the one asked for and how many buffers it grants.           *)
(***************************************************************************)
EXTENDS Integers, Sequences, FiniteSets

CONSTANTS CAMERA_BUF_COUNT,     \* buffers asked for
          Formats               \* formats S_FMT may settle on

\* Camera_handle has room for CAMERA_BUF_COUNT buffers; no more are granted.  The
\* driver may describe its format as it likes.
ASSUME StartupAssumption ==
    /\ CAMERA_BUF_COUNT \in Nat \ {0}
    /\ Formats \subseteq [width : Nat, height : Nat, bytesperline : Nat]

VARIABLES
    pc,             \* main: on the ladder, running the threads, returning, or
                    \* in exit()
    rung,           \* the step of the ladder main is at
    todo,           \* what DRM_LCD_destroy has still to release
    balance,        \* of each resource: acquired, less released
    screen,         \* what the CRTC shows
    camera,         \* the format in the Camera_handle
    granted,        \* driver: the buffers it grants
    old_crtc,       \* driver: whether drmModeGetCrtc finds one
    refused         \* driver: it refused to show again what it showed before

vars == <<pc, rung, todo, balance, screen, camera, granted, old_crtc, refused>>

Part(part, names)   == part \X names \X {0}
Buffer(name, i)     == <<"camera", name, i>>
Buffers(name)       == {Buffer(name, i) : i \in 1 .. CAMERA_BUF_COUNT}
CameraResources     == Part({"camera"}, {"fd", "streaming"})
                         \cup Buffers("mapped") \cup Buffers("queued")
LcdResources        == Part({"lcd"}, {"fd", "res", "conn", "enc", "old_crtc",
                                      "dumb", "framebuffer", "map"})
EncoderResources    == Part({"encoder"}, {"ctx", "buf_group", "buffer", "header_ptr"})
Temporaries         == Part({"encoder"}, {"cfg", "header_packet"})
TcpResources        == Part({"tcp"}, {"sockfd"})
ShareResources      == Part({"share"}, {"mutex", "cond", "imx415_tid", "lcd_tid", "mpp_tid"})
Resources           == UNION {CameraResources, LcdResources, EncoderResources, Temporaries,
                              TcpResources, ShareResources}

Held(r) == balance[r] > 0

-----------------------------------------------------------------------------
(* The ladder.  A step acquires <<takes>>, and releases <<gives>>; when it *)
(* fails <<undo>> is released and main goes on to <<otherwise>>.           *)

Step(takes, gives, undo, otherwise) ==
    [takes |-> takes, gives |-> gives, undo |-> undo, otherwise |-> otherwise]
OrExit(takes) == Step(takes, {}, {}, "exit")

\* open, VIDIOC_QUERYCAP, S_FMT, REQBUFS; QUERYBUF and mmap for each buffer;
\* QBUF for each buffer; STREAMON.
MutantQueueAllButOne == [i \in 1 .. granted - 1 |-> OrExit({Buffer("queued", i)})]
QueueAll == [i \in 1 .. granted |-> OrExit({Buffer("queued", i)})]

Imx415_Init ==
    <<OrExit(Part({"camera"}, {"fd"})), OrExit({}), OrExit({}), OrExit({})>>
        \o [i \in 1 .. granted |-> OrExit({Buffer("mapped", i)})]
        \o QueueAll
        \o <<OrExit(Part({"camera"}, {"streaming"}))>>

\* open, resources, connector, encoder, the CRTC to restore, dumb buffer,
\* framebuffer, DRM_IOCTL_MODE_MAP_DUMB, mmap, drmModeSetCrtc.
DRM_LCD_Init ==
    LET Lcd(names) == OrExit(Part({"lcd"}, names))
    IN <<Lcd({"fd"}), Lcd({"res"}), Lcd({"conn"}), Lcd({"enc"}),
         Lcd(IF old_crtc THEN {"old_crtc"} ELSE {}),
         Lcd({"dumb"}), Lcd({"framebuffer"}), Lcd({}), Lcd({"map"}), Lcd({})>>
GetsCrtc == Len(Imx415_Init) + 5
SetsCrtc == Len(Imx415_Init) + 10

\* The label ERROR of MPP_Init, and its returns before mpp_create.
MutantError == Part({"encoder"}, {"cfg", "buf_group", "ctx"})
ERROR == Part({"encoder"}, {"cfg", "buffer", "buf_group", "ctx"})

Encoder(names) == Part({"encoder"}, names)
OrError(takes, gives) == Step(Encoder(takes), Encoder(gives), ERROR, "return")

\* The packet for the header, GET_HDR_SYNC, malloc, after which the packet goes; it
\* also goes when one of these fails.
MPP_Get_Header ==
    LET Header(takes, gives) ==
            Step(Encoder(takes), Encoder(gives), ERROR \cup Encoder({"header_packet"}), "return")
    IN <<OrError({"header_packet"}, {}), Header({}, {}), Header({"header_ptr"}, {"header_packet"})>>

\* The sizes; mpp_create; two timeouts; mpp_init; mpp_enc_cfg_init; SET_CFG, whose
\* cfg is released before its result is looked at; buffer group, buffer, pointer.
MPP_Init ==
    <<OrError({}, {}), OrError({"ctx"}, {}), OrError({}, {}), OrError({}, {}), OrError({}, {}),
      OrError({"cfg"}, {}), OrError({}, {"cfg"}),
      OrError({"buf_group"}, {}), OrError({"buffer"}, {}), OrError({}, {})>>
        \o MPP_Get_Header
ChecksSize == SetsCrtc + 1

\* socket, inet_pton, connect.
CloseSocket == TcpResources

TCP_Client_Init ==
    <<Step(TcpResources, {}, {}, "return"), Step({}, {}, CloseSocket, "return"),
      Step({}, {}, CloseSocket, "return")>>

Ladder == Imx415_Init \o DRM_LCD_Init \o MPP_Init \o TCP_Client_Init

\* DRM_LCD_destroy.
DRM_LCD_destroy ==
    <<"screen", "map", "framebuffer", "dumb", "old_crtc", "enc", "conn", "res", "fd">>

Init ==
    /\ pc = "init" /\ rung = 1 /\ todo = <<>>
    /\ balance = [r \in Resources |-> 0]
    /\ screen = "before"
    /\ camera \in Formats /\ granted \in 1 .. CAMERA_BUF_COUNT /\ old_crtc \in BOOLEAN
    /\ refused = FALSE

-----------------------------------------------------------------------------
Change(takes, gives) ==
    balance' = [r \in Resources |->
        balance[r] + (IF r \in takes THEN 1 ELSE 0) - (IF r \in gives THEN 1 ELSE 0)]

\* The tests before mpp_create.
MutantAnyStride == camera.width % 2 = 0 /\ camera.height % 2 = 0
GoodSize == /\ camera.width > 0 /\ camera.height > 0
            /\ camera.bytesperline >= camera.width
            /\ camera.width % 2 = 0 /\ camera.height % 2 = 0

Succeeds ==
    LET step == Ladder[rung] IN
    /\ pc = "init" /\ rung <= Len(Ladder)
    /\ rung = ChecksSize => GoodSize
    /\ Change(step.takes, step.gives)
    /\ rung' = rung + 1
    /\ screen' = IF rung = SetsCrtc THEN "camera" ELSE screen
    /\ UNCHANGED <<pc, todo, camera, granted, old_crtc, refused>>

\* Any step may fail, but not drmModeGetCrtc, whose NULL is none, nor the tests of
\* a good size.  What is released is what is not NULL.
Fails ==
    LET step == Ladder[rung] IN
    /\ pc = "init" /\ rung <= Len(Ladder)
    /\ rung # GetsCrtc
    /\ rung = ChecksSize => ~GoodSize
    /\ Change({}, {r \in step.undo : Held(r)})
    /\ pc' = step.otherwise
    /\ todo' = IF step.otherwise = "return" THEN DRM_LCD_destroy ELSE <<>>
    /\ UNCHANGED <<rung, screen, camera, granted, old_crtc, refused>>

\* Mutex, condition and the three threads, whose creation main does not check.
StartThreads ==
    /\ pc = "init" /\ rung > Len(Ladder)
    /\ Change(ShareResources, {})
    /\ pc' = "run"
    /\ UNCHANGED <<rung, todo, screen, camera, granted, old_crtc, refused>>

\* DRM_LCD_destroy restores the CRTC if it found one, and does not look whether that
\* worked.  Removing a framebuffer that is still shown turns the CRTC off.
RestoreScreen ==
    /\ pc = "return" /\ todo # <<>> /\ Head(todo) = "screen"
    /\ refused' \in IF Held(<<"lcd", "old_crtc", 0>>) THEN BOOLEAN ELSE {FALSE}
    /\ screen' = IF Held(<<"lcd", "old_crtc", 0>>) /\ ~refused' THEN "before" ELSE screen
    /\ todo' = Tail(todo)
    /\ UNCHANGED <<pc, rung, balance, camera, granted, old_crtc>>

FreedBy(name) == {r \in Part({"lcd"}, {name}) : name = "old_crtc" => Held(r)}

ReleaseLcd(name) ==
    /\ pc = "return" /\ todo # <<>> /\ Head(todo) = name
    /\ Change({}, FreedBy(name))
    /\ screen' = IF name = "framebuffer" /\ screen = "camera" THEN "off" ELSE screen
    /\ todo' = Tail(todo)
    /\ UNCHANGED <<pc, rung, camera, granted, old_crtc, refused>>

Next ==
    \/ Succeeds \/ Fails \/ StartThreads \/ RestoreScreen
    \/ \E r \in LcdResources : ReleaseLcd(r[2])

Spec == Init /\ [][Next]_vars

-----------------------------------------------------------------------------
(* Properties.                                                             *)

\* main's return, when the encoder or the connection could not be set up.
Returned == pc = "return" /\ todo = <<>>

\* Nothing is released that is not held, and when main returns the LCD and what
\* the failing Init had acquired are released, at whichever of its steps it failed,
\* and the screen shows again what it showed before, unless the driver refused that.
\* What stays for the kernel is the camera, and the encoder as a whole if only the
\* connection failed.
FailureIsUndone ==
    /\ \A r \in Resources : balance[r] \in {0, 1}
    /\ Returned /\ old_crtc /\ ~refused => screen = "before"
    /\ Returned => /\ \A r \in LcdResources \cup TcpResources \cup Temporaries : ~Held(r)
                /\ \/ \A r \in EncoderResources : ~Held(r)
                   \/ \A r \in EncoderResources : Held(r)

\* When the threads start, the driver streams into buffers that are all mapped and
\* all queued, and the encoder was made for the size the camera settled on: the
\* state FrameExchange and MppEncoder begin in.
ReadyToRun ==
    pc = "run" =>
        /\ \A i \in 1 .. granted : Held(Buffer("mapped", i)) /\ Held(Buffer("queued", i))
        /\ \A r \in Part({"camera"}, {"fd", "streaming"}) : Held(r)
        /\ \A r \in EncoderResources \cup TcpResources : Held(r)
        /\ camera.bytesperline >= camera.width
        /\ \A r \in Temporaries : ~Held(r)
=============================================================================
