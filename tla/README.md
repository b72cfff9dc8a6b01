# Formal model of the RK3568 smart vision terminal

The repository holds two programs. `client_rk3568` runs on the camera board: it
captures frames from an IMX415 camera, shows them on an LCD, encodes them to
H.264 and sends them over TCP. `server_pc` receives the packets, decodes them
with FFmpeg and shows the frames in an SDL window. This directory specifies both
in TLA+, from the first call of `main` to its return, checks small instances with
TLC and proves their safety for every instance with TLAPS.

    sensor -> V4L2 buffers -> imx415_thread -> ThreadShare -> lcd_thread -> LCD
                                                   \-> mpp_thread -> TCP_Client
                                                                        |
                                                                   byte stream
                                                                        |
    window <- main <- AVFrameQueue <- decoder thread <- H264PacketQueue <- TCP thread

## Inventory

| Component (source) | State | Operations | Interacts through | What makes it correct |
|---|---|---|---|---|
| Frame exchange (`client_rk3568/main.c`) | `ThreadShare`: `data`, `frame_ready`, `lcd_done`, `mpp_done`; one mutex, one condition variable | publish, wait, take, finish, withdraw | memory shared by three threads; V4L2 buffers | each worker sees each frame once; a buffer in use is never given back; nobody sleeps for ever; the threads end together |
| Camera (`imx415.c`) | four mmap'ed V4L2 buffers | `Camera_Init`, DQBUF, QBUF | ioctl | no buffer is lost; set-up fails as a whole |
| LCD (`DRM_lcd.c`) | DRM dumb buffer: size of the mode, driver's pitch | `DRM_LCD_Init`, `NV12_To_RGB`, destroy | ioctl, mapped memory | every pixel of the picture shows its own samples; nothing is read or written outside the two buffers |
| Encoder (`mpp.c`) | MPP context, header, output buffer, `header_sent` | `MPP_Init`, `MPP_Encode`, `MPP_Free` | MPP library | header precedes the first packet; output fits its buffer; frames and packets are given back |
| TCP sender (`tcp_client.c`) | `sockfd`, `connected`, `sequence` | `Init`, `SendPacket`, `SendH264`, `Close` | TCP | after a partial send nothing else is sent; sequence counts packets sent |
| TCP receiver (`tcp_server.c`) | `listen_fd`, `client_fd`, `recv_buffer`, `last_sequence` | `Init`, `Accept`, `RecvH264`, `CloseClient`, `Destroy` | TCP; `client_fd` is closed by main under the receive thread | packets come out whole, in order, once |
| Packet queue (`h264_packet_queue.c`) | ring of packets, `stop`, mutex, `not_empty`, `not_full` | `Init`, `Push`, `Pop`, `Free`, `Stop`, `Destroy` | TCP thread, decoder thread, main | FIFO, lossless, bounded; Stop wakes everyone; no leak, no double free |
| Frame queue (`avframe_queue.c`) | the same for reference-counted `AVFrame`s | `Push` (clones), `Pop`, `TryPop`, `Stop`, `Destroy` | decoder thread, main | as above; a queued picture is never overwritten |
| Decoder (`h264_decoder.c`) | codec context, parser, packet, frame, `frame_count` | `Init`, `Decode`, `Flush`, `Destroy` | FFmpeg; calls back into the frame queue | every frame delivered, the delayed ones at the flush |
| Display (`SDL_display.c`) | window, renderer, cached texture | `Init`, `PollQuit`, `RenderFrame`, `Destroy` | SDL | texture fits the frame |
| Server main (`server_pc/main.c`) | `ServerThreadShare`, two threads | start, render loop, `stop_pipeline`, join, destroy | all of the above | every way out ends the process; the normal way shows everything received; whatever was acquired is released once, after its users |
| Client main (`client_rk3568/main.c`) | the handles, `ThreadShare` | start, create threads, join, clean up | all of the client's parts | a failing start is undone; the threads begin in a usable state |

What is hard here: three client threads over one condition variable; buffers used
outside the mutex that guards the pointer to them; two bounded queues in a row
with a blocking producer; shutdown started by any of three threads, each possibly
blocked in `recv`, `pthread_cond_wait` or nothing; a socket closed under a thread
that uses it; a byte stream cut up at will that may break in the middle of a
packet; pictures shared by reference with a decoder that goes on decoding; retry loops
around a codec that refuses and delays; an output buffer and a cached texture kept
from call to call; and two long ladders of initialisations. The
list in `PROJECT.json` ("hazards") places each at its line.

## Modules

| Module | Models | Granularity |
|---|---|---|
| `StopChannel` | abstract: a bounded FIFO channel that can be closed and then drained or discarded | one operation |
| `PacketQueue` | `h264_packet_queue.c` and its threads | lock, wait, signal and every critical section are separate steps |
| `FrameQueue` | `avframe_queue.c` (Push, TryPop, Pop, Stop, Destroy) and picture references | a critical section is a step |
| `FrameHandoff` | abstract: a buffer is offered to all workers and withdrawn when each processed it | one operation |
| `FrameExchange` | `client_rk3568/main.c`, the three threads, the V4L2 buffers and main's joins | a critical section is a step, use of the buffer another |
| `H264Link` | `TCP_Client_SendH264`, `TCP_Client_Close`, `TCP_Server_RecvH264` and the connection | one `send`/`recv` call |
| `MppEncoder` | `MPP_Encode` and its use by `mpp_thread`: input buffer, packets, output buffer, header | one MPP call |
| `Nv12` | the two readers of a camera buffer: `NV12_To_RGB` and the row copy of `MPP_Encode`; run by `ClientFirstFrame` | a pixel, a row; the LCD's mapping byte by byte |
| `Decoder` | `H264_Decoder_Decode` and `H264_Decoder_Flush` against the parser and codec | one FFmpeg call |
| `Display` | `SDL_display.c`: objects, cached texture, destination rectangle | one SDL call |
| `ServerPipeline` | `server_pc/main.c` and the two threads, with both queues, the decoder and the socket | one call |
| `ServerStartup` | every `Init` and `Destroy` of the server, `main`'s unwinding after each failure, its ways out | one step that can fail |
| `ClientStartup` | `Imx415_Init`, `DRM_LCD_Init`, `MPP_Init`, `TCP_Client_Init` and what `main` undoes | one step that can fail |
| `ClientFirstFrame` | `ClientStartup` followed by the two readers of the first frame, in the format the start settled on | as in the two |
| `PacketQueue_proofs`, `FrameQueue_proofs`, `FrameExchange_proofs`, `H264Link_proofs`, `MppEncoder_proofs`, `Decoder_proofs`, `ClientFirstFrame_proofs` | theorems about the module each extends | |
| `ServerPipeline_proofs` | theorems about the server's main program: `ServerPipeline`, `Display` (the other half of its loop) and `ServerStartup` (what surrounds it). So that the three can be extended together, the specifications of the last two are called `DisplaySpec` and `StartupSpec` | |
| `MC*` | instances for TLC | |

How state corresponds to code. Variables carry the names of the C fields
(`front`, `rear`, `count`, `stop`, `frame_ready`, `connected`, `sequence`,
`recv_buffer`, ...). A thread's program counter (`pc`, `tcpPc`, `decPc`,
`mainPc`, `sendPc`, `recvPc`) names the call or critical section it is about to
run. A pthread condition variable is the set of threads asleep on it; signal
removes one, chosen arbitrarily, broadcast all. `pthread_cond_wait` is one step
that releases the mutex and falls asleep, then the lock step again, then the loop
condition again. Heap blocks are numbers and a local pointer is the number it
points to. `lcd_done` and `mpp_done` are `done[w]` for two symmetric workers.

The two start-up modules read differently: the program is a constant sequence, the
*ladder*, one record per step that can fail, saying what the step acquires, what its own
`Init` function releases when it fails, and what `main` does then. `balance` counts
acquisitions less releases of each resource, so a leak, a double release and a release
of something never acquired are all values other than the right one. The calls on the
server's ways out are pairs, `<<"destroy", "decoder">>`, in the order `main` makes them. `Nv12` represents
a byte by what it is a sample of, so that where a sample came from can be compared. Its
`lcd_map` has one entry for each byte of the mapping, a pixel four, at the address the code
computes from `dumbbuffer.pitch`; a write past the end adds entries that the mapping does not
have. The LCD's size and pitch are chosen apart from the camera's format, as nothing in the code compares them.

### Composition

    ClientStartup --(ReadyToRun)--> FrameExchange --> MppEncoder --> H264Link
          \--(ClientFirstFrame)--> Nv12                                |
                                                                       |
    ServerStartup --(around)--> ServerPipeline <-- packets, in order --/
                                 |-- PacketQueue, FrameQueue  (as StopChannel)
                                 |-- Decoder, Display         (as single steps)

Each module states what it takes from another, and that one checks it:

- `ServerPipeline` uses the two queues as channels with exactly the actions of
  `StopChannel` (Push when open and not full, Pop until closed and empty), which
  `PacketQueue` and `FrameQueue` are shown to implement.
- `H264Link` promises `ServerPipeline` that whole packets arrive in order (there `wire` is
  a sequence of packets), and relies on it only for this: once the receive thread is
  through, the server process ends and its socket with it. It refines `StopChannel`, too.
- `MppEncoder` relies on `H264Link` for a packet being sent whole or the connection being
  given up for good; that is why `header_sent`, set before the send, does no harm.
- `Decoder` shows what `ServerPipeline` takes for granted: frames come out in order and
  once, all of them by the end of the flush, and both calls return. In `ServerPipeline`
  `Delay` stands for the codec's delay and the parser's lag of one unit together; a call
  that fails loses any part of what it had in hand (`Remains`), and `RecvH264` may run out
  of memory there as well. `Decoder` in turn assumes
  that its callback returns, which is `CallsReturn` of `FrameQueue`.
- `FrameExchange` and `MppEncoder` begin with all buffers queued, the stream on and a
  picture size the encoder accepts: `ReadyToRun` of `ClientStartup`. `Nv12` needs more of
  the format than that, so `ClientFirstFrame` puts the two together: whatever the driver
  answers to `VIDIOC_S_FMT` either ends the start or is a format in which both readers read
  inside the image. That the picture is no larger than the LCD is checked nowhere, so what
  is promised of the LCD's memory has that as a premise (`FitsMode`).
- `ServerStartup` surrounds `ServerPipeline`: the one has every way in and out and lets the
  threads end at some time, the other shows when and why they end.

External code, modelled from its use: the FFmpeg parser keeps a unit until it sees the
next one and may stall, which the code guards against; the codec holds back up to `Delay` units, refuses a packet only while it has a
frame to give, and decodes into any picture nobody refers to; the MPP encoder works
beside the thread and encodes the one input buffer as it finds it; TCP delivers a prefix
of the bytes sent, in order, in arbitrary pieces; the V4L2 driver fills buffers it owns
in any order, chooses the format and how many buffers it grants; SDL and DRM create what
they are asked for or fail; DRM also chooses the pitch, at least four bytes a pixel, and may refuse to
restore the screen, which the code does not look at.

## Runs

| Run | Question | Result |
|---|---|---|
| `packet_queue` | With several threads on each side, is the packet queue a closable FIFO that leaks nothing, wakes whom it must with one signal per operation, and always terminates? | holds |
| `frame_queue` | Are pictures intact while referred to, references exact, and does the decoder never hang in Push? | holds |
| `frame_exchange` | Does each worker get each frame exactly once, and every buffer return to the driver? | holds |
| `frame_exchange_exit` | Does the client clean up after a camera error? | violated: finding 1 |
| `h264_link` | Do packets survive a stream that is cut up and breaks? | holds |
| `server_pipeline` | Is nothing reordered or lost between recv and the screen? | holds |
| `server_pipeline_ends` | Does the process end, and the stream move, whatever is full or blocked? | holds |
| `decoder` | Do the parser and retry loops deliver every frame once, and return? | holds |
| `mpp_encoder` | Does the stream begin with its header and hold each packet once, and its pictures never go back, whatever fails? | holds |
| `display` | Does the texture follow the stream, and the picture stay in the window in its ratio? | holds |
| `server_startup` | Is everything released once, after its users, whichever step fails? | holds |
| `client_first_frame` | Is a failing start undone and the screen restored, and after a good one, do both readers of the first frame stay in their buffers, find its samples and put them where they belong? | holds |

### Bounds, and why they are enough

- `packet_queue`: two slots and four packets make the indices wrap twice and make full,
  empty and half-full rings meet every position of `front`; two producers and two
  consumers are the least for which a signal can reach the wrong thread (the server runs
  one of each, which is among the behaviours: a thread may stay idle); one spurious wakeup
  shows that the loops re-check. There is no symmetry, so that the liveness property is sound.
- `frame_queue`: five pictures are one more than can be referred to at once with
  two slots (two queued, one in the decoder and its clone, one on screen), so the
  decoder is never held up by the bound; four frames wrap the ring.
- `frame_exchange`: the two workers of the code; three buffers allow one in use, one
  filled and one being filled (the code asks for four, the fourth adds nothing:
  buffers are interchangeable). There is no bound on the number of frames.
- `h264_link`: headers of two bytes and payloads of one to three can be split at
  every kind of place (inside a header, between header and payload, inside a
  payload, across packets); a window of four lets the end of one packet and the
  beginning of the next be in the kernel together; sequence numbers modulo two
  wrap twice in four packets; a payload of four is the one too large to send.
- `server_pipeline`: a packet queue of two, so that its order matters, and a frame
  queue of one: five packets fill both and both threads' hands, so each thread can
  be blocked in Push while the other moves, is stopped or gives up. `Delay = 1` gives
  the flush something to do. `server_pipeline_ends` has queues of one, four packets
  (again enough to block both threads) and `Delay = 0`, to keep the behaviour graph
  small; the flush is then empty.

- `decoder`: units of two pieces and inputs of up to three let an input begin and end
  anywhere, hold a whole unit and the start of the next, and hold nothing but the middle
  of one; `Delay = 1` and `Backlog = 1` make the codec hold frames back and refuse; five
  units are more than parser, delay and backlog hold together.
- `mpp_encoder`: packets of one to three bytes, and of none (the invalid one), so that the
  output memory is too small, just enough and more than enough for the next packet, with
  and without the header; four frames, so that two can stay behind in the encoder while
  two go through.
- `display`: frames of 1 to 3 by 1 to 3 and windows of 0 to 4 by 0 to 4 contain every
  relation of the two ratios, exact and inexact quotients, and the minimised window; two
  formats share a texture format, one does not, one is not supported.
- `server_startup` has no bound: the ladder is the program's.
- `client_first_frame` asks for the four buffers the code asks for and lets the driver grant
  any number of them, in formats with and without padding, an odd width or height, and rows
  shorter than the picture, so that each test before `mpp_create` passes and fails. Widths
  and heights of two and four give two 2 x 2 blocks in either direction, enough for an
  index that confuses rows and columns, or luma and chroma, to show. The LCD is as large as
  the largest picture, with and without padding, narrower, so that the end of a row runs into the
  next one, or lower, so that the last rows are past the mapping; each of them also meets
  pictures smaller than itself.

### Fairness

Every thread that can take a step takes one (weak fairness of its steps): POSIX
threads and `while` loops that sleep at most a millisecond justify no less and
nothing more is assumed. In particular nothing makes the client send or leave, the
user close the window, an ioctl, a `malloc` or a decode succeed or fail.
`FrameExchange` also assumes that the sensor goes on delivering frames, `H264Link`
that a `send` on a reset connection fails sooner or later. `PacketQueue` assumes
that a producer stops once the queue is stopped: its only other place to block is
`recv`, which `stop_pipeline` ends by closing the socket (this is what
`AbortExits` shows in `ServerPipeline`). `Decoder` assumes that FFmpeg's functions and the
callback return, `MppEncoder` that the encoder works through what was put into it (the get
blocks, `MPP_POLL_BLOCK`). `ServerStartup` lets `recv` return only once `client_fd` is
closed and the decoder's Pop only once the packet queue is stopped, so that `MainReturns` rests on
what `main` does on its way out. Spurious wakeups happen but are never owed. No mutex is assumed to be strongly fair.

### Deadlock

`PacketQueue`, `FrameQueue`, `ServerPipeline`, `Decoder`, `MppEncoder` and `Display` are
checked for deadlock; their end is an explicit `Finished` step. `FrameExchange` may stop
(finding 1), `H264Link` ends with its connection, `ServerStartup` with main's return and
`ClientFirstFrame` in `exit`, in main's return or when the first picture is drawn and copied, so
these runs turn the check off.

## Findings

1. *The client never cleans up after a camera error* (`frame_exchange_exit`).
   `imx415_thread` leaves its loop when DQBUF or QBUF fails (`client_rk3568/main.c:416`,
   `:526`); the workers' loops have no exit and wait for the next frame for ever; `main`
   joins all three before it releases anything (`main.c:316`, `:338`). The
   counterexample is short: DQBUF fails, main joins the camera thread, the workers go to sleep.

Three things met while modelling that no run checks:

- *Quitting counts as a TCP error.* `tcp_error` is commented as "TCP / protocol error"
  (`server_pc/main.c:271`) and printed as such. If the window is closed while the receive
  thread is between two packets, `RecvH264` finds `client_fd` already closed and returns -1
  (`tcp_server.c:678`), and a clean quit is reported as an error.
- *The LCD ignores the camera's stride.* `NV12_To_RGB` is given width and height and takes
  the width for the length of a row (`DRM_lcd.c:113`, `:119`); main keeps `bytesperline`
  because it is what each row really occupies (`client_rk3568/main.c:155`), and `MPP_Encode`
  copies by it. With padded rows the encoder still gets the picture, the LCD shows it
  sheared and with the wrong chroma; this is why `PictureArrives` promises the LCD
  its samples only for unpadded rows, the usual case of an IMX415 at the configured width.
- *The LCD's size is not compared with the camera's.* The mapping has the size of the
  connector's first mode (`DRM_lcd.c:44-47`, `:69`), the picture the size the driver grants of
  the 1080 x 1920 asked for (`imx415.c:90-91`), and `NV12_To_RGB` writes line `y` at
  `y * lcd_pitch` for every line of the picture (`DRM_lcd.c:116`, `:141`; called at
  `client_rk3568/main.c:615`). A picture with more lines than the mode is written past the
  mapping; in one with lines longer than the pitch each line's end is overwritten by the next.
  A portrait panel of that size has neither problem, but nothing in the repository names the
  panel, so `StaysInBuffers` and `PictureArrives` say what holds and under which condition.

## Proofs

Every invariant a run checks is also proved, and so is every refinement. Each `_proofs`
module states an inductive invariant, proves that it holds initially and that every action
keeps it, and derives the theorems, for every value of the constants that the modules'
`ASSUME`s allow: any number of threads and any capacity in `PacketQueue`, any capacity,
pictures and frames in `FrameQueue`, any set of workers and buffers in `FrameExchange`,
headers, payloads, windows and sequence numbers of any size in `H264Link`, any header and
packet lengths in `MppEncoder`, units and inputs of any length and any delay in `Decoder`,
any sizes of frames and windows in `Display`, queues of any capacity and any delay in
`ServerPipeline`, any number of camera buffers, any set of formats and any LCD in `ClientFirstFrame`
(a format is three natural numbers; nothing relates them but the tests `MPP_Init` makes, and
nothing relates them to the LCD's width, height and pitch).
`ServerStartup` has no constants.

| Module | Also checked by its run | Proved only |
|---|---|---|
| `PacketQueue` | `OwnInv`, `NoLostWakeup`, `RefinesChannel` | `TypeOK`, `MutexInv`, `RingInv` |
| `FrameQueue` | `RefsExact`, `FrameIntact`, `RefinesChannel` | `TypeOK` |
| `FrameExchange` | `BufferExclusive`, `NoLostWakeup`, `RefinesHandoff` | `TypeOK`, `OneBufferOut`, `OncePerFrame` |
| `H264Link` | `InStep`, `DeliveredIntact`, `RefinesChannel` | `TypeOK` |
| `MppEncoder` | `HeaderFirst`, `NothingSentTwice`, `PicturesGoForward` | `TypeOK`, `HandlesReturned`, `OutputFits` |
| `Decoder` | `InOrder`, `AllDelivered` | `TypeOK`, `NothingKept` |
| `Display` | `TextureFits`, `ObjectsNested`, `Letterboxed` | `DisplayTypeOK` |
| `ServerPipeline` | `InOrder`, `NothingLost`, `DrainedAtExit` | `TypeOK` |
| `ServerStartup` | `NothingLeft`, `NotUnderAThread` | |
| `ClientFirstFrame` | `FailureIsUndone`, `ReadyToRun`, `StaysInBuffers`, `PictureArrives` | that it implements `ClientStartup` |

What is proved is not checked again by a run when a run would only repeat it.

*PacketQueue.* The inductive invariant `IInv` joins `TypeOK`, `MutexInv`, `RingInv` and
`OwnInv` with `RoleInv` (which thread may be at which label, and that main joins only
after Stop) and `HoldInv` (at which labels a thread's local variable holds a packet).
`MutexInv` is needed because two threads inside Push would store into the same slot;
`RingInv` because Push overwrites the slot at `rear` without looking at it, and
`OwnInv` survives that only if the slot is empty; `RoleInv` because Destroy frees the
slots without taking the mutex. `ImplementsChannel` maps the ring to the sequence of
packets from `front` on: PushStore is Send, PopTake is Receive, StopBody is Close,
Destroy is Discard, and every other step stutters. The arithmetic modulo `Capacity` is
confined to lemmas on `NextSlot`, `SlotOf` and `Offset`. For `NoLostWakeup` the threads are
counted, sleeping and awake on either side: a Push adds one packet and wakes one sleeping
consumer, if there is one, in the same critical section, so packets and awake consumers move together; a
thread goes to sleep only when it has found the queue empty (or full) under the mutex.

*FrameExchange.* `IInv` joins `TypeOK`, `OneBufferOut` and `SleepInv` (which contains
`NoLostWakeup`) with `CameraInv` and `WorkerInv`: a frame is on offer exactly while the
camera waits, a worker past its critical section holds the buffer on offer and is not
done, and a worker has used the frame once if and only if it is done or about to say so.
When the camera finds all workers done, nobody is left inside the buffer and everybody
used it once: `BufferExclusive`, `OncePerFrame` and the refinement of `FrameHandoff`
follow.

*MppEncoder.* The properties speak of the list of packets sent, which no step looks at, so
`IInv` says what each label of the call knows: `CountInv`, that tasks, packets made and
frames begun stay in step and `ready` holds consecutive numbers; `HandleInv`, which handles
exist at which label; `RoomInv`, that at "copy" the memory was made large enough;
`HeaderInv`, the point of the module: while the connection lives, whatever was put behind
the header was sent, so if `header_sent` is set and the packet did not go out the
connection is gone; `OrderInv`, that packet numbers sent are behind the one in hand;
`PictureInv`, that as long as no get failed there is one task at a time; and `ForwardInv`, that
after any failure pictures still grow from those sent, over the packet in hand and those the
encoder made, to the one in its input buffer. There is one lemma for each part, one case for each action.

*FrameQueue.* The ring is that of the packet queue, with the mutex abstracted (a critical
section is a step), and so are the lemmas on `Offset`. `HandInv` says which local variable
holds a picture at which label; with it `RefsExact` is inductive: a picture's count is the
number of slots that hold it, a cardinality that Push and TryPop change by one, plus its
other holders. `FrameIntact` follows because a picture is written only when its count is
zero. The channel's content is the frame numbers from `front` on.

*H264Link.* The bytes of all packets submitted are one stream in which message `k` begins
after some offset `S[k]`. `WireInv` says that the server stands at an offset `R` inside
message `D + 1` (`D` packets returned so far), the client at `R + Len(wire)`, and that the
wire holds exactly the stream's bytes between the two. `S` and `R` are existentially
quantified, which takes the place of a recursive sum over packet lengths. `ClientInv` says
that what is left to send is the end of the last message, and that a connection on which a
send failed is gone: that is why a partial packet is never followed by anything.
`ServerInv` says that header and buffer hold the beginning of message `D + 1`. A header is
complete at the stream's `HeaderSize`-th byte of a message and a payload at its last, so the
server rejects nothing (`InStep`) and returns what was submitted (`DeliveredIntact`).

*Decoder.* A unit is out once the codec has it. `PieceInv` says that the input is the tail of
what was given and that the parser's pieces came before it; `OutInv` that what was
delivered, the frame in hand and the codec's units are in order; `NextInv` that all of them
come before the unit of the packet in hand and before every piece still to be parsed. That
last part depends on where the parser cuts: it gives a unit away only when it has
seen the first piece of the next (`ParseFacts`, `UnitNext`). After a failed unit nothing
moves back, so errors need no case of their own beyond `UnitFrame`. `KeepInv` says which
call is in progress and what it holds, and contains `NothingKept`. For `AllDelivered`,
`CompleteInv` says that as long as no call failed and the parser never stalled, the unit of every piece given is
delivered, in hand, in the codec, in the parser or still in the input, and that the pieces the parser
keeps are contiguous with no start of a unit after the first, so all of one unit: giving
them away together loses no other. At the end the last three places are empty.

*Display.* `LiveInv` says which SDL objects exist at which label, `CacheInv` that there is at
most one texture and that `texture_width`, `texture_height` and `frame_format` describe it;
destroying the texture before the cached values change is what keeps the latter. The
letterbox is a lemma on the truncated quotients.

*ServerPipeline.* `Line` is the sequence of packet numbers along the pipeline: on the screen, in
the hands, in the queues, in the decoder. Most steps leave it as it is; recv appends the
next number, a failure, a discard or a stop thins it out (`Thins`), and a thinned rising
sequence is rising: `InOrder`. `HandInv` ties the hands to the labels. `CourseInv` describes the normal
end, which runs along the pipeline: without an abort, the packet queue is stopped only
after the receive thread's last Push, the frame queue only after the flush, and main leaves only when
that is empty; with `NothingLost` this gives `DrainedAtExit`.

*ServerStartup.* Each resource is acquired on one rung (`RungOf`) and released by one call
(`ReleasedBy`). On the way up main holds what is on the rungs below it (`UpInv`). `DownInv`
reads main's list of remaining calls, `todo`: what is held is released by a call still in the list;
what such a call releases without looking (the joins, and the packet queue's mutex and
conditions) is held; and as long as a thread is not joined, all that it may use is
there. The last part needs `Orderly`: no call but a stop comes twice, and no join comes after a
destroy, which is what the order of `stop_pipeline`, the joins and the destroys in `main` amounts to.
Three facts about the program carry the proof: that the 23 rungs acquire what the table says,
that each failing `Init` undoes only what is below it and main's calls for that failure release
exactly the rest (`SoundRungs`), and that the lists are orderly (`WaysOut`). The run is exhaustive
as there are no constants; what the proof adds is this reason, and where a change to one
of the lists would break it.

*ClientFirstFrame.* The start's ladder is as long as the driver's grant of buffers makes it,
so `At` and `Until` say for each resource the rung that acquires it and, for the temporaries of
`MPP_Init`, the rung that releases it again; on the way up `ClimbInv` ties what is held to the
rung, and that gives `ReadyToRun` at its end. On the way down `ReturnInv` says that
`DRM_LCD_destroy` is at its k-th step and that exactly the LCD's resources of the later steps are
held (`Releasing`), that the connection is gone and the encoder either
undone as a whole or, when it was the connection that failed, whole. The readers only run
above the rung that checks the size, and there the format satisfies `GoodSize`: an even
width and height and no line shorter than the picture. `LcdInv` and `EncInv` say how
far each reader is; that the four bytes of every pixel the one has passed and that is on the
screen hold its own samples (when rows are not padded) and those of every other place of the
screen its background, and that the lines the other has copied are the camera's, the rest still
padding. A pixel drawn later may lie over the end of an earlier line but not over a
place of the screen that was passed (`PixelsApart`), since a line of the screen is no longer than the pitch.
`ReadInv` says that what was read lies inside the image. They rest on lemmas about where a
pixel's bytes and chroma, a plane's line and an offset's row are, for any width, stride and pitch.

*Assumptions.* The `ASSUME`s say that capacities and sizes are at least one where the code has
constants or checks to that effect (queue capacities, the header, a frame's sides), that bounds and delays are
natural numbers, that threads and pictures are finitely many and that names for "none" are none of
the things. Of the LCD they say that a line of the mode fits the pitch, four bytes a pixel, without which
`drmModeAddFB` fails; the mapping is taken to be no larger than pitch times height, the least
a driver can make it. `MppEncoder` takes a packet with its header to be smaller than what
`TCP_Client_SendPacket` refuses for its size (8 MiB). TLC evaluates the `ASSUME`s in the runs.

*Left to TLC:* every liveness property, since fairness and ENABLED are beyond the prover. What
a recursive definition computes for every input cannot be proved here, either: the modules
proved about use none.

## Not modelled

- `MPP_Free`, and the client's clean-up after its joins: no execution of the program gets
  there (finding 1), and the first has no caller at all. `ClientStartup` ends where the threads start.
- The results of `pthread_create` on the client, which `main` does not look at: the threads
  are taken to start.
- A driver that grants more buffers than it was asked for: `Camera_handle` has no room for
  them; V4L2 drivers may do so in principle, the model has `granted` at most what was asked.
- The colour arithmetic of `NV12_To_RGB`: the addresses it reads and writes are modelled, values are not.
- A camera buffer filled only in part (`bytesused`): `MPP_Encode` looks at it and refuses the
  frame (`SourceTooSmall` of `MppEncoder`), the LCD does not; `StaysInBuffers` speaks of the
  whole image.
- Windows branches of the thread and socket wrappers: same operations under other names.
- Logging, statistics and the debug print-outs, except `tcp_error`.
- `TCP_Server_Accept` again after `CloseClient`: the program accepts one client.
- `test.c` in both directories and the build files: stand-alone sequential programs.
- The insides of FFmpeg, SDL, MPP, V4L2 and DRM.

## Plan

Every safety property is checked and proved; what could follow:

1. A refinement from `Decoder` to a channel with delay that `ServerPipeline` could use as it
   uses `StopChannel`; `InOrder` and `AllDelivered` are what it would consist of when no call fails.
2. The colour arithmetic of `NV12_To_RGB`: the clamping of its fixed-point sums.
