----------------------------- MODULE FrameQueue -----------------------------
(***************************************************************************)
(* server_pc/avframe_queue.c between its two users: the decoder thread,    *)
(* which pushes clones of the frame FFmpeg gave it, and main, which takes  *)
(* them, renders, stops and destroys the queue.  main polls with TryPop;   *)
(* the queue also offers the Pop that waits, and main may call either.     *)
(*                                                                         *)
(* A clone shares the picture it is made from, so what matters besides the *)
(* ring is who still holds a reference: FFmpeg decodes the next frame into *)
(* any picture nobody refers to.                                           *)
(*                                                                         *)
(* The locking is that of PacketQueue, where it is modelled step by step;  *)
(* here a critical section is one step.                                    *)
(***************************************************************************)
EXTENDS Integers, FiniteSets

CONSTANTS Capacity,    \* slots of the ring
          Pictures,    \* the decoder's picture buffers
          MaxFrames    \* bound: how many frames are decoded

NoPicture == "no picture"
Slots     == 0 .. Capacity - 1

ASSUME FrameQueueAssumption ==
    /\ Capacity \in Nat \ {0}
    /\ MaxFrames \in Nat
    /\ NoPicture \notin Pictures
    /\ IsFiniteSet(Pictures)

VARIABLES
    frames,        \* [Slots -> the picture the slot's AVFrame refers to]
    frame_index,   \* [Slots -> number of the frame]
    front, rear, count, stop,
    asleep,        \* threads in pthread_cond_wait: the decoder for not_full,
                   \* main for not_empty
    content,       \* [Pictures -> number of the frame last decoded into it]
    refs,          \* [Pictures -> references to it]
    frame_count,   \* frames decoded, the index given to the last one
    frame,         \* the picture of decoder->frame
    clone,         \* the picture of Push's cloned_frame
    decoded,       \* main's decoded_frame: [frame, index]
    decPc, mainPc

ring    == <<frames, frame_index, front, rear, count, stop>>
decoder == <<content, frame_count, frame>>
vars    == <<frames, frame_index, front, rear, count, stop, asleep, content, refs,
             frame_count, frame, clone, decoded, decPc, mainPc>>

Nothing == [frame |-> NoPicture, index |-> 0]

Init ==
    /\ frames = [s \in Slots |-> NoPicture]
    /\ frame_index = [s \in Slots |-> 0]
    /\ front = 0 /\ rear = 0 /\ count = 0 /\ stop = FALSE
    /\ asleep = {}
    /\ content = [p \in Pictures |-> 0] /\ refs = [p \in Pictures |-> 0]
    /\ frame_count = 0 /\ frame = NoPicture /\ clone = NoPicture
    /\ decoded = Nothing
    /\ decPc = "decode" /\ mainPc = "poll"

MutantNextNoWrap(i) == IF i + 1 < Capacity THEN i + 1 ELSE i
NextSlot(i) == (i + 1) % Capacity

\* The reference counts after one reference to `gone` is dropped and one to
\* `new` is taken, either of which may be no picture.
Counts(new, gone) ==
    [p \in Pictures |-> refs[p] + (IF p = new THEN 1 ELSE 0)
                                - (IF p = gone THEN 1 ELSE 0)]

-----------------------------------------------------------------------------
(* The decoder thread.                                                     *)

\* avcodec_receive_frame: the previous frame is unreferenced and the next one
\* decoded into a picture that is free by then.
Decode(p) ==
    /\ decPc = "decode"
    /\ frame_count < MaxFrames
    /\ refs[p] = 0 \/ (refs[p] = 1 /\ p = frame)
    /\ frame' = p
    /\ refs' = Counts(p, frame)
    /\ frame_count' = frame_count + 1
    /\ content' = [content EXCEPT ![p] = frame_count + 1]
    /\ decPc' = "clone"
    /\ UNCHANGED <<ring, asleep, clone, decoded, mainPc>>

MutantNoReference ==
    /\ decPc = "clone"
    /\ clone' = frame
    /\ decPc' = "push"
    /\ UNCHANGED <<ring, asleep, decoder, refs, decoded, mainPc>>

\* av_frame_clone before the mutex.
Clone ==
    /\ decPc = "clone"
    /\ clone' = frame
    /\ refs' = Counts(frame, NoPicture)
    /\ decPc' = "push"
    /\ UNCHANGED <<ring, asleep, decoder, decoded, mainPc>>

\* Out of memory: Push returns -1, the packet is given up, decoding goes on.
CloneFails ==
    /\ decPc = "clone"
    /\ decPc' = "decode"
    /\ UNCHANGED <<ring, asleep, decoder, refs, clone, decoded, mainPc>>

PushWait ==
    /\ decPc = "push" /\ "decoder" \notin asleep
    /\ count = Capacity /\ ~stop
    /\ asleep' = asleep \cup {"decoder"}
    /\ UNCHANGED <<ring, decoder, refs, clone, decoded, decPc, mainPc>>

MutantLeakRefused ==
    /\ decPc = "push" /\ "decoder" \notin asleep
    /\ stop
    /\ clone' = NoPicture
    /\ decPc' = "decode"
    /\ UNCHANGED <<ring, asleep, decoder, refs, decoded, mainPc>>

PushRefused ==
    /\ decPc = "push" /\ "decoder" \notin asleep
    /\ stop
    /\ refs' = Counts(NoPicture, clone)
    /\ clone' = NoPicture
    /\ decPc' = "decode"
    /\ UNCHANGED <<ring, asleep, decoder, decoded, mainPc>>

\* pthread_cond_wait may return unasked; both waits look at the queue again.
SpuriousWakeup(t) ==
    /\ t \in asleep
    /\ asleep' = asleep \ {t}
    /\ UNCHANGED <<ring, decoder, refs, clone, decoded, decPc, mainPc>>

HasRoom == count < Capacity

MutantWakeNobody == UNCHANGED asleep
SignalNotEmpty == asleep' = asleep \ {"main"}

PushStore ==
    /\ decPc = "push" /\ "decoder" \notin asleep
    /\ HasRoom /\ ~stop
    /\ frames' = [frames EXCEPT ![rear] = clone]
    /\ frame_index' = [frame_index EXCEPT ![rear] = frame_count]
    /\ rear' = NextSlot(rear)
    /\ count' = count + 1
    /\ SignalNotEmpty
    /\ clone' = NoPicture
    /\ decPc' = "decode"
    /\ UNCHANGED <<front, stop, decoder, refs, decoded, mainPc>>

\* AVFrameQueue_Stop: set the flag, wake the sleepers.
MutantStopSilently == stop' = TRUE /\ UNCHANGED asleep
Stop == stop' = TRUE /\ asleep' = {}

\* After the last packet (or once the queue refuses frames).
DecoderStop ==
    /\ decPc = "decode"
    /\ Stop
    /\ decPc' = "done"
    /\ UNCHANGED <<frames, frame_index, front, rear, count, decoder, refs, clone,
                   decoded, mainPc>>

-----------------------------------------------------------------------------
(* main's loop.                                                            *)

MutantNoSignal == UNCHANGED asleep
SignalNotFull == asleep' = asleep \ {"decoder"}

\* The slot's reference moves to the caller; the decoder may go on.
TakeFront ==
    /\ count > 0
    /\ decoded' = [frame |-> frames[front], index |-> frame_index[front]]
    /\ frames' = [frames EXCEPT ![front] = NoPicture]
    /\ frame_index' = [frame_index EXCEPT ![front] = 0]
    /\ front' = NextSlot(front)
    /\ count' = count - 1
    /\ SignalNotFull
    /\ mainPc' = "render"
    /\ UNCHANGED <<rear, stop, decoder, refs, clone, decPc>>

TryPopTake == mainPc = "poll" /\ TakeFront

\* TryPop returns 2: nothing left and nothing to come.  (0, empty but not
\* stopped, only makes main sleep a millisecond and poll again.)
EndOfFrames == count = 0 /\ stop

Ends ==
    /\ EndOfFrames
    /\ mainPc' = "ended"
    /\ UNCHANGED <<ring, asleep, decoder, refs, clone, decoded, decPc>>

TryPopEnd == mainPc = "poll" /\ Ends

\* AVFrameQueue_Pop sleeps while the queue is empty and not stopped.
Awake == mainPc = "pop" /\ "main" \notin asleep

PopBegin ==
    /\ mainPc = "poll"
    /\ mainPc' = "pop"
    /\ UNCHANGED <<ring, asleep, decoder, refs, clone, decoded, decPc>>

PopWait ==
    /\ Awake
    /\ count = 0 /\ ~stop
    /\ asleep' = asleep \cup {"main"}
    /\ UNCHANGED <<ring, decoder, refs, clone, decoded, decPc, mainPc>>

PopTake == Awake /\ TakeFront
PopEnd  == Awake /\ Ends

\* SDL_Display_RenderFrame, then DecodedFrame_Free.
FreeFrame ==
    /\ mainPc = "render"
    /\ refs' = Counts(NoPicture, decoded.frame)
    /\ decoded' = Nothing
    /\ mainPc' = "poll"
    /\ UNCHANGED <<ring, asleep, decoder, clone, decPc>>

\* The user quits (or rendering failed): stop_pipeline.
Quit ==
    /\ mainPc = "poll"
    /\ Stop
    /\ mainPc' = "stopped"
    /\ UNCHANGED <<frames, frame_index, front, rear, count, decoder, refs, clone,
                   decoded, decPc>>

\* After the join: the decoder's own frame goes first, then the queue with
\* every frame nobody took.
CountsAfterDestroy ==
    [p \in Pictures |-> refs[p] - (IF p = frame THEN 1 ELSE 0)
                                - Cardinality({s \in Slots : frames[s] = p})]

Destroy ==
    /\ mainPc \in {"ended", "stopped"}
    /\ decPc = "done"
    /\ refs' = CountsAfterDestroy
    /\ frame' = NoPicture
    /\ frames' = [s \in Slots |-> NoPicture]
    /\ frame_index' = [s \in Slots |-> 0]
    /\ front' = 0 /\ rear' = 0 /\ count' = 0 /\ stop' = TRUE
    /\ mainPc' = "destroyed"
    /\ UNCHANGED <<asleep, content, frame_count, clone, decoded, decPc>>

-----------------------------------------------------------------------------
DecoderStep == \/ \E p \in Pictures : Decode(p)
               \/ Clone \/ PushWait \/ PushRefused \/ PushStore \/ DecoderStop
MainStep == TryPopTake \/ TryPopEnd \/ PopWait \/ PopTake \/ PopEnd \/ FreeFrame \/ Destroy

Finished == mainPc = "destroyed" /\ UNCHANGED vars

Next == DecoderStep \/ CloneFails \/ MainStep \/ PopBegin \/ Quit \/ Finished
        \/ \E t \in {"decoder", "main"} : SpuriousWakeup(t)

\* Both threads run when they can.  The decoder decodes or stops; nobody owes
\* the user a failing clone, or the program a quit or a call of the other Pop.
Spec     == Init /\ [][Next]_vars
FairSpec == Spec /\ WF_vars(DecoderStep) /\ WF_vars(MainStep)

-----------------------------------------------------------------------------
(* Properties                                                              *)

\* The type of every variable.
TypeOK ==
    /\ frames \in [Slots -> Pictures \cup {NoPicture}]
    /\ frame_index \in [Slots -> 0 .. MaxFrames]
    /\ front \in Slots /\ rear \in Slots /\ count \in 0 .. Capacity
    /\ stop \in BOOLEAN /\ asleep \subseteq {"decoder", "main"}
    /\ content \in [Pictures -> 0 .. MaxFrames]
    /\ refs \in [Pictures -> Int]
    /\ frame_count \in 0 .. MaxFrames
    /\ {frame, clone, decoded.frame} \subseteq Pictures \cup {NoPicture}
    /\ decoded.index \in 0 .. MaxFrames
    /\ decPc \in {"decode", "clone", "push", "done"}
    /\ mainPc \in {"poll", "pop", "render", "ended", "stopped", "destroyed"}

\* Who refers to a picture: slots of the ring, and the decoder's frame, Push's
\* cloned_frame and main's decoded_frame.
SlotsWith(p) == {s \in Slots : frames[s] = p}
HandsWith(p) == {h \in {"decoder", "push", "main"} :
                    p = CASE h = "decoder" -> frame
                          [] h = "push"    -> clone
                          [] h = "main"    -> decoded.frame}

\* Reference counts are exact: one per slot, local variable and decoder frame
\* that refers to the picture.  So none is freed twice, and in the end, when
\* nobody refers to anything, every picture is free.
RefsExact ==
    \A p \in Pictures :
        refs[p] = Cardinality(SlotsWith(p)) + Cardinality(HandsWith(p))

\* What main renders is the image it was given an index for, however far the
\* decoder has got meanwhile: a queued picture is never decoded into.
FrameIntact ==
    /\ \A s \in Slots : frames[s] # NoPicture => content[frames[s]] = frame_index[s]
    /\ decoded.frame # NoPicture => content[decoded.frame] = decoded.index

SlotOf(i) == IF front + i < Capacity THEN front + i ELSE front + i - Capacity

\* The queue is a StopChannel carrying frame numbers.
Chan == INSTANCE StopChannel WITH
            Values <- 1 .. MaxFrames, Bound <- Capacity,
            chan <- [i \in 1 .. count |-> frame_index[SlotOf(i - 1)]],
            closed <- stop
RefinesChannel == Chan!Spec

\* Neither thread is ever stuck in the queue: the decoder's clone is stored or
\* dropped, whether main keeps taking frames or has left its loop, and main in Pop
\* gets the next frame or learns that none will come.
CallsReturn == /\ decPc = "push" ~> decPc # "push"
               /\ mainPc = "pop" ~> mainPc \in {"render", "ended"}

\* Once the queue is stopped, by either side, the program gets through the join
\* and destroys it.
StopDestroys == stop ~> mainPc = "destroyed"
=============================================================================
