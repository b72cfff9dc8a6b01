--------------------------- MODULE FrameExchange ---------------------------
(***************************************************************************)
(* client_rk3568/main.c: the camera thread hands each V4L2 buffer to the   *)
(* LCD and MPP threads through ThreadShare (one mutex, one condition       *)
(* variable), waits until both are through with it, and gives it back to   *)
(* the driver; main waits for the three threads.                           *)
(*                                                                         *)
(* A critical section is one step, from the lock (or the return of         *)
(* pthread_cond_wait) to the unlock (or the next pthread_cond_wait); what a *)
(* thread does with the buffer outside the mutex is between two steps.     *)
(* lcd_thread and mpp_thread take and finish frames in the same way; each  *)
(* is a worker w with its flag done[w] (lcd_done, mpp_done).               *)
(***************************************************************************)
EXTENDS Naturals, FiniteSets

CONSTANTS Workers,     \* {lcd_thread, mpp_thread}
          Camera,      \* imx415_thread
          Buffers      \* the driver's buffers

Threads == Workers \cup {Camera}
NoBuffer == "no buffer"

ASSUME ExchangeAssumption ==
    /\ Camera \notin Workers
    /\ NoBuffer \notin Buffers
    /\ Workers # {} /\ Buffers # {}

VARIABLES
    owner,         \* [Buffers -> who may touch the buffer]
    camBuf,        \* imx415_thread's v4l2_buffer, NoBuffer before DQBUF
    data,          \* share->data (with bytesused and index)
    frame_ready, done,
    asleep,        \* threads in pthread_cond_wait
    pc,
    view,          \* [Workers -> the address each copied out of share]
    uses,          \* [Workers -> how often each processed the published frame]
    mainPc

shared == <<data, frame_ready, done>>
vars   == <<owner, camBuf, data, frame_ready, done, asleep, pc, view, uses, mainPc>>

Owners     == {"driver", "filled", "application"}
CamLabels  == {"dqbuf", "publish", "await", "qbuf", "exit"}
WorkLabels == {"take", "use", "finish", "exit"}
MainLabels == {"join camera", "join workers", "release", "exit"}

Init ==
    /\ owner = [b \in Buffers |-> "driver"]
    /\ camBuf = NoBuffer /\ data = NoBuffer
    /\ frame_ready = FALSE /\ done = [w \in Workers |-> FALSE]
    /\ asleep = {}
    /\ pc = [t \in Threads |-> IF t = Camera THEN "dqbuf" ELSE "take"]
    /\ view = [w \in Workers |-> NoBuffer]
    /\ uses = [w \in Workers |-> 0]
    /\ mainPc = "join camera"

Goto(t, label) == pc' = [pc EXCEPT ![t] = label]

MutantNoBroadcast == UNCHANGED asleep
MutantSignal == IF asleep = {} THEN UNCHANGED asleep
                ELSE \E t \in asleep : asleep' = asleep \ {t}
Broadcast == asleep' = {}

-----------------------------------------------------------------------------
(* The V4L2 driver and the camera thread.                                  *)

\* The sensor writes into a buffer the driver owns.
Capture(b) ==
    /\ owner[b] = "driver"
    /\ owner' = [owner EXCEPT ![b] = "filled"]
    /\ UNCHANGED <<camBuf, shared, asleep, pc, view, uses, mainPc>>

Dequeue(b) ==
    /\ pc[Camera] = "dqbuf"
    /\ owner[b] = "filled"
    /\ owner' = [owner EXCEPT ![b] = "application"]
    /\ camBuf' = b
    /\ Goto(Camera, "publish")
    /\ UNCHANGED <<shared, asleep, view, uses, mainPc>>

DequeueFails ==
    /\ pc[Camera] = "dqbuf"
    /\ Goto(Camera, "exit")
    /\ UNCHANGED <<owner, camBuf, shared, asleep, view, uses, mainPc>>

\* Publishing clears both flags, so the camera always goes to sleep.
ResetDone == done' = [w \in Workers |-> FALSE]

Publish ==
    /\ pc[Camera] = "publish"
    /\ data' = camBuf
    /\ ResetDone
    /\ frame_ready' = TRUE
    /\ asleep' = {Camera}
    /\ Goto(Camera, "await")
    /\ uses' = [w \in Workers |-> 0]
    /\ UNCHANGED <<owner, camBuf, view, mainPc>>

MutantAnyDone == \E w \in Workers : done[w]
AllDone == \A w \in Workers : done[w]

AwaitAgain ==
    /\ pc[Camera] = "await"
    /\ Camera \notin asleep
    /\ ~AllDone
    /\ asleep' = asleep \cup {Camera}
    /\ UNCHANGED <<owner, camBuf, shared, pc, view, uses, mainPc>>

MutantKeepReady ==
    /\ pc[Camera] = "await"
    /\ Camera \notin asleep
    /\ AllDone
    /\ Goto(Camera, "qbuf")
    /\ UNCHANGED <<owner, camBuf, shared, asleep, view, uses, mainPc>>

Withdraw ==
    /\ pc[Camera] = "await"
    /\ Camera \notin asleep
    /\ AllDone
    /\ frame_ready' = FALSE
    /\ Goto(Camera, "qbuf")
    /\ UNCHANGED <<owner, camBuf, data, done, asleep, view, uses, mainPc>>

Requeue ==
    /\ pc[Camera] = "qbuf"
    /\ owner' = [owner EXCEPT ![camBuf] = "driver"]
    /\ camBuf' = NoBuffer
    /\ Goto(Camera, "dqbuf")
    /\ UNCHANGED <<shared, asleep, view, uses, mainPc>>

RequeueFails ==
    /\ pc[Camera] = "qbuf"
    /\ Goto(Camera, "exit")
    /\ UNCHANGED <<owner, camBuf, shared, asleep, view, uses, mainPc>>

-----------------------------------------------------------------------------
(* The LCD and MPP threads.                                                *)

NothingToTake(w) == ~frame_ready \/ done[w]

Sleep(w) ==
    /\ pc[w] = "take"
    /\ w \notin asleep
    /\ NothingToTake(w)
    /\ asleep' = asleep \cup {w}
    /\ UNCHANGED <<owner, camBuf, shared, pc, view, uses, mainPc>>

Take(w) ==
    /\ pc[w] = "take"
    /\ w \notin asleep
    /\ ~NothingToTake(w)
    /\ view' = [view EXCEPT ![w] = data]
    /\ Goto(w, "use")
    /\ UNCHANGED <<owner, camBuf, shared, asleep, uses, mainPc>>

\* NV12_To_RGB, or MPP_Encode and TCP_Client_SendH264: whether the encoder or
\* the network failed makes no difference to the hand-off.
Use(w) ==
    /\ pc[w] = "use"
    /\ uses' = [uses EXCEPT ![w] = @ + 1]
    /\ Goto(w, "finish")
    /\ UNCHANGED <<owner, camBuf, shared, asleep, view, mainPc>>

Finish(w) ==
    /\ pc[w] = "finish"
    /\ done' = [done EXCEPT ![w] = TRUE]
    /\ Broadcast
    /\ Goto(w, "take")
    /\ UNCHANGED <<owner, camBuf, data, frame_ready, view, uses, mainPc>>

-----------------------------------------------------------------------------
(* main: pthread_join of the camera thread, then of the workers.           *)

JoinCamera ==
    /\ mainPc = "join camera"
    /\ pc[Camera] = "exit"
    /\ mainPc' = "join workers"
    /\ UNCHANGED <<owner, camBuf, shared, asleep, pc, view, uses>>

\* No step of Next takes a worker to its exit, so this is never enabled: it is
\* there to say what main is waiting for (see CameraExitReleasesAll).
JoinWorkers ==
    /\ mainPc = "join workers"
    /\ \A w \in Workers : pc[w] = "exit"
    /\ mainPc' = "release"
    /\ UNCHANGED <<owner, camBuf, shared, asleep, pc, view, uses>>

-----------------------------------------------------------------------------
CameraStep == (\E b \in Buffers : Dequeue(b)) \/ Publish \/ AwaitAgain
              \/ Withdraw \/ Requeue
WorkerStep(w) == Sleep(w) \/ Take(w) \/ Use(w) \/ Finish(w)
Fault == DequeueFails \/ RequeueFails

Next == \/ \E b \in Buffers : Capture(b)
        \/ CameraStep
        \/ Fault
        \/ \E w \in Workers : WorkerStep(w)
        \/ JoinCamera

Spec == Init /\ [][Next]_vars

(* Scheduling: a thread that can run does, and the sensor delivers frames.  *)
(* Nothing makes an ioctl fail or succeed.                                 *)
Fairness == /\ WF_vars(\E b \in Buffers : Capture(b))
            /\ WF_vars(CameraStep)
            /\ \A w \in Workers : WF_vars(WorkerStep(w))
            /\ WF_vars(JoinCamera)

FairSpec == Spec /\ Fairness

\* The same with main's remaining joins.
JoinSpec == Init /\ [][Next \/ JoinWorkers]_vars /\ Fairness /\ WF_vars(JoinWorkers)

-----------------------------------------------------------------------------
(* Properties                                                              *)

\* The type of every variable.
TypeOK ==
    /\ owner \in [Buffers -> Owners]
    /\ camBuf \in Buffers \cup {NoBuffer} /\ data \in Buffers \cup {NoBuffer}
    /\ frame_ready \in BOOLEAN /\ done \in [Workers -> BOOLEAN]
    /\ asleep \subseteq Threads
    /\ pc \in [Threads -> CamLabels \cup WorkLabels]
    /\ pc[Camera] \in CamLabels /\ \A w \in Workers : pc[w] \in WorkLabels
    /\ view \in [Workers -> Buffers \cup {NoBuffer}]
    /\ uses \in [Workers -> {0, 1}]
    /\ mainPc \in MainLabels

\* A worker that copied the address out of the mutex reads a buffer the driver
\* does not own (it may not be overwritten meanwhile), the one on offer.
BufferExclusive ==
    \A w \in Workers : pc[w] \in {"use", "finish"} =>
        owner[view[w]] = "application" /\ view[w] = camBuf

\* The application holds at most one of the driver's buffers, so the sensor
\* always has the others to write to.
OneBufferOut == \A b \in Buffers : owner[b] = "application" => b = camBuf

\* A buffer goes back after each worker processed it exactly once: no worker
\* misses a frame or sees it twice, although the flags of the previous frame
\* are still set when a fast worker comes back for the next.
OncePerFrame == pc[Camera] = "qbuf" => \A w \in Workers : uses[w] = 1

\* One condition variable serves two directions, and still nobody sleeps while
\* the condition it waits for holds.
NoLostWakeup ==
    /\ Camera \in asleep => ~AllDone
    /\ \A w \in Workers \cap asleep : NothingToTake(w)

\* The exchange hands each buffer to every worker before it withdraws it.
Handoff == INSTANCE FrameHandoff WITH
              current <- IF frame_ready THEN data ELSE NoBuffer,
              pending <- IF frame_ready THEN {w \in Workers : ~done[w]} ELSE {}
RefinesHandoff == Handoff!Spec

\* Frames keep being published until an ioctl fails: the camera never waits for
\* ever for a worker, nor a worker for a wakeup meant for it.
StreamContinues == []<>(pc[Camera] \in {"publish", "exit"})

\* main.c:316-341: after the threads are started main waits for them to return
\* and then releases the resources.  The camera thread returns when an ioctl
\* fails; the workers wait for a frame that no longer comes.
CameraExitReleasesAll == pc[Camera] = "exit" ~> mainPc = "release"
=============================================================================
