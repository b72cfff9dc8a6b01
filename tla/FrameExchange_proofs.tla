------------------------ MODULE FrameExchange_proofs ------------------------
(***************************************************************************)
(* Proofs about FrameExchange for any set of workers and any buffers.      *)
(***************************************************************************)
EXTENDS FrameExchange, TLAPS

(***************************************************************************)
(* The phases of an exchange, tied to the camera's program counter: which  *)
(* buffer is out, when it is on offer, and what each worker has done with  *)
(* it.  The properties follow from this; none of them is inductive alone.  *)
(***************************************************************************)
CameraInv ==
    /\ pc[Camera] \in {"publish", "await", "qbuf"} =>
          camBuf \in Buffers /\ owner[camBuf] = "application"
    /\ pc[Camera] = "dqbuf" => camBuf = NoBuffer
    /\ frame_ready <=> pc[Camera] = "await"
    /\ frame_ready => data = camBuf

WorkerInv ==
    \A w \in Workers :
        /\ pc[w] \in {"use", "finish"} => frame_ready /\ ~done[w] /\ view[w] = camBuf
        /\ frame_ready => uses[w] = IF done[w] \/ pc[w] = "finish" THEN 1 ELSE 0
        /\ pc[Camera] = "qbuf" => uses[w] = 1

SleepInv ==
    /\ NoLostWakeup
    /\ \A w \in Workers \cap asleep : pc[w] = "take"
    /\ Camera \in asleep => pc[Camera] = "await"

IInv == TypeOK /\ CameraInv /\ OneBufferOut /\ WorkerInv /\ SleepInv

LEMMA WorkersAreNotCamera == \A w \in Workers : w \in Threads /\ w # Camera
BY ExchangeAssumption DEF Threads

LEMMA CameraIsThread == Camera \in Threads
BY DEF Threads

-----------------------------------------------------------------------------
LEMMA InvInit == ASSUME Init PROVE IInv
<1>1. pc[Camera] = "dqbuf" /\ \A w \in Workers : pc[w] = "take"
  BY WorkersAreNotCamera, CameraIsThread DEF Init
<1>2. TypeOK
  <2>1. pc \in [Threads -> CamLabels \cup WorkLabels]
    BY DEF Init, CamLabels, WorkLabels
  <2>2. pc[Camera] \in CamLabels /\ \A w \in Workers : pc[w] \in WorkLabels
    BY <1>1 DEF CamLabels, WorkLabels
  <2>3. owner \in [Buffers -> Owners] /\ mainPc \in MainLabels
    BY DEF Init, Owners, MainLabels
  <2>4. /\ done \in [Workers -> BOOLEAN] /\ uses \in [Workers -> {0, 1}]
        /\ view \in [Workers -> Buffers \cup {NoBuffer}]
    BY DEF Init
  <2> QED
    BY <2>1, <2>2, <2>3, <2>4 DEF Init, TypeOK
<1>3. CameraInv
  BY <1>1 DEF Init, CameraInv
<1>4. OneBufferOut
  BY DEF Init, OneBufferOut
<1>5. WorkerInv
  BY <1>1 DEF Init, WorkerInv
<1>6. SleepInv
  BY DEF Init, SleepInv, NoLostWakeup
<1> QED
  BY <1>2, <1>3, <1>4, <1>5, <1>6 DEF IInv

LEMMA FirstUse == \A n : n = 0 => n + 1 = 1
OBVIOUS

LEMMA TypeStep ==
    ASSUME IInv, [Next]_vars
    PROVE  TypeOK'
<1> USE WorkersAreNotCamera, CameraIsThread
    DEF TypeOK, IInv, Owners, CamLabels, WorkLabels, MainLabels, Goto, shared
<1>1. CASE UNCHANGED vars
  BY <1>1 DEF vars
<1>2. ASSUME NEW b \in Buffers, Capture(b) PROVE TypeOK'
  BY <1>2 DEF Capture
<1>3. ASSUME NEW b \in Buffers, Dequeue(b) PROVE TypeOK'
  BY <1>3 DEF Dequeue
<1>4. CASE DequeueFails \/ RequeueFails
  BY <1>4 DEF DequeueFails, RequeueFails
<1>5. CASE Publish
  <2>1. done' \in [Workers -> BOOLEAN] /\ uses' \in [Workers -> {0, 1}]
    BY <1>5 DEF Publish, ResetDone
  <2> QED
    BY <1>5, <2>1 DEF Publish
<1>6. CASE AwaitAgain \/ Withdraw
  BY <1>6 DEF AwaitAgain, Withdraw
<1>7. CASE Requeue
  BY <1>7 DEF Requeue
<1>8. ASSUME NEW w \in Workers, Sleep(w) PROVE TypeOK'
  BY <1>8 DEF Sleep
<1>12. ASSUME NEW w \in Workers, Take(w) PROVE TypeOK'
  <2>1. pc' \in [Threads -> CamLabels \cup WorkLabels]
        /\ pc'[Camera] = pc[Camera] /\ \A u \in Workers : pc'[u] \in WorkLabels
    BY <1>12 DEF Take
  <2>2. view' \in [Workers -> Buffers \cup {NoBuffer}]
    BY <1>12 DEF Take
  <2> QED
    BY <1>12, <2>1, <2>2 DEF Take
<1>9. ASSUME NEW w \in Workers, Use(w) PROVE TypeOK'
  <2>1. uses[w] = 0
    BY <1>9 DEF Use, WorkerInv
  <2>2. uses' \in [Workers -> {0, 1}]
    <3>1. uses' = [uses EXCEPT ![w] = 1]
      <4>1. uses[w] + 1 = 1
        BY <2>1, FirstUse
      <4>2. uses' = [uses EXCEPT ![w] = uses[w] + 1]
        BY <1>9 DEF Use
      <4> QED
        BY <4>1, <4>2, Zenon
    <3> QED
      BY <3>1
  <2>3. pc' \in [Threads -> CamLabels \cup WorkLabels]
        /\ pc'[Camera] = pc[Camera] /\ \A u \in Workers : pc'[u] \in WorkLabels
    BY <1>9 DEF Use
  <2> QED
    BY <1>9, <2>2, <2>3 DEF Use
<1>10. ASSUME NEW w \in Workers, Finish(w) PROVE TypeOK'
  BY <1>10 DEF Finish, Broadcast
<1>11. CASE JoinCamera
  BY <1>11 DEF JoinCamera
<1> QED
  BY <1>1, <1>2, <1>3, <1>4, <1>5, <1>6, <1>7, <1>8, <1>9, <1>10, <1>11,
     <1>12 DEF Next, CameraStep, WorkerStep, Fault

(* The buffer that is out stays the camera's until it is queued again.      *)
LEMMA CameraInvStep ==
    ASSUME IInv, [Next]_vars
    PROVE  CameraInv' /\ OneBufferOut'
<1> USE WorkersAreNotCamera, CameraIsThread, ExchangeAssumption
    DEF TypeOK, IInv, CameraInv, OneBufferOut, Goto, shared
<1>1. CASE UNCHANGED vars
  BY <1>1 DEF vars
<1>2. ASSUME NEW b \in Buffers, Capture(b) PROVE CameraInv' /\ OneBufferOut'
  BY <1>2 DEF Capture
<1>3. ASSUME NEW b \in Buffers, Dequeue(b) PROVE CameraInv' /\ OneBufferOut'
  BY <1>3 DEF Dequeue
<1>4. CASE DequeueFails \/ RequeueFails
  BY <1>4 DEF DequeueFails, RequeueFails
<1>5. CASE Publish
  BY <1>5 DEF Publish
<1>6. CASE AwaitAgain \/ Withdraw
  BY <1>6 DEF AwaitAgain, Withdraw
<1>7. CASE Requeue
  BY <1>7 DEF Requeue
<1>8. ASSUME NEW w \in Workers, WorkerStep(w) PROVE CameraInv' /\ OneBufferOut'
  BY <1>8 DEF WorkerStep, Sleep, Take, Use, Finish
<1>9. CASE JoinCamera
  BY <1>9 DEF JoinCamera
<1> QED
  BY <1>1, <1>2, <1>3, <1>4, <1>5, <1>6, <1>7, <1>8, <1>9
     DEF Next, CameraStep, Fault

(* Publishing happens while no worker is between Take and Finish, so the     *)
(* flags it clears are not set again by a worker of the previous frame.     *)
LEMMA WorkerInvStep ==
    ASSUME IInv, [Next]_vars
    PROVE  WorkerInv'
<1> USE WorkersAreNotCamera, CameraIsThread
    DEF TypeOK, IInv, WorkerInv, Goto, shared
<1>1. CASE UNCHANGED vars
  BY <1>1 DEF vars
<1>2. ASSUME NEW b \in Buffers, Capture(b) PROVE WorkerInv'
  BY <1>2 DEF Capture
<1>3. ASSUME NEW b \in Buffers, Dequeue(b) PROVE WorkerInv'
  BY <1>3 DEF Dequeue, CameraInv
<1>4. CASE DequeueFails \/ RequeueFails
  BY <1>4 DEF DequeueFails, RequeueFails, CameraInv
<1>5. CASE Publish
  BY <1>5 DEF Publish, ResetDone, CameraInv
<1>6. CASE AwaitAgain
  BY <1>6 DEF AwaitAgain
<1>7. CASE Withdraw
  BY <1>7 DEF Withdraw, AllDone, CameraInv
<1>8. CASE Requeue
  BY <1>8 DEF Requeue, CameraInv
<1>9. ASSUME NEW w \in Workers, Sleep(w) PROVE WorkerInv'
  BY <1>9 DEF Sleep
<1>10. ASSUME NEW w \in Workers, Take(w) PROVE WorkerInv'
  BY <1>10 DEF Take, NothingToTake, CameraInv
<1>11. ASSUME NEW w \in Workers, Use(w) PROVE WorkerInv'
  BY <1>11 DEF Use, CameraInv
<1>12. ASSUME NEW w \in Workers, Finish(w) PROVE WorkerInv'
  BY <1>12 DEF Finish, CameraInv
<1>13. CASE JoinCamera
  BY <1>13 DEF JoinCamera
<1> QED
  BY <1>1, <1>2, <1>3, <1>4, <1>5, <1>6, <1>7, <1>8, <1>9, <1>10, <1>11, <1>12, <1>13
     DEF Next, CameraStep, WorkerStep, Fault

(* Whoever makes a condition true wakes everybody who sleeps on it.         *)
LEMMA SleepInvStep ==
    ASSUME IInv, [Next]_vars
    PROVE  SleepInv'
<1> USE WorkersAreNotCamera, CameraIsThread
    DEF TypeOK, IInv, SleepInv, NoLostWakeup, AllDone, NothingToTake, Goto, shared
<1>1. CASE UNCHANGED vars
  BY <1>1 DEF vars
<1>2. ASSUME NEW b \in Buffers, Capture(b) PROVE SleepInv'
  BY <1>2 DEF Capture
<1>3. ASSUME NEW b \in Buffers, Dequeue(b) PROVE SleepInv'
  BY <1>3 DEF Dequeue
<1>4. CASE DequeueFails \/ RequeueFails
  BY <1>4 DEF DequeueFails, RequeueFails
<1>5. CASE Publish
  BY <1>5, ExchangeAssumption DEF Publish, ResetDone
<1>6. CASE AwaitAgain
  BY <1>6 DEF AwaitAgain
<1>7. CASE Withdraw
  BY <1>7 DEF Withdraw
<1>8. CASE Requeue
  BY <1>8 DEF Requeue
<1>9. ASSUME NEW w \in Workers, Sleep(w) PROVE SleepInv'
  BY <1>9 DEF Sleep
<1>10. ASSUME NEW w \in Workers, Take(w) \/ Use(w) PROVE SleepInv'
  BY <1>10 DEF Take, Use
<1>11. ASSUME NEW w \in Workers, Finish(w) PROVE SleepInv'
  BY <1>11 DEF Finish, Broadcast
<1>12. CASE JoinCamera
  BY <1>12 DEF JoinCamera
<1> QED
  BY <1>1, <1>2, <1>3, <1>4, <1>5, <1>6, <1>7, <1>8, <1>9, <1>10, <1>11, <1>12
     DEF Next, CameraStep, WorkerStep, Fault

(* Every reachable state satisfies the inductive invariant.                 *)
THEOREM Inductive == Spec => []IInv
<1>1. Init => IInv
  BY InvInit
<1>2. IInv /\ [Next]_vars => IInv'
  BY TypeStep, CameraInvStep, WorkerInvStep, SleepInvStep DEF IInv
<1> QED
  BY <1>1, <1>2, PTL DEF Spec

(* A worker reads a frame only while the driver cannot overwrite it.        *)
THEOREM ReadsAreExclusive == Spec => []BufferExclusive
<1>1. IInv => BufferExclusive
  BY DEF IInv, CameraInv, WorkerInv, BufferExclusive
<1> QED
  BY <1>1, Inductive, PTL

(* Every variable of the exchange keeps its type, for any workers and buffers. *)
THEOREM TypeCorrect == Spec => []TypeOK
<1>1. IInv => TypeOK
  BY DEF IInv
<1> QED
  BY <1>1, Inductive, PTL

(* The application never holds more than one of the driver's buffers.       *)
THEOREM DriverKeepsTheRest == Spec => []OneBufferOut
<1>1. IInv => OneBufferOut
  BY DEF IInv
<1> QED
  BY <1>1, Inductive, PTL

(* A buffer goes back after every worker processed it exactly once.         *)
THEOREM ProcessedOnce == Spec => []OncePerFrame
<1>1. IInv => OncePerFrame
  BY DEF IInv, WorkerInv, OncePerFrame
<1> QED
  BY <1>1, Inductive, PTL

(* No thread sleeps while what it waits for holds.                          *)
THEOREM NobodySleepsThroughIt == Spec => []NoLostWakeup
<1>1. IInv => NoLostWakeup
  BY DEF IInv, SleepInv
<1> QED
  BY <1>1, Inductive, PTL

(* The exchange implements the abstract hand-off.                           *)
THEOREM ImplementsHandoff == Spec => RefinesHandoff
<1> USE DEF Handoff!Next, Handoff!vars
<1>1. Init => Handoff!Init
  BY DEF Init, Handoff!Init
<1>2. IInv /\ [Next]_vars => [Handoff!Next]_(Handoff!vars)
  <2> SUFFICES ASSUME IInv, [Next]_vars PROVE [Handoff!Next]_(Handoff!vars)
    OBVIOUS
  <2>1. CASE UNCHANGED shared
    BY <2>1 DEF shared
  <2>2. CASE Publish
    <3>1. camBuf \in Buffers /\ ~frame_ready
      BY <2>2 DEF Publish, IInv, CameraInv
    <3>2. frame_ready' /\ data' = camBuf /\ {w \in Workers : ~done'[w]} = Workers
      BY <2>2 DEF Publish, ResetDone
    <3> QED
      BY <3>1, <3>2 DEF Handoff!Offer
  <2>3. CASE Withdraw
    <3>1. frame_ready /\ data \in Buffers /\ ~frame_ready'
      BY <2>3, ExchangeAssumption DEF Withdraw, IInv, CameraInv
    <3>2. {w \in Workers : ~done[w]} = {} /\ data # NoBuffer
      BY <2>3, <3>1, ExchangeAssumption DEF Withdraw, AllDone
    <3> QED
      BY <3>1, <3>2 DEF Handoff!Withdraw
  <2>4. ASSUME NEW w \in Workers, Finish(w) PROVE Handoff!Next
    <3>1. frame_ready /\ ~done[w] /\ frame_ready' = frame_ready /\ data' = data
      BY <2>4 DEF Finish, IInv, WorkerInv
    <3>2. {u \in Workers : ~done'[u]} = {u \in Workers : ~done[u]} \ {w}
      BY <2>4 DEF Finish, IInv, TypeOK
    <3> QED
      BY <3>1, <3>2 DEF Handoff!Process
  <2> QED
    BY <2>1, <2>2, <2>3, <2>4
       DEF Next, vars, shared, CameraStep, WorkerStep, Fault, Capture, Dequeue,
           DequeueFails, AwaitAgain, Requeue, RequeueFails, Sleep, Take, Use, JoinCamera
<1> QED
  BY <1>1, <1>2, Inductive, PTL DEF Spec, RefinesHandoff, Handoff!Spec
=============================================================================
