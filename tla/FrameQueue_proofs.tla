-------------------------- MODULE FrameQueue_proofs --------------------------
(***************************************************************************)
(* Proofs about FrameQueue for any capacity, any number of pictures and    *)
(* any number of frames: every safety property of its run.                 *)
(***************************************************************************)
EXTENDS FrameQueue, FiniteSetTheorems, SequenceTheorems, TLAPS

\* How far slot s is from front.
Offset(s) == IF s >= front THEN s - front ELSE s - front + Capacity

\* The occupied slots are the count slots from front on; their frames have numbers.
RingInv ==
    /\ rear = SlotOf(count)
    /\ \A s \in Slots : frames[s] # NoPicture <=> Offset(s) < count
    /\ \A s \in Slots : frames[s] # NoPicture => frame_index[s] # 0

\* Which local variables hold a picture at which label.
HandInv ==
    /\ clone # NoPicture <=> decPc = "push"
    /\ decoded.frame # NoPicture <=> mainPc = "render"
    /\ decPc \in {"clone", "push"} => frame # NoPicture
    /\ decPc = "push" => clone = frame
    /\ frame # NoPicture => frame_count # 0 /\ content[frame] = frame_count

\* Who ended stopped the queue first.
StopInv == decPc = "done" \/ mainPc \in {"ended", "stopped", "destroyed"} => stop

IInv == TypeOK /\ RingInv /\ HandInv /\ StopInv /\ RefsExact /\ FrameIntact

-----------------------------------------------------------------------------
(* The ring.                                                               *)

LEMMA Bounds ==
    /\ Capacity \in Nat /\ Capacity > 0 /\ MaxFrames \in Nat
    /\ NoPicture \notin Pictures /\ IsFiniteSet(Pictures) /\ IsFiniteSet(Slots)
<1>1. Capacity \in Nat /\ Capacity > 0
  BY FrameQueueAssumption
<1>2. IsFiniteSet(Slots)
  BY <1>1, FS_Interval DEF Slots
<1> QED
  BY <1>1, <1>2, FrameQueueAssumption

LEMMA NextSlotWraps ==
    ASSUME NEW s \in Slots
    PROVE  /\ NextSlot(s) = IF s + 1 = Capacity THEN 0 ELSE s + 1
           /\ NextSlot(s) \in Slots
BY Bounds DEF Slots, NextSlot

LEMMA RingArith ==
    ASSUME TypeOK
    PROVE  /\ Capacity \in Nat /\ Capacity > 0
           /\ front \in Nat /\ front < Capacity /\ count \in Nat /\ count <= Capacity
           /\ \A s \in Slots : s \in Nat /\ s < Capacity
           /\ frame_count \in Nat
BY Bounds DEF TypeOK, Slots

LEMMA RearOffset ==
    ASSUME TypeOK, RingInv, HasRoom
    PROVE  /\ \A s \in Slots : Offset(s) = count <=> s = rear
           /\ NextSlot(rear) = SlotOf(count + 1)
           /\ frames[rear] = NoPicture
<1>1. rear \in Slots /\ rear = SlotOf(count)
  BY DEF TypeOK, RingInv
<1>2. count < Capacity
  BY DEF HasRoom
<1>3. ASSUME NEW s \in Slots PROVE Offset(s) = count <=> s = rear
  BY <1>1, <1>2, RingArith DEF Offset, SlotOf
<1>4. NextSlot(rear) = SlotOf(count + 1)
  BY <1>1, <1>2, RingArith, NextSlotWraps DEF SlotOf
<1>5. frames[rear] = NoPicture
  BY <1>1, <1>3, RingArith DEF RingInv
<1> QED
  BY <1>3, <1>4, <1>5

LEMMA FrontOccupied ==
    ASSUME TypeOK, RingInv, count > 0
    PROVE  /\ front \in Slots /\ frames[front] \in Pictures
           /\ frame_index[front] \in 1 .. MaxFrames
<1>1. front \in Slots /\ front \in Int /\ Offset(front) = 0
  BY RingArith DEF TypeOK, Offset
<1>2. frames[front] # NoPicture /\ frame_index[front] # 0
  BY <1>1, RingArith DEF RingInv
<1> QED
  BY <1>1, <1>2, Bounds DEF TypeOK
-----------------------------------------------------------------------------
(* The initial state.                                                      *)

LEMMA EmptyCounts ==
    ASSUME TypeOK, \A s \in Slots : frames[s] = NoPicture,
           frame = NoPicture, clone = NoPicture, decoded.frame = NoPicture
    PROVE  \A p \in Pictures : Cardinality(SlotsWith(p)) = 0 /\ Cardinality(HandsWith(p)) = 0
<1> TAKE p \in Pictures
<1>1. p # NoPicture
  BY Bounds
<1>2. SlotsWith(p) = {} /\ HandsWith(p) = {}
  BY <1>1 DEF SlotsWith, HandsWith
<1> QED
  BY <1>2, FS_EmptySet

LEMMA InvInit == ASSUME Init PROVE IInv
<1> USE DEF Init, Nothing
<1>1. TypeOK
  <2>1. frames \in [Slots -> Pictures \cup {NoPicture}] /\ frame_index \in [Slots -> 0 .. MaxFrames]
    BY Bounds
  <2>2. front \in Slots /\ rear \in Slots /\ count \in 0 .. Capacity
    BY Bounds DEF Slots
  <2>3. content \in [Pictures -> 0 .. MaxFrames] /\ refs \in [Pictures -> Int]
    BY Bounds
  <2>4. frame_count \in 0 .. MaxFrames /\ decoded.index \in 0 .. MaxFrames
    BY Bounds
  <2>5. {frame, clone, decoded.frame} \subseteq Pictures \cup {NoPicture}
    OBVIOUS
  <2>6. stop \in BOOLEAN /\ asleep \subseteq {"decoder", "main"}
        /\ decPc = "decode" /\ mainPc = "poll"
    OBVIOUS
  <2> QED
    BY <2>1, <2>2, <2>3, <2>4, <2>5, <2>6 DEF TypeOK
<1>2. RingInv
  <2>1. SlotOf(count) = 0 /\ \A s \in Slots : Offset(s) \in Nat
    BY <1>1, RingArith DEF SlotOf, Offset
  <2> QED
    BY <2>1 DEF RingInv
<1>3. HandInv /\ StopInv
  BY DEF HandInv, StopInv
<1>4. RefsExact
  BY <1>1, EmptyCounts DEF RefsExact
<1>5. FrameIntact
  BY DEF FrameIntact
<1> QED
  BY <1>1, <1>2, <1>3, <1>4, <1>5 DEF IInv

-----------------------------------------------------------------------------
(* Types.                                                                  *)

LEMMA SlotsCounted ==
    ASSUME NEW p
    PROVE  IsFiniteSet(SlotsWith(p)) /\ Cardinality(SlotsWith(p)) \in Nat
<1>1. SlotsWith(p) \in SUBSET Slots
  BY DEF SlotsWith
<1> QED
  BY <1>1, Bounds, FS_Subset, FS_CardinalityType

LEMMA CountsType ==
    ASSUME TypeOK
    PROVE  /\ \A new, gone : Counts(new, gone) \in [Pictures -> Int]
           /\ CountsAfterDestroy \in [Pictures -> Int]
<1>1. ASSUME NEW new, NEW gone PROVE Counts(new, gone) \in [Pictures -> Int]
  BY DEF TypeOK, Counts
<1>2. \A p \in Pictures : Cardinality({s \in Slots : frames[s] = p}) \in Nat
  BY SlotsCounted DEF SlotsWith
<1>3. CountsAfterDestroy \in [Pictures -> Int]
  BY <1>2 DEF TypeOK, CountsAfterDestroy
<1> QED
  BY <1>1, <1>3

\* TryPop and Pop take the frame at front in the same way.
LEMMA TakeFrontFacts ==
    ASSUME TypeOK, RingInv, TakeFront
    PROVE  /\ count > 0 /\ front \in Slots /\ front' = NextSlot(front)
           /\ count' = count - 1 /\ rear' = rear /\ stop' = stop
           /\ frames' = [frames EXCEPT ![front] = NoPicture]
           /\ frame_index' = [frame_index EXCEPT ![front] = 0]
           /\ decoded'.frame = frames[front] /\ decoded'.index = frame_index[front]
           /\ decoded'.frame \in Pictures /\ decoded'.index \in 0 .. MaxFrames
           /\ asleep' \subseteq asleep /\ mainPc' = "render"
           /\ UNCHANGED <<content, frame_count, frame, refs, clone, decPc>>
<1>1. count > 0
  BY DEF TakeFront
<1> QED
  BY <1>1, FrontOccupied, Bounds DEF TakeFront, SignalNotFull, decoder

LEMMA TypeStep == ASSUME IInv, [Next]_vars PROVE TypeOK'
<1>0. TypeOK /\ RingInv /\ HandInv
  BY DEF IInv
<1> USE DEF TypeOK, ring, decoder
<1>1. ASSUME NEW p \in Pictures, Decode(p) PROVE TypeOK'
  <2>1. frame_count + 1 \in 0 .. MaxFrames
    BY <1>0, <1>1, Bounds DEF Decode
  <2>2. content' \in [Pictures -> 0 .. MaxFrames]
    BY <1>0, <1>1, <2>1 DEF Decode
  <2> QED
    BY <1>0, <1>1, <2>1, <2>2, CountsType DEF Decode
<1>2. CASE Clone \/ CloneFails
  <2>1. refs' \in [Pictures -> Int]
    BY <1>0, <1>2, CountsType DEF Clone, CloneFails
  <2> QED
    BY <1>0, <1>2, <2>1 DEF Clone, CloneFails
<1>3. CASE PushWait \/ PushRefused
  <2>1. refs' \in [Pictures -> Int]
    BY <1>0, <1>3, CountsType DEF PushWait, PushRefused
  <2> QED
    BY <1>0, <1>3, <2>1 DEF PushWait, PushRefused
<1>4. CASE PushStore
  <2>1. rear' \in Slots
    BY <1>0, <1>4, NextSlotWraps DEF PushStore
  <2>2. count' \in 0 .. Capacity
    BY <1>0, <1>4, Bounds DEF PushStore, HasRoom
  <2>3. frames' \in [Slots -> Pictures \cup {NoPicture}]
        /\ frame_index' \in [Slots -> 0 .. MaxFrames]
    BY <1>0, <1>4 DEF PushStore
  <2> QED
    BY <1>0, <1>4, <2>1, <2>2, <2>3 DEF PushStore, SignalNotEmpty
<1>5. CASE DecoderStop \/ Quit
  BY <1>0, <1>5 DEF DecoderStop, Quit, Stop
<1>6. CASE TakeFront
  <2>0. /\ rear' = rear /\ stop' = stop /\ asleep' \subseteq asleep /\ mainPc' = "render"
        /\ decoded'.frame \in Pictures /\ decoded'.index \in 0 .. MaxFrames
        /\ UNCHANGED <<content, frame_count, frame, refs, clone, decPc>>
    BY <1>0, <1>6, TakeFrontFacts
  <2>1. front' \in Slots /\ count' \in 0 .. Capacity
    BY <1>0, <1>6, TakeFrontFacts, NextSlotWraps, Bounds
  <2>2. frames' \in [Slots -> Pictures \cup {NoPicture}]
        /\ frame_index' \in [Slots -> 0 .. MaxFrames]
    BY <1>0, <1>6, TakeFrontFacts, Bounds
  <2> QED
    BY <1>0, <2>0, <2>1, <2>2
<1>7. CASE Ends \/ PopBegin \/ PopWait
  BY <1>0, <1>7 DEF Ends, PopBegin, PopWait
<1>8. CASE FreeFrame
  <2>1. decoded'.frame = NoPicture /\ decoded'.index = 0
    BY <1>8 DEF FreeFrame, Nothing
  <2> QED
    BY <1>0, <1>8, <2>1, CountsType, Bounds DEF FreeFrame
<1>9. CASE Destroy
  <2>1. front' \in Slots /\ rear' \in Slots /\ count' \in 0 .. Capacity
    BY <1>9, Bounds DEF Destroy, Slots
  <2>2. frames' \in [Slots -> Pictures \cup {NoPicture}]
        /\ frame_index' \in [Slots -> 0 .. MaxFrames]
    BY <1>9, Bounds DEF Destroy
  <2> QED
    BY <1>0, <1>9, <2>1, <2>2, CountsType DEF Destroy
<1>10. ASSUME NEW t \in {"decoder", "main"}, SpuriousWakeup(t) PROVE TypeOK'
  BY <1>0, <1>10 DEF SpuriousWakeup
<1>11. CASE UNCHANGED vars
  BY <1>0, <1>11 DEF vars
<1> QED
  BY <1>1, <1>2, <1>3, <1>4, <1>5, <1>6, <1>7, <1>8, <1>9, <1>10, <1>11
     DEF Next, DecoderStep, MainStep, Finished, TryPopTake, TryPopEnd, PopTake, PopEnd

-----------------------------------------------------------------------------
(* Local variables and the end.                                            *)

LEMMA HandStep == ASSUME IInv, [Next]_vars PROVE HandInv' /\ StopInv'
<1>0. TypeOK /\ RingInv /\ HandInv /\ StopInv
  BY DEF IInv
<1> USE DEF HandInv, StopInv, ring, decoder
<1>1. ASSUME NEW p \in Pictures, Decode(p) PROVE HandInv' /\ StopInv'
  <2>1. content'[p] = frame_count + 1 /\ frame' = p /\ p # NoPicture
    BY <1>0, <1>1, Bounds DEF Decode, TypeOK
  <2>2. frame_count + 1 # 0
    BY <1>0, RingArith
  <2> QED
    BY <1>0, <1>1, <2>1, <2>2 DEF Decode
<1>2. CASE Clone \/ CloneFails
  BY <1>0, <1>2 DEF Clone, CloneFails
<1>3. CASE PushWait \/ PushRefused \/ PushStore
  BY <1>0, <1>3 DEF PushWait, PushRefused, PushStore
<1>5. CASE DecoderStop \/ Quit
  BY <1>0, <1>5 DEF DecoderStop, Quit, Stop
<1>6. CASE TakeFront
  BY <1>0, <1>6, TakeFrontFacts, Bounds
<1>7. ASSUME mainPc # "render", Ends \/ PopBegin \/ PopWait PROVE HandInv' /\ StopInv'
  BY <1>0, <1>7 DEF Ends, EndOfFrames, PopBegin, PopWait
<1>8. CASE FreeFrame
  BY <1>0, <1>8 DEF FreeFrame, Nothing
<1>9. CASE Destroy
  BY <1>0, <1>9 DEF Destroy
<1>10. ASSUME NEW t \in {"decoder", "main"}, SpuriousWakeup(t) PROVE HandInv' /\ StopInv'
  BY <1>0, <1>10 DEF SpuriousWakeup
<1>11. CASE UNCHANGED vars
  BY <1>0, <1>11 DEF vars
<1> QED
  BY <1>1, <1>2, <1>3, <1>5, <1>6, <1>7, <1>8, <1>9, <1>10, <1>11
     DEF Next, DecoderStep, MainStep, Finished, TryPopTake, TryPopEnd, PopTake, PopEnd,
         PopBegin, PopWait, Awake

-----------------------------------------------------------------------------
(* What Push and Pop do to the ring.                                       *)

LEMMA RingStep == ASSUME IInv, [Next]_vars PROVE RingInv'
<1>0. TypeOK /\ RingInv /\ HandInv
  BY DEF IInv
<1>1. CASE UNCHANGED <<frames, frame_index, front, rear, count>>
  BY <1>0, <1>1 DEF RingInv, SlotOf, Offset
<1>2. CASE PushStore
  <2>1. HasRoom /\ front' = front /\ count' = count + 1 /\ rear' = NextSlot(rear)
    BY <1>2 DEF PushStore
  <2>2. clone # NoPicture /\ frame_count # 0
    BY <1>0, <1>2 DEF PushStore, HandInv
  <2>3. /\ frames' = [frames EXCEPT ![rear] = clone]
        /\ frame_index' = [frame_index EXCEPT ![rear] = frame_count]
    BY <1>2 DEF PushStore
  <2>4. rear' = SlotOf(count)'
    BY <1>0, <2>1, RearOffset DEF SlotOf
  <2>5. ASSUME NEW s \in Slots
        PROVE  /\ frames'[s] # NoPicture <=> Offset(s)' < count'
               /\ frames'[s] # NoPicture => frame_index'[s] # 0
    <3>1. Offset(s)' = Offset(s) /\ Offset(s) \in Int
      BY <1>0, <2>1, RingArith DEF Offset
    <3>2. CASE s = rear
      BY <1>0, <2>1, <2>2, <2>3, <3>1, <3>2, RearOffset, RingArith DEF TypeOK
    <3>3. CASE s # rear
      <4>1. frames'[s] = frames[s] /\ frame_index'[s] = frame_index[s] /\ Offset(s) # count
        BY <1>0, <2>1, <2>3, <3>3, RearOffset DEF TypeOK
      <4> QED
        BY <1>0, <2>1, <3>1, <4>1, RingArith DEF RingInv
    <3> QED
      BY <3>2, <3>3
  <2> QED
    BY <2>4, <2>5 DEF RingInv
<1>3. CASE TakeFront
  <2>1. /\ count > 0 /\ front \in Slots /\ count' = count - 1 /\ rear' = rear
        /\ front' = IF front + 1 = Capacity THEN 0 ELSE front + 1
        /\ frames' = [frames EXCEPT ![front] = NoPicture]
        /\ frame_index' = [frame_index EXCEPT ![front] = 0]
    BY <1>0, <1>3, TakeFrontFacts, NextSlotWraps
  <2>4. rear' = SlotOf(count)'
    BY <1>0, <2>1, RingArith DEF RingInv, SlotOf
  <2>5. ASSUME NEW s \in Slots
        PROVE  /\ frames'[s] # NoPicture <=> Offset(s)' < count'
               /\ frames'[s] # NoPicture => frame_index'[s] # 0
    <3>1. CASE s = front
      <4>1. frames'[s] = NoPicture
        BY <1>0, <2>1, <3>1 DEF TypeOK
      <4>2. Offset(s)' = Capacity - 1
        BY <1>0, <2>1, <3>1, RingArith DEF Offset
      <4> QED
        BY <1>0, <2>1, <4>1, <4>2, RingArith
    <3>2. CASE s # front
      <4>1. frames'[s] = frames[s] /\ frame_index'[s] = frame_index[s]
        BY <1>0, <2>1, <3>2 DEF TypeOK
      <4>2. Offset(s)' = Offset(s) - 1 /\ Offset(s) \in Int
        BY <1>0, <2>1, <3>2, RingArith DEF Offset
      <4> QED
        BY <1>0, <2>1, <4>1, <4>2, RingArith DEF RingInv
    <3> QED
      BY <3>1, <3>2
  <2> QED
    BY <2>4, <2>5 DEF RingInv
<1>4. CASE Destroy
  <2>1. front' = 0 /\ rear' = 0 /\ count' = 0 /\ frames' = [s \in Slots |-> NoPicture]
    BY <1>4 DEF Destroy
  <2>2. \A s \in Slots : Offset(s)' \in Nat
    BY <1>0, <2>1, RingArith DEF Offset
  <2>3. SlotOf(count)' = 0
    BY <1>0, <2>1, RingArith DEF SlotOf
  <2> QED
    BY <2>1, <2>2, <2>3 DEF RingInv
<1> QED
  BY <1>1, <1>2, <1>3, <1>4
     DEF Next, DecoderStep, MainStep, Finished, TryPopTake, TryPopEnd, PopTake, PopEnd,
         PopBegin, PopWait, Ends, Decode, Clone, CloneFails, PushWait, PushRefused,
         DecoderStop, FreeFrame, Quit, SpuriousWakeup, vars, ring

-----------------------------------------------------------------------------
(* Reference counts.                                                       *)

One(b) == IF b THEN 1 ELSE 0

HandCounts ==
    \A p : Cardinality(HandsWith(p)) =
               One(frame = p) + One(clone = p) + One(decoded.frame = p)

LEMMA HandsCounted == HandCounts
<1> SUFFICES ASSUME NEW p
             PROVE  Cardinality(HandsWith(p)) =
                        One(frame = p) + One(clone = p) + One(decoded.frame = p)
  BY DEF HandCounts
<1> DEFINE A == IF frame = p THEN {"decoder"} ELSE {}
           B == IF clone = p THEN A \cup {"push"} ELSE A
           C == IF decoded.frame = p THEN B \cup {"main"} ELSE B
<1>1. HandsWith(p) = C
  BY DEF HandsWith
<1>2. IsFiniteSet(A) /\ Cardinality(A) = One(frame = p) /\ "push" \notin A
  BY FS_EmptySet, FS_Singleton DEF One
<1>3. IsFiniteSet(B) /\ Cardinality(B) = One(frame = p) + One(clone = p) /\ "main" \notin B
  <2>1. CASE clone = p
    <3>1. IsFiniteSet(A \cup {"push"}) /\ Cardinality(A \cup {"push"}) = Cardinality(A) + 1
      BY <1>2, FS_AddElement
    <3> QED
      BY <1>2, <2>1, <3>1 DEF One
  <2>2. CASE clone # p
    BY <1>2, <2>2 DEF One
  <2> QED
    BY <2>1, <2>2
<1>4. Cardinality(C) = One(frame = p) + One(clone = p) + One(decoded.frame = p)
  <2> HIDE DEF B
  <2>1. CASE decoded.frame = p
    <3>1. Cardinality(B \cup {"main"}) = Cardinality(B) + 1
      BY <1>3, FS_AddElement
    <3> QED
      BY <1>3, <2>1, <3>1 DEF One
  <2>2. CASE decoded.frame # p
    BY <1>3, <2>2 DEF One
  <2> QED
    BY <2>1, <2>2
<1> QED
  BY <1>1, <1>4

LEMMA HandsCountedNext == HandCounts'
BY HandsCounted, PTL

LEMMA SlotFilled ==
    ASSUME NEW r \in Slots, NEW q \in Pictures, TypeOK,
           frames[r] = NoPicture, frames' = [frames EXCEPT ![r] = q]
    PROVE  \A p \in Pictures :
               Cardinality(SlotsWith(p)') = Cardinality(SlotsWith(p)) + One(q = p)
<1> TAKE p \in Pictures
<1>1. IsFiniteSet(SlotsWith(p)) /\ Cardinality(SlotsWith(p)) \in Nat
  BY SlotsCounted
<1>2. CASE p = q
  <2>1. SlotsWith(p)' = SlotsWith(p) \cup {r} /\ r \notin SlotsWith(p)
    BY <1>2, Bounds DEF SlotsWith, TypeOK
  <2> QED
    BY <1>1, <1>2, <2>1, FS_AddElement DEF One
<1>3. CASE p # q
  <2>1. SlotsWith(p)' = SlotsWith(p)
    BY <1>3, Bounds DEF SlotsWith, TypeOK
  <2> QED
    BY <1>1, <1>3, <2>1 DEF One
<1> QED
  BY <1>2, <1>3

LEMMA SlotEmptied ==
    ASSUME NEW r \in Slots, TypeOK, frames' = [frames EXCEPT ![r] = NoPicture]
    PROVE  \A p \in Pictures :
               Cardinality(SlotsWith(p)') = Cardinality(SlotsWith(p)) - One(frames[r] = p)
<1> TAKE p \in Pictures
<1>1. IsFiniteSet(SlotsWith(p)) /\ Cardinality(SlotsWith(p)) \in Nat
  BY SlotsCounted
<1>2. SlotsWith(p)' = SlotsWith(p) \ {r}
  BY Bounds DEF SlotsWith, TypeOK
<1>3. r \in SlotsWith(p) <=> frames[r] = p
  BY DEF SlotsWith
<1>4. CASE frames[r] = p
  BY <1>1, <1>2, <1>3, <1>4, FS_RemoveElement DEF One
<1>5. CASE frames[r] # p
  <2>1. SlotsWith(p)' = SlotsWith(p)
    BY <1>2, <1>3, <1>5
  <2> QED
    BY <1>1, <1>5, <2>1 DEF One
<1> QED
  BY <1>4, <1>5

LEMMA RefsStep == ASSUME IInv, [Next]_vars PROVE RefsExact'
<1>0. TypeOK /\ RingInv /\ HandInv /\ RefsExact
  BY DEF IInv
<1> DEFINE Slotted(p) == Cardinality(SlotsWith(p))
           Handed(p)  == One(frame = p) + One(clone = p) + One(decoded.frame = p)
<1>a. \A p \in Pictures : Slotted(p) \in Nat /\ refs[p] = Slotted(p) + Handed(p) /\ p # NoPicture
  BY <1>0, HandsCounted, SlotsCounted, Bounds DEF RefsExact, HandCounts
<1>b. SUFFICES ASSUME NEW p \in Pictures PROVE refs'[p] = Slotted(p)' + Handed(p)'
  BY HandsCountedNext DEF RefsExact, HandCounts, One
<1>c. frames' = frames => Slotted(p)' = Slotted(p)
  BY DEF SlotsWith
<1> HIDE DEF Slotted
<1> USE DEF One
<1>d. ASSUME NEW new, NEW gone, refs' = Counts(new, gone)
      PROVE  refs'[p] = refs[p] + One(p = new) - One(p = gone)
  BY <1>d DEF Counts
<1>1. ASSUME NEW q \in Pictures, Decode(q) PROVE refs'[p] = Slotted(p)' + Handed(p)'
  <2>1. refs'[p] = refs[p] + One(p = q) - One(p = frame)
    BY <1>1, <1>d DEF Decode
  <2> QED
    BY <1>1, <1>a, <1>c, <2>1 DEF Decode, ring
<1>2. CASE Clone
  <2>1. refs'[p] = refs[p] + One(p = frame) - One(p = NoPicture)
    BY <1>2, <1>d DEF Clone
  <2>2. clone = NoPicture
    BY <1>0, <1>2 DEF Clone, HandInv
  <2> QED
    BY <1>2, <1>a, <1>c, <2>1, <2>2 DEF Clone, ring, decoder
<1>3. CASE PushRefused
  <2>1. refs'[p] = refs[p] + One(p = NoPicture) - One(p = clone)
    BY <1>3, <1>d DEF PushRefused
  <2> QED
    BY <1>3, <1>a, <1>c, <2>1 DEF PushRefused, ring, decoder
<1>4. CASE PushStore
  <2>1. /\ rear \in Slots /\ clone \in Pictures /\ frames[rear] = NoPicture
        /\ frames' = [frames EXCEPT ![rear] = clone]
    BY <1>0, <1>4, RearOffset DEF PushStore, HandInv, TypeOK
  <2>2. Slotted(p)' = Slotted(p) + One(clone = p)
    BY <1>0, <2>1, SlotFilled DEF Slotted
  <2> QED
    BY <1>4, <1>a, <2>2 DEF PushStore, decoder
<1>5. ASSUME TakeFront, mainPc # "render" PROVE refs'[p] = Slotted(p)' + Handed(p)'
  <2>1. Slotted(p)' = Slotted(p) - One(frames[front] = p)
    BY <1>0, <1>5, TakeFrontFacts, SlotEmptied DEF Slotted
  <2>2. decoded.frame = NoPicture /\ decoded'.frame = frames[front]
        /\ UNCHANGED <<refs, frame, clone>>
    BY <1>0, <1>5, TakeFrontFacts DEF HandInv
  <2> QED
    BY <1>a, <2>1, <2>2
<1>6. CASE FreeFrame
  <2>1. refs'[p] = refs[p] + One(p = NoPicture) - One(p = decoded.frame)
    BY <1>6, <1>d DEF FreeFrame
  <2> QED
    BY <1>6, <1>a, <1>c, <2>1 DEF FreeFrame, Nothing, ring, decoder
<1>7. CASE Destroy
  <2>1. clone = NoPicture /\ decoded.frame = NoPicture
    BY <1>0, <1>7 DEF Destroy, HandInv
  <2>2. refs'[p] = refs[p] - One(p = frame) - Slotted(p)
    BY <1>7 DEF Destroy, CountsAfterDestroy, Slotted, SlotsWith
  <2>3. Slotted(p)' = 0
    <3>1. SlotsWith(p)' = {}
      BY <1>7, <1>a DEF Destroy, SlotsWith
    <3> QED
      BY <3>1, FS_EmptySet DEF Slotted
  <2> QED
    BY <1>7, <1>a, <2>1, <2>2, <2>3 DEF Destroy
<1>8. CASE UNCHANGED <<frames, refs, frame, clone, decoded>>
  BY <1>8, <1>a, <1>c
<1> QED
  BY <1>1, <1>2, <1>3, <1>4, <1>5, <1>6, <1>7, <1>8
     DEF Next, DecoderStep, MainStep, Finished, TryPopTake, TryPopEnd, PopTake, PopEnd,
         PopBegin, PopWait, Ends, Awake, CloneFails, PushWait, DecoderStop, Quit,
         SpuriousWakeup, vars, ring, decoder

-----------------------------------------------------------------------------
(* Pictures in the queue and on the screen stay as they are.               *)

\* FFmpeg decodes only into pictures no slot and no frame on screen refers to.
LEMMA DecodedIsFree ==
    ASSUME TypeOK, RefsExact, NEW p \in Pictures, Decode(p)
    PROVE  (\A s \in Slots : frames[s] # p) /\ decoded.frame # p
<1>1. /\ IsFiniteSet(SlotsWith(p)) /\ Cardinality(SlotsWith(p)) \in Nat
      /\ refs[p] = Cardinality(SlotsWith(p))
                   + (One(frame = p) + One(clone = p) + One(decoded.frame = p))
  BY SlotsCounted, HandsCounted DEF RefsExact, HandCounts
<1>2. refs[p] = 0 \/ (refs[p] = 1 /\ p = frame)
  BY DEF Decode
<1>3. Cardinality(SlotsWith(p)) = 0 /\ decoded.frame # p
  BY <1>1, <1>2 DEF One
<1> QED
  BY <1>1, <1>3, FS_EmptySet DEF SlotsWith

LEMMA IntactStep == ASSUME IInv, [Next]_vars PROVE FrameIntact'
<1>0. TypeOK /\ RingInv /\ HandInv /\ RefsExact /\ FrameIntact
  BY DEF IInv
<1> USE DEF FrameIntact
<1>1. ASSUME NEW p \in Pictures, Decode(p) PROVE FrameIntact'
  BY <1>0, <1>1, DecodedIsFree DEF Decode, ring, TypeOK
<1>2. CASE PushStore
  <2>1. clone \in Pictures /\ content[clone] = frame_count
    BY <1>0, <1>2 DEF PushStore, HandInv, TypeOK
  <2> QED
    BY <1>0, <1>2, <2>1 DEF PushStore, decoder, TypeOK
<1>3. CASE TakeFront
  <2>1. content[frames[front]] = frame_index[front]
    BY <1>0, <1>3, FrontOccupied, Bounds DEF TakeFront
  <2> QED
    BY <1>0, <1>3, <2>1, TakeFrontFacts, Bounds DEF TypeOK
<1>4. CASE FreeFrame
  BY <1>0, <1>4 DEF FreeFrame, Nothing, ring, decoder
<1>5. CASE Destroy
  BY <1>0, <1>5 DEF Destroy
<1>6. CASE UNCHANGED <<frames, frame_index, content, decoded>>
  BY <1>0, <1>6
<1> QED
  BY <1>1, <1>2, <1>3, <1>4, <1>5, <1>6
     DEF Next, DecoderStep, MainStep, Finished, TryPopTake, TryPopEnd, PopTake, PopEnd,
         PopBegin, PopWait, Ends, Clone, CloneFails, PushWait, PushRefused, DecoderStop,
         Quit, SpuriousWakeup, vars, ring, decoder

-----------------------------------------------------------------------------
(* The invariants.                                                         *)

LEMMA InvStep == ASSUME IInv, [Next]_vars PROVE IInv'
BY TypeStep, HandStep, RingStep, RefsStep, IntactStep DEF IInv

LEMMA Invariant == Spec => []IInv
<1>1. Init => IInv
  BY InvInit
<1>2. IInv /\ [Next]_vars => IInv'
  BY InvStep
<1> QED
  BY <1>1, <1>2, PTL DEF Spec

\* Every variable keeps its type.
THEOREM TypeCorrect == Spec => []TypeOK
<1>1. IInv => TypeOK
  BY DEF IInv
<1> QED
  BY <1>1, Invariant, PTL

\* av_frame_clone and every av_frame_unref and av_frame_free balance: nobody's
\* picture is freed twice and none is kept.
THEOREM RefsAreExact == Spec => []RefsExact
<1>1. IInv => RefsExact
  BY DEF IInv
<1> QED
  BY <1>1, Invariant, PTL

\* A frame in the queue or on its way to the screen is never decoded into.
THEOREM FramesStayIntact == Spec => []FrameIntact
<1>1. IInv => FrameIntact
  BY DEF IInv
<1> QED
  BY <1>1, Invariant, PTL

-----------------------------------------------------------------------------
(* The frames between front and rear are the content of a StopChannel.     *)

Content == [i \in 1 .. count |-> frame_index[SlotOf(i - 1)]]

ContentFacts ==
    /\ Content \in Seq(1 .. MaxFrames)
    /\ Len(Content) = count
    /\ \A i \in 1 .. count : Content[i] = frame_index[SlotOf(i - 1)]

LEMMA ContentIsSeq == TypeOK /\ RingInv => ContentFacts
<1> SUFFICES ASSUME TypeOK, RingInv PROVE ContentFacts
  OBVIOUS
<1>1. ASSUME NEW i \in 1 .. count PROVE frame_index[SlotOf(i - 1)] \in 1 .. MaxFrames
  <2>1. SlotOf(i - 1) \in Slots
    BY RingArith DEF SlotOf, Slots
  <2>2. Offset(SlotOf(i - 1)) < count
    BY RingArith DEF SlotOf, Offset
  <2>3. frame_index[SlotOf(i - 1)] \in 0 .. MaxFrames /\ frame_index[SlotOf(i - 1)] # 0
    BY <2>1, <2>2 DEF RingInv, TypeOK
  <2> QED
    BY <2>3, Bounds
<1>2. Content \in [1 .. count -> 1 .. MaxFrames]
  BY <1>1 DEF Content
<1>3. count \in Nat
  BY RingArith
<1>4. Content \in Seq(1 .. MaxFrames)
  BY <1>2, <1>3, SeqDef
<1>5. Len(Content) = count
  BY <1>2, <1>3, <1>4, LenProperties
<1> QED
  BY <1>4, <1>5 DEF Content, ContentFacts

LEMMA ContentIsSeqNext == TypeOK' /\ RingInv' => ContentFacts'
BY ContentIsSeq, PTL

LEMMA PushSends ==
    ASSUME IInv, IInv', PushStore
    PROVE  Chan!Next
<1>0. TypeOK /\ RingInv /\ TypeOK' /\ RingInv'
  BY DEF IInv
<1>1. /\ HasRoom /\ ~stop /\ stop' = stop /\ count' = count + 1 /\ front' = front
      /\ frame_index' = [frame_index EXCEPT ![rear] = frame_count]
  BY DEF PushStore
<1>2. frame_count \in 1 .. MaxFrames
  BY Bounds DEF PushStore, IInv, HandInv, TypeOK
<1>3. Len(Content) = count /\ count < Capacity /\ Content \in Seq(1 .. MaxFrames)
  BY <1>0, <1>1, ContentIsSeq, RingArith DEF HasRoom, ContentFacts
<1>4. Content' \in Seq(1 .. MaxFrames) /\ Len(Content') = count + 1
      /\ \A i \in 1 .. count + 1 : Content'[i] = frame_index'[SlotOf(i - 1)']
  BY <1>0, <1>1, ContentIsSeqNext DEF ContentFacts
<1>5. Append(Content, frame_count) \in Seq(1 .. MaxFrames)
      /\ Len(Append(Content, frame_count)) = count + 1
      /\ \A i \in 1 .. count : Append(Content, frame_count)[i] = Content[i]
      /\ Append(Content, frame_count)[count + 1] = frame_count
  BY <1>2, <1>3, AppendProperties
<1>6. ASSUME NEW i \in 1 .. count + 1
      PROVE  Content'[i] = Append(Content, frame_count)[i]
  <2>1. SlotOf(i - 1)' = SlotOf(i - 1) /\ SlotOf(i - 1) \in Slots /\ rear \in Slots
    <3>1. i \in Int /\ 1 <= i /\ i <= Capacity
      BY <1>0, <1>3, RingArith
    <3>2. SlotOf(i - 1) \in Slots
      BY <1>0, <3>1, RingArith DEF SlotOf, Slots
    <3>3. SlotOf(i - 1)' = SlotOf(i - 1)
      BY <1>1 DEF SlotOf
    <3> QED
      BY <1>0, <3>2, <3>3 DEF TypeOK
  <2>2. CASE i = count + 1
    <3>1. SlotOf(i - 1) = rear
      BY <1>0, <2>2, RingArith DEF RingInv
    <3> QED
      BY <1>0, <1>1, <1>4, <1>5, <2>1, <2>2, <3>1 DEF TypeOK
  <2>3. CASE i \in 1 .. count
    <3>1. SlotOf(i - 1) # rear
      BY <1>0, <1>3, <2>3, RingArith DEF RingInv, SlotOf
    <3>2. frame_index'[SlotOf(i - 1)] = frame_index[SlotOf(i - 1)]
      BY <1>0, <1>1, <2>1, <3>1 DEF TypeOK
    <3> QED
      BY <1>0, <1>4, <1>5, <2>1, <2>3, <3>2, ContentIsSeq DEF ContentFacts
  <2>4. i = count + 1 \/ i \in 1 .. count
    BY <1>0, RingArith
  <2> QED
    BY <2>2, <2>3, <2>4
<1>7. Content' = Append(Content, frame_count)
  BY <1>4, <1>5, <1>6, SeqEqual
<1> QED
  BY <1>1, <1>2, <1>3, <1>7 DEF Chan!Next, Chan!Send, Content

LEMMA TakeReceives ==
    ASSUME IInv, IInv', TakeFront
    PROVE  Chan!Next
<1>0. TypeOK /\ RingInv /\ TypeOK' /\ RingInv'
  BY DEF IInv
<1>1. /\ stop' = stop /\ count' = count - 1 /\ front \in Slots /\ count > 0
      /\ front' = IF front + 1 = Capacity THEN 0 ELSE front + 1
      /\ frame_index' = [frame_index EXCEPT ![front] = 0]
  BY <1>0, TakeFrontFacts, NextSlotWraps
<1>3. Content \in Seq(1 .. MaxFrames) /\ Len(Content) = count
      /\ \A i \in 1 .. count : Content[i] = frame_index[SlotOf(i - 1)]
  BY <1>0, ContentIsSeq DEF ContentFacts
<1>4. Content # << >>
  BY <1>1, <1>3, EmptySeq
<1>5. Tail(Content) \in Seq(1 .. MaxFrames) /\ Len(Tail(Content)) = count - 1
      /\ \A i \in 1 .. count - 1 : Tail(Content)[i] = Content[i + 1]
  BY <1>3, <1>4, HeadTailProperties
<1>6. Content' \in Seq(1 .. MaxFrames) /\ Len(Content') = count - 1
      /\ \A i \in 1 .. count - 1 : Content'[i] = frame_index'[SlotOf(i - 1)']
  BY <1>0, <1>1, ContentIsSeqNext DEF ContentFacts
<1>7. ASSUME NEW i \in 1 .. count - 1
      PROVE  Content'[i] = Tail(Content)[i]
  <2>1. SlotOf(i - 1)' = SlotOf(i) /\ SlotOf(i) \in Slots /\ SlotOf(i) # front
    BY <1>0, <1>1, RingArith DEF SlotOf, Slots
  <2>2. frame_index'[SlotOf(i)] = frame_index[SlotOf(i)]
    BY <1>0, <1>1, <2>1 DEF TypeOK
  <2>3. i + 1 \in 1 .. count /\ (i + 1) - 1 = i
    BY <1>0, RingArith
  <2>4. Content[i + 1] = frame_index[SlotOf(i)]
    BY <1>3, <2>3
  <2> QED
    BY <1>5, <1>6, <2>1, <2>2, <2>4
<1>8. Content' = Tail(Content)
  BY <1>5, <1>6, <1>7, SeqEqual
<1> QED
  BY <1>1, <1>4, <1>8 DEF Chan!Next, Chan!Receive, Content

\* The frame queue implements the abstract closable FIFO channel of frame numbers.
THEOREM ImplementsChannel == Spec => RefinesChannel
<1>1. Init => Chan!Init
  <2> SUFFICES ASSUME Init PROVE Chan!Init
    OBVIOUS
  <2>1. TypeOK /\ RingInv /\ count = 0 /\ stop = FALSE
    BY InvInit DEF IInv, Init
  <2>2. Content = << >>
    BY <2>1, ContentIsSeq, EmptySeq DEF ContentFacts
  <2> QED
    BY <2>1, <2>2 DEF Chan!Init, Content
<1>2. IInv /\ IInv' /\ [Next]_vars => [Chan!Next]_(Chan!vars)
  <2> SUFFICES ASSUME IInv, IInv', [Next]_vars PROVE [Chan!Next]_(Chan!vars)
    OBVIOUS
  <2>1. CASE UNCHANGED <<frame_index, front, count, stop>>
    BY <2>1 DEF Chan!vars, SlotOf
  <2>2. CASE PushStore
    BY <2>2, PushSends
  <2>3. CASE TakeFront
    BY <2>3, TakeReceives
  <2>4. CASE DecoderStop \/ Quit
    BY <2>4 DEF DecoderStop, Quit, Stop, Chan!Next, Chan!Close, SlotOf
  <2>5. CASE Destroy
    <3>1. stop /\ stop' /\ count' = 0
      BY <2>5 DEF Destroy, IInv, StopInv
    <3>2. Content' = << >>
      BY <3>1, ContentIsSeqNext, EmptySeq DEF IInv, ContentFacts
    <3> QED
      BY <3>1, <3>2 DEF Chan!Next, Chan!Discard, IInv, TypeOK, Content
  <2> QED
    BY <2>1, <2>2, <2>3, <2>4, <2>5
       DEF Next, DecoderStep, MainStep, Finished, TryPopTake, TryPopEnd, PopTake, PopEnd,
           PopBegin, PopWait, Ends, Decode, Clone, CloneFails, PushWait, PushRefused,
           FreeFrame, SpuriousWakeup, vars, ring
<1> QED
  BY <1>1, <1>2, Invariant, PTL DEF Spec, RefinesChannel, Chan!Spec
=============================================================================
