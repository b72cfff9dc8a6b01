------------------------- MODULE PacketQueue_proofs -------------------------
(***************************************************************************)
(* Proofs about PacketQueue for any number of producers and consumers, any *)
(* capacity, any number of packets and spurious wakeups.                   *)
(***************************************************************************)
EXTENDS PacketQueue, FiniteSetTheorems, SequenceTheorems, TLAPS

(***************************************************************************)
(* What the inductive invariant needs beyond the properties: which thread  *)
(* may be where, which local variables hold a packet, and that main joins  *)
(* only after it stopped the queue.                                        *)
(***************************************************************************)
PushLabels == {"push lock", "pushing", "dropping"}
PopLabels  == {"pop lock", "popping", "using"}

RoleInv ==
    /\ \A t \in Threads :
          /\ pc[t] \in PushLabels => t \in Producers
          /\ pc[t] \in PopLabels => t \in Consumers
          /\ pc[t] \in {"stop lock", "stopping"} => t \in Producers \cup {Owner}
          /\ pc[t] = "joining" => t = Owner
    /\ pc[Owner] \in {"joining", "done"} => stop

HoldInv ==
    \A t \in Threads :
        mine[t] # NoPacket <=> pc[t] \in {"push lock", "pushing", "dropping", "using"}

IInv == TypeOK /\ RoleInv /\ MutexInv /\ HoldInv /\ RingInv /\ OwnInv

-----------------------------------------------------------------------------
(* The remainder operator of the code is a wrap-around step on the ring.    *)
LEMMA NextSlotWraps ==
    ASSUME NEW s \in Slots
    PROVE  NextSlot(s) = IF s + 1 = Capacity THEN 0 ELSE s + 1
BY QueueAssumption DEF Slots, NextSlot

(* Which steps touch the ring, and which touch the heap and the pointers.   *)
LEMMA RingSteps ==
    ASSUME [Next]_vars
    PROVE  \/ UNCHANGED ring
           \/ \E t \in Threads : PushStore(t) \/ PopTake(t) \/ StopBody(t)
           \/ Destroy
BY DEF Next, Running, vars, ring, PushBegin, PushLock, PushWait, PushRefused,
       DropRefused, PopBegin, PopLock, PopWait, PopEnd, FreePacket, StopBegin,
       StopLock, SpuriousWakeup, Finished, Acquire

LEMMA MemorySteps ==
    ASSUME [Next]_vars
    PROVE  \/ UNCHANGED <<packets, memory>>
           \/ \E t \in Producers : PushBegin(t)
           \/ \E t \in Threads : \/ DropRefused(t) \/ PushStore(t)
                                 \/ PopTake(t) \/ FreePacket(t)
           \/ Destroy
BY DEF Next, Running, vars, ring, memory, PushLock, PushWait, PushRefused,
       PopBegin, PopLock, PopWait, PopEnd, StopBegin, StopLock, StopBody,
       SpuriousWakeup, Finished, Acquire

-----------------------------------------------------------------------------
LEMMA TypeInit == ASSUME Init PROVE TypeOK
<1>1. pc \in [Threads -> Labels]
  <2>1. PICK gone \in {{}, Consumers} :
           pc = [t \in Threads |-> IF t \in gone THEN "done" ELSE "idle"]
    BY DEF Init
  <2> QED
    BY <2>1 DEF Labels
<1>2. front \in Slots /\ rear \in Slots /\ count \in 0 .. Capacity
  BY QueueAssumption DEF Init, Slots
<1>3. packets \in [Slots -> Packets \cup {NoPacket}]
  BY DEF Init
<1>4. mine \in [Threads -> Packets \cup {NoPacket}]
  BY DEF Init
<1>5. allocated \in 0 .. MaxPackets /\ spurious \in 0 .. MaxSpurious
  BY QueueAssumption DEF Init
<1>6. heap \subseteq Packets /\ notEmpty \subseteq Threads /\ notFull \subseteq Threads
  BY DEF Init
<1>7. stop \in BOOLEAN /\ mutex \in Threads \cup {NoThread}
  BY DEF Init
<1> QED
  BY <1>1, <1>2, <1>3, <1>4, <1>5, <1>6, <1>7 DEF TypeOK

(* A ring step keeps the indices in range and the count within the capacity. *)
LEMMA TypeStep ==
    ASSUME TypeOK, [Next]_vars
    PROVE  TypeOK'
<1> USE DEF TypeOK
<1>1. CASE UNCHANGED vars
  BY <1>1 DEF vars
<1>2. ASSUME NEW t \in Producers, PushBegin(t) PROVE TypeOK'
  <2>1. allocated \in 0 .. MaxPackets /\ allocated < MaxPackets /\ MaxPackets \in Nat
    <3>1. allocated \in 0 .. MaxPackets
      OBVIOUS
    <3>2. allocated < MaxPackets
      BY <1>2 DEF PushBegin
    <3>3. MaxPackets \in Nat
      BY QueueAssumption 
    <3> QED BY <3>1, <3>2, <3>3
  <2>2. t \in Threads
    BY DEF Threads
  <2>3. allocated + 1 \in Packets /\ allocated + 1 \in 0 .. MaxPackets
    BY <2>1 DEF Packets
  <2> QED
    BY <1>2, <2>2, <2>3 DEF PushBegin, Goto, Labels, ring
<1>3. ASSUME NEW t \in Threads, PushLock(t) \/ PopLock(t) \/ StopLock(t)
      PROVE  TypeOK'
  BY <1>3 DEF PushLock, PopLock, StopLock, Acquire, Goto, Labels, ring, memory
<1>4. ASSUME NEW t \in Threads, PushWait(t) \/ PopWait(t) PROVE TypeOK'
  BY <1>4 DEF PushWait, PopWait, Unlock, Goto, Labels, ring, memory
<1>5. ASSUME NEW t \in Threads, PushRefused(t) \/ PopEnd(t) PROVE TypeOK'
  BY <1>5 DEF PushRefused, PopEnd, Unlock, Goto, Labels, ring, memory
<1>6. ASSUME NEW t \in Threads, DropRefused(t) \/ FreePacket(t) PROVE TypeOK'
  BY <1>6 DEF DropRefused, FreePacket, Goto, Labels, ring
<1>7. ASSUME NEW t \in Threads, PushStore(t) PROVE TypeOK'
  <2>1. rear' \in Slots
    BY <1>7, NextSlotWraps, QueueAssumption DEF PushStore, Slots
  <2>2. count' \in 0 .. Capacity
    BY <1>7, QueueAssumption DEF PushStore, Full
  <2>3. packets' \in [Slots -> Packets \cup {NoPacket}]
    BY <1>7 DEF PushStore
  <2>4. notEmpty' \subseteq Threads
    BY <1>7 DEF PushStore, SignalNotEmpty
  <2> QED
    BY <1>7, <2>1, <2>2, <2>3, <2>4 DEF PushStore, Unlock, Goto, Labels
<1>8. ASSUME NEW t \in Threads, PopTake(t) PROVE TypeOK'
  <2>1. front' \in Slots
    BY <1>8, NextSlotWraps, QueueAssumption DEF PopTake, Slots
  <2>2. count' \in 0 .. Capacity
    BY <1>8, QueueAssumption DEF PopTake, Empty
  <2>3. packets' \in [Slots -> Packets \cup {NoPacket}] /\ mine' \in [Threads -> Packets \cup {NoPacket}]
    BY <1>8 DEF PopTake, TakeFront
  <2>4. notFull' \subseteq Threads
    BY <1>8 DEF PopTake, SignalNotFull
  <2> QED
    BY <1>8, <2>1, <2>2, <2>3, <2>4 DEF PopTake, Unlock, Goto, Labels
<1>9. ASSUME NEW t \in Threads, PopBegin(t) \/ StopBegin(t) PROVE TypeOK'
  BY <1>9 DEF PopBegin, StopBegin, Goto, Labels, ring, memory
<1>10. ASSUME NEW t \in Threads, StopBody(t) PROVE TypeOK'
  BY <1>10 DEF StopBody, WakeAll, Unlock, Goto, Labels, memory
<1>11. ASSUME NEW t \in Threads, SpuriousWakeup(t) PROVE TypeOK'
  BY <1>11, QueueAssumption DEF SpuriousWakeup, ring, memory
<1>12. CASE Destroy
  <2>1. packets' \in [Slots -> Packets \cup {NoPacket}]
    BY <1>12 DEF Destroy
  <2>2. front' \in Slots /\ rear' \in Slots /\ count' \in 0 .. Capacity
    BY <1>12, QueueAssumption DEF Destroy, Slots
  <2> QED
    BY <1>12, <2>1, <2>2 DEF Destroy, Goto, Labels
<1> QED
  BY <1>1, <1>2, <1>3, <1>4, <1>5, <1>6, <1>7, <1>8, <1>9, <1>10, <1>11, <1>12
     DEF Next, Running, Finished, Threads

-----------------------------------------------------------------------------
(* Every thread stays in its role, and main is past its Stop when it joins. *)
LEMMA RoleStep ==
    ASSUME TypeOK, RoleInv, [Next]_vars
    PROVE  RoleInv'
<1> USE DEF RoleInv, TypeOK, PushLabels, PopLabels
<1>1. CASE UNCHANGED vars
  BY <1>1 DEF vars
<1>2. ASSUME NEW t \in Producers, PushBegin(t) PROVE RoleInv'
  BY <1>2, QueueAssumption DEF PushBegin, Goto, ring, Threads
<1>3. ASSUME NEW t \in Threads, PushLock(t) \/ PopLock(t) \/ StopLock(t)
      PROVE  RoleInv'
  BY <1>3 DEF PushLock, PopLock, StopLock, Acquire, Goto, ring, Threads
<1>4. ASSUME NEW t \in Threads, PushWait(t) \/ PopWait(t) PROVE RoleInv'
  BY <1>4 DEF PushWait, PopWait, Goto, ring, Threads
<1>5. ASSUME NEW t \in Threads, PushRefused(t) \/ PopEnd(t) PROVE RoleInv'
  BY <1>5 DEF PushRefused, PopEnd, Goto, ring, Threads
<1>6. ASSUME NEW t \in Threads, DropRefused(t) PROVE RoleInv'
  BY <1>6 DEF DropRefused, Goto, ring, Threads
<1>13. ASSUME NEW t \in Threads, FreePacket(t) PROVE RoleInv'
  BY <1>13 DEF FreePacket, Goto, ring, Threads
<1>7. ASSUME NEW t \in Threads, PushStore(t) \/ PopTake(t) PROVE RoleInv'
  BY <1>7, QueueAssumption, ZenonT(60) DEF PushStore, PopTake, Goto, Threads
<1>8. ASSUME NEW t \in Consumers, PopBegin(t) PROVE RoleInv'
  BY <1>8, QueueAssumption DEF PopBegin, Goto, ring, Threads
<1>9. ASSUME NEW t \in Producers \cup {Owner}, StopBegin(t) PROVE RoleInv'
  BY <1>9 DEF StopBegin, Goto, ring, Threads
<1>10. ASSUME NEW t \in Threads, StopBody(t) PROVE RoleInv'
  BY <1>10 DEF StopBody, Goto, Threads
<1>11. ASSUME NEW t \in Threads, SpuriousWakeup(t) PROVE RoleInv'
  BY <1>11 DEF SpuriousWakeup, ring
<1>12. CASE Destroy
  BY <1>12 DEF Destroy, Goto, Threads
<1> QED
  BY <1>1, <1>2, <1>3, <1>4, <1>5, <1>6, <1>7, <1>8, <1>9, <1>10, <1>11, <1>12,
     <1>13      DEF Next, Running, Finished

(* The mutex is held by exactly the thread inside a critical section.       *)
LEMMA MutexStep ==
    ASSUME TypeOK, RoleInv, MutexInv, [Next]_vars
    PROVE  MutexInv'
<1> USE DEF MutexInv, TypeOK, PushLabels, PopLabels
<1>0. NoThread \notin Threads
  BY QueueAssumption
<1>1. CASE UNCHANGED vars
  BY <1>1 DEF vars
<1>2. ASSUME NEW t \in Producers, PushBegin(t) PROVE MutexInv'
  BY <1>2 DEF PushBegin, Goto, ring, Threads
<1>3. ASSUME NEW t \in Threads, PushLock(t) \/ PopLock(t) \/ StopLock(t)
      PROVE  MutexInv'
  BY <1>0, <1>3, ZenonT(60) DEF PushLock, PopLock, StopLock, Acquire, Goto
<1>4. ASSUME NEW t \in Threads, PushWait(t) \/ PopWait(t) PROVE MutexInv'
  BY <1>0, <1>4, ZenonT(60) DEF PushWait, PopWait, Unlock, Goto, RoleInv
<1>5. ASSUME NEW t \in Threads, PushRefused(t) \/ PopEnd(t) PROVE MutexInv'
  BY <1>0, <1>5 DEF PushRefused, PopEnd, Unlock, Goto
<1>6. ASSUME NEW t \in Threads, DropRefused(t) \/ FreePacket(t) PROVE MutexInv'
  BY <1>6 DEF DropRefused, FreePacket, Goto
<1>7. ASSUME NEW t \in Threads, PushStore(t) PROVE MutexInv'
  <2>1. notEmpty' \subseteq notEmpty /\ notFull' = notFull
    BY <1>7 DEF PushStore, SignalNotEmpty
  <2> QED
    BY <1>0, <1>7, <2>1 DEF PushStore, Unlock, Goto
<1>12. ASSUME NEW t \in Threads, PopTake(t) PROVE MutexInv'
  <2>1. notFull' \subseteq notFull /\ notEmpty' = notEmpty
    BY <1>12 DEF PopTake, SignalNotFull
  <2> QED
    BY <1>0, <1>12, <2>1 DEF PopTake, Unlock, Goto
<1>8. ASSUME NEW t \in Threads, PopBegin(t) \/ StopBegin(t) PROVE MutexInv'
  BY <1>8 DEF PopBegin, StopBegin, Goto
<1>9. ASSUME NEW t \in Threads, StopBody(t) PROVE MutexInv'
  BY <1>0, <1>9 DEF StopBody, WakeAll, Unlock, Goto
<1>10. ASSUME NEW t \in Threads, SpuriousWakeup(t) PROVE MutexInv'
  BY <1>10 DEF SpuriousWakeup
<1>11. CASE Destroy
  BY <1>11 DEF Destroy, Goto
<1> QED
  BY <1>1, <1>2, <1>3, <1>4, <1>5, <1>6, <1>7, <1>8, <1>9, <1>10, <1>11, <1>12
     DEF Next, Running, Finished, Threads

(* Blocks are numbered from 1 on.                                           *)
LEMMA BlockNumbers ==
    ASSUME TypeOK
    PROVE  /\ allocated \in Nat /\ allocated + 1 # NoPacket
           /\ \A b \in heap : b \in Nat
<1>1. MaxPackets \in Nat
  BY QueueAssumption
<1>2. allocated \in 0 .. MaxPackets /\ heap \subseteq 1 .. MaxPackets
  BY DEF TypeOK, Packets
<1> QED
  BY <1>1, <1>2 DEF NoPacket

(* A queue that is not empty has a packet at front.                          *)
LEMMA FrontOccupied ==
    ASSUME TypeOK, RingInv, ~Empty
    PROVE  packets[front] # NoPacket
<1>1. front \in Slots /\ count \in Nat /\ count # 0
  BY QueueAssumption DEF TypeOK, Empty
<1>2. front \in Int /\ Offset(front) = 0
  BY <1>1 DEF Offset, Slots
<1> QED
  BY <1>1, <1>2 DEF RingInv

(* A thread holds a packet from malloc until it is stored or freed, or from  *)
(* Pop until H264Packet_Free.                                                *)
LEMMA HoldStep ==
    ASSUME TypeOK, HoldInv, RingInv, [Next]_vars
    PROVE  HoldInv'
<1> USE DEF HoldInv, TypeOK
<1>1. CASE UNCHANGED vars
  BY <1>1 DEF vars
<1>2. ASSUME NEW t \in Producers, PushBegin(t) PROVE HoldInv'
  <2>1. allocated + 1 # NoPacket
    BY BlockNumbers
  <2> QED
    BY <1>2, <2>1 DEF PushBegin, Goto
<1>3. ASSUME NEW t \in Threads, PushLock(t) \/ PopLock(t) \/ StopLock(t)
      PROVE  HoldInv'
  BY <1>3 DEF PushLock, PopLock, StopLock, Acquire, Goto, memory
<1>4. ASSUME NEW t \in Threads, PushWait(t) \/ PopWait(t) PROVE HoldInv'
  BY <1>4 DEF PushWait, PopWait, Goto, memory
<1>5. ASSUME NEW t \in Threads, PushRefused(t) \/ PopEnd(t) PROVE HoldInv'
  BY <1>5 DEF PushRefused, PopEnd, Goto, memory
<1>6. ASSUME NEW t \in Threads, DropRefused(t) \/ FreePacket(t) PROVE HoldInv'
  BY <1>6 DEF DropRefused, FreePacket, Goto
<1>7. ASSUME NEW t \in Threads, PushStore(t) PROVE HoldInv'
  BY <1>7 DEF PushStore, Goto
<1>8. ASSUME NEW t \in Threads, PopTake(t) PROVE HoldInv'
  <2>1. packets[front] # NoPacket
    BY <1>8, FrontOccupied DEF PopTake
  <2> QED
    BY <1>8, <2>1 DEF PopTake, TakeFront, Goto
<1>9. ASSUME NEW t \in Threads, PopBegin(t) \/ StopBegin(t) PROVE HoldInv'
  BY <1>9 DEF PopBegin, StopBegin, Goto, memory
<1>10. ASSUME NEW t \in Threads, StopBody(t) PROVE HoldInv'
  BY <1>10 DEF StopBody, Goto, memory
<1>11. ASSUME NEW t \in Threads, SpuriousWakeup(t) PROVE HoldInv'
  BY <1>11 DEF SpuriousWakeup, memory
<1>12. CASE Destroy
  BY <1>12 DEF Destroy, Goto
<1> QED
  BY <1>1, <1>2, <1>3, <1>4, <1>5, <1>6, <1>7, <1>8, <1>9, <1>10, <1>11, <1>12
     DEF Next, Running, Finished, Threads

-----------------------------------------------------------------------------
(* Arithmetic of the ring: where Push writes, and what Pop's shift does.    *)
LEMMA RingArith ==
    ASSUME TypeOK
    PROVE  /\ Capacity \in Nat /\ Capacity > 0
           /\ front \in Nat /\ front < Capacity /\ count \in Nat /\ count <= Capacity
           /\ \A s \in Slots : s \in Nat /\ s < Capacity
<1>1. Capacity \in Nat /\ Capacity > 0
  BY QueueAssumption
<1> QED
  BY <1>1 DEF TypeOK, Slots

LEMMA RearOffset ==
    ASSUME TypeOK, RingInv, ~Full
    PROVE  /\ rear \in Slots
           /\ \A s \in Slots : Offset(s) = count <=> s = rear
           /\ NextSlot(rear) = SlotOf(count + 1)
<1>1. rear \in Slots /\ rear = SlotOf(count)
  BY DEF TypeOK, RingInv
<1>2. count < Capacity
  BY RingArith DEF Full
<1>3. ASSUME NEW s \in Slots PROVE Offset(s) = count <=> s = rear
  BY <1>1, <1>2, RingArith DEF Offset, SlotOf
<1>4. NextSlot(rear) = SlotOf(count + 1)
  BY <1>1, <1>2, RingArith, NextSlotWraps DEF SlotOf
<1> QED
  BY <1>1, <1>3, <1>4

LEMMA RingStep ==
    ASSUME TypeOK, HoldInv, RingInv, [Next]_vars
    PROVE  RingInv'
<1>1. CASE UNCHANGED ring
  BY <1>1 DEF ring, RingInv, SlotOf, Offset
<1>2. ASSUME NEW t \in Threads, PushStore(t) PROVE RingInv'
  <2>1. ~Full /\ front' = front /\ count' = count + 1 /\ rear' = NextSlot(rear)
    BY <1>2 DEF PushStore
  <2>2. mine[t] # NoPacket
    BY <1>2 DEF PushStore, HoldInv
  <2>3. packets' = [packets EXCEPT ![rear] = mine[t]]
    BY <1>2 DEF PushStore
  <2>4. rear' = SlotOf(count)'
    BY <2>1, RearOffset DEF SlotOf
  <2>5. ASSUME NEW s \in Slots
        PROVE  packets'[s] # NoPacket <=> Offset(s)' < count'
    <3>1. Offset(s)' = Offset(s) /\ Offset(s) \in Int
      BY <2>1, RingArith DEF Offset
    <3>2. CASE s = rear
      BY <2>1, <2>2, <2>3, <3>1, <3>2, RearOffset, RingArith DEF TypeOK
    <3>3. CASE s # rear
      <4>1. packets'[s] = packets[s] /\ Offset(s) # count
        BY <2>1, <2>3, <3>3, RearOffset DEF TypeOK
      <4> QED
        BY <2>1, <3>1, <4>1, RingArith DEF RingInv
    <3> QED
      BY <3>2, <3>3
  <2> QED
    BY <2>4, <2>5 DEF RingInv
<1>3. ASSUME NEW t \in Threads, PopTake(t) PROVE RingInv'
  <2>1. count > 0 /\ count' = count - 1 /\ rear' = rear
    BY <1>3, RingArith DEF PopTake, Empty
  <2>2. front \in Slots /\ front' = IF front + 1 = Capacity THEN 0 ELSE front + 1
    BY <1>3, NextSlotWraps DEF PopTake, TypeOK
  <2>3. packets' = [packets EXCEPT ![front] = NoPacket]
    BY <1>3 DEF PopTake, TakeFront
  <2>4. rear' = SlotOf(count)'
    BY <2>1, <2>2, RingArith DEF RingInv, SlotOf
  <2>5. ASSUME NEW s \in Slots
        PROVE  packets'[s] # NoPacket <=> Offset(s)' < count'
    <3>1. CASE s = front
      <4>1. packets'[s] = NoPacket
        BY <2>2, <2>3, <3>1 DEF TypeOK
      <4>2. Offset(s)' = Capacity - 1
        BY <2>2, <3>1, RingArith DEF Offset
      <4> QED
        BY <2>1, <4>1, <4>2, RingArith
    <3>2. CASE s # front
      <4>1. packets'[s] = packets[s]
        BY <2>3, <3>2 DEF TypeOK
      <4>2. Offset(s)' = Offset(s) - 1 /\ Offset(s) \in Int
        BY <2>2, <3>2, RingArith DEF Offset
      <4> QED
        BY <2>1, <4>1, <4>2, RingArith DEF RingInv
    <3> QED
      BY <3>1, <3>2
  <2> QED
    BY <2>4, <2>5 DEF RingInv
<1>4. ASSUME NEW t \in Threads, StopBody(t) PROVE RingInv'
  BY <1>4 DEF StopBody, RingInv, SlotOf, Offset
<1>5. CASE Destroy
  <2>1. front' = 0 /\ rear' = 0 /\ count' = 0
        /\ packets' = [i \in Slots |-> NoPacket]
    BY <1>5 DEF Destroy
  <2>2. \A s \in Slots : Offset(s)' \in Nat
    BY <2>1, RingArith DEF Offset
  <2>3. SlotOf(count)' = 0
    BY <2>1, RingArith DEF SlotOf
  <2> QED
    BY <2>1, <2>2, <2>3 DEF RingInv
<1> QED
  BY <1>1, <1>2, <1>3, <1>4, <1>5, RingSteps

-----------------------------------------------------------------------------
(* Every way a pointer moves or a block is freed keeps one owner per block. *)
LEMMA OwnStep ==
    ASSUME TypeOK, HoldInv, RingInv, OwnInv, [Next]_vars
    PROVE  OwnInv'
<1>0. NoPacket \notin heap
  BY DEF TypeOK, Packets, NoPacket
<1>1. CASE UNCHANGED <<packets, memory>>
  BY <1>1 DEF memory, OwnInv
<1>2. ASSUME NEW t \in Producers, PushBegin(t) PROVE OwnInv'
  <2>1. /\ allocated \in Nat /\ allocated + 1 # NoPacket /\ allocated' = allocated + 1
        /\ \A b \in heap : b \in Nat
    BY <1>2, BlockNumbers DEF PushBegin
  <2>2. allocated + 1 \notin heap
    BY <2>1 DEF OwnInv
  <2>3. t \in Threads /\ mine[t] = NoPacket
    BY <1>2 DEF Threads, HoldInv, PushBegin
  <2>4. /\ mine' = [mine EXCEPT ![t] = allocated + 1]
        /\ heap' = heap \cup {allocated + 1} /\ packets' = packets
    BY <1>2 DEF PushBegin, ring
  <2>5. \A u \in Threads : mine'[u] = IF u = t THEN allocated + 1 ELSE mine[u]
    BY <2>3, <2>4 DEF TypeOK
  <2>6. \A s \in Slots : packets'[s] # allocated + 1
    BY <2>1, <2>2, <2>4 DEF OwnInv
  <2>7. \A u \in Threads : mine[u] # allocated + 1
    BY <2>1, <2>2 DEF OwnInv
  <2>8. \A b \in heap' : b <= allocated'
    BY <2>1, <2>4 DEF OwnInv
  <2>9. \A b \in heap' : \/ \E s \in Slots : packets'[s] = b
                         \/ \E u \in Threads : mine'[u] = b
    <3>1. CASE heap' = heap \cup {allocated + 1}
      <4>1. mine'[t] = allocated + 1
        BY <2>3, <2>5
      <4>2. ASSUME NEW b \in heap
            PROVE  \/ \E s \in Slots : packets'[s] = b
                   \/ \E u \in Threads : mine'[u] = b
        <5>1. CASE \E s \in Slots : packets[s] = b
          BY <2>4, <5>1
        <5>2. CASE \E u \in Threads : mine[u] = b
          <6>1. PICK u \in Threads : mine[u] = b
            BY <5>2
          <6>2. b # NoPacket
            BY <1>0
          <6> QED
            BY <2>3, <2>5, <6>1, <6>2
        <5> QED
          BY <5>1, <5>2 DEF OwnInv
      <4> QED
        BY <2>3, <3>1, <4>1, <4>2
    <3> QED
      BY <2>4, <3>1
  <2> QED
    BY <2>3, <2>4, <2>5, <2>6, <2>7, <2>8, <2>9 DEF OwnInv
<1>3. ASSUME NEW t \in Threads, DropRefused(t) \/ FreePacket(t) PROVE OwnInv'
  <2>1. mine[t] \in heap /\ mine[t] # NoPacket
    BY <1>3 DEF DropRefused, FreePacket, HoldInv, OwnInv
  <2>2. /\ mine' = [mine EXCEPT ![t] = NoPacket] /\ heap' = heap \ {mine[t]}
        /\ packets' = packets /\ allocated' = allocated
    BY <1>3 DEF DropRefused, FreePacket, ring
  <2> QED
    BY <1>0, <2>1, <2>2 DEF OwnInv, TypeOK
<1>4. ASSUME NEW t \in Threads, PushStore(t) PROVE OwnInv'
  <2>1. mine[t] \in heap /\ mine[t] # NoPacket
    BY <1>4 DEF PushStore, HoldInv, OwnInv
  <2>2. rear \in Slots /\ packets[rear] = NoPacket
    <3>1. rear \in Slots /\ Offset(rear) = count
      BY <1>4, RearOffset DEF PushStore
    <3> QED
      BY <3>1, RingArith DEF RingInv
  <2>3. /\ mine' = [mine EXCEPT ![t] = NoPacket]
        /\ packets' = [packets EXCEPT ![rear] = mine[t]]
        /\ heap' = heap /\ allocated' = allocated
    BY <1>4 DEF PushStore
  <2> QED
    BY <1>0, <2>1, <2>2, <2>3 DEF OwnInv, TypeOK
<1>5. ASSUME NEW t \in Threads, PopTake(t) PROVE OwnInv'
  <2>1. mine[t] = NoPacket
    BY <1>5 DEF PopTake, HoldInv
  <2>2. front \in Slots /\ packets[front] # NoPacket /\ packets[front] \in heap
    BY <1>5, FrontOccupied DEF PopTake, TypeOK, OwnInv
  <2>3. /\ mine' = [mine EXCEPT ![t] = packets[front]]
        /\ packets' = [packets EXCEPT ![front] = NoPacket]
        /\ heap' = heap /\ allocated' = allocated
    BY <1>5 DEF PopTake, TakeFront
  <2> QED
    BY <1>0, <2>1, <2>2, <2>3 DEF OwnInv, TypeOK
<1>6. CASE Destroy
  <2>1. \A t \in Threads : mine[t] = NoPacket
    BY <1>6 DEF Destroy, Joined, HoldInv
  <2>2. heap' = {}
    BY <1>0, <1>6, <2>1 DEF Destroy, OwnInv
  <2>3. packets' = [i \in Slots |-> NoPacket] /\ mine' = mine
    BY <1>6 DEF Destroy
  <2> QED
    BY <2>1, <2>2, <2>3 DEF OwnInv, TypeOK
<1> QED
  BY <1>1, <1>2, <1>3, <1>4, <1>5, <1>6, MemorySteps

-----------------------------------------------------------------------------
LEMMA InvInit == ASSUME Init PROVE IInv
<1>1. TypeOK
  BY TypeInit
<1>2. PICK gone \in {{}, Consumers} :
         pc = [t \in Threads |-> IF t \in gone THEN "done" ELSE "idle"]
  BY DEF Init
<1>3. RoleInv
  BY <1>2, QueueAssumption DEF RoleInv, PushLabels, PopLabels, Threads
<1>4. MutexInv
  BY <1>2, QueueAssumption DEF Init, MutexInv
<1>5. HoldInv
  BY <1>2 DEF Init, HoldInv
<1>6. RingInv
  <2>1. front = 0 /\ rear = 0 /\ count = 0 /\ packets = [i \in Slots |-> NoPacket]
    BY DEF Init
  <2>2. SlotOf(count) = 0 /\ \A s \in Slots : Offset(s) \in Nat
    BY <1>1, <2>1, RingArith DEF SlotOf, Offset
  <2> QED
    BY <2>1, <2>2 DEF RingInv
<1>7. OwnInv
  BY DEF Init, OwnInv
<1> QED
  BY <1>1, <1>3, <1>4, <1>5, <1>6, <1>7 DEF IInv

LEMMA InvStep == ASSUME IInv, [Next]_vars PROVE IInv'
BY TypeStep, RoleStep, MutexStep, HoldStep, RingStep, OwnStep DEF IInv

(* Every reachable state satisfies the inductive invariant.                 *)
THEOREM Inductive == Spec => []IInv
<1>1. Init => IInv
  BY InvInit
<1>2. IInv /\ [Next]_vars => IInv'
  BY InvStep
<1> QED
  BY <1>1, <1>2, PTL DEF Spec

(* The variables of h264_packet_queue.c keep their types, for any capacity  *)
(* and any number of threads.                                               *)
THEOREM TypeCorrect == Spec => []TypeOK
<1>1. IInv => TypeOK
  BY DEF IInv
<1> QED
  BY <1>1, Inductive, PTL

(* At most one thread is inside a critical section of the queue, and only   *)
(* a thread that released the mutex sleeps.                                 *)
THEOREM MutualExclusion == Spec => []MutexInv
<1>1. IInv => MutexInv
  BY DEF IInv
<1> QED
  BY <1>1, Inductive, PTL

(* front, rear and count always describe the same occupied slots.           *)
THEOREM RingConsistent == Spec => []RingInv
<1>1. IInv => RingInv
  BY DEF IInv
<1> QED
  BY <1>1, Inductive, PTL

(* No packet is lost, freed twice, or used by two threads.                  *)
THEOREM OneOwner == Spec => []OwnInv
<1>1. IInv => OwnInv
  BY DEF IInv
<1> QED
  BY <1>1, Inductive, PTL

-----------------------------------------------------------------------------
(* Wakeups: who is awake inside Pop and inside Push, counted against the     *)
(* packets and the free slots.                                               *)
Poppers == {t \in Consumers \ notEmpty : pc[t] \in {"pop lock", "popping"}}
Pushers == {t \in Producers \ notFull : pc[t] \in {"push lock", "pushing"}}

EnoughPoppers == notEmpty # {} => Cardinality(Poppers) >= count
EnoughPushers == notFull # {} => Cardinality(Pushers) >= Capacity - count
StopWakes     == stop => notEmpty = {} /\ notFull = {}

LEMMA WakeupParts == NoLostWakeup <=> EnoughPoppers /\ EnoughPushers /\ StopWakes
BY DEF NoLostWakeup, EnoughPoppers, EnoughPushers, StopWakes, Poppers, Pushers

LEMMA Members == Producers \subseteq Threads /\ Consumers \subseteq Threads
BY DEF Threads

LEMMA AwakeAreFinite ==
    /\ IsFiniteSet(Poppers) /\ Cardinality(Poppers) \in Nat
    /\ IsFiniteSet(Pushers) /\ Cardinality(Pushers) \in Nat
<1>1. Poppers \in SUBSET Consumers /\ Pushers \in SUBSET Producers
  BY DEF Poppers, Pushers
<1>2. IsFiniteSet(Poppers) /\ IsFiniteSet(Pushers)
  BY <1>1, FS_Subset, QueueAssumption
<1> QED
  BY <1>2, FS_CardinalityType

AwakeFacts ==
    /\ IsFiniteSet(Poppers) /\ Cardinality(Poppers) \in Nat
    /\ IsFiniteSet(Pushers) /\ Cardinality(Pushers) \in Nat

LEMMA AwakeFactsNext == AwakeFacts'
<1>1. AwakeFacts
  BY AwakeAreFinite DEF AwakeFacts
<1> QED
  BY <1>1, PTL

(* As long as nobody falls asleep and nobody awake leaves, the count may rise *)
(* as far as threads were woken.                                              *)
LEMMA Larger ==
    ASSUME NEW S, NEW T, IsFiniteSet(T), S \subseteq T
    PROVE  Cardinality(S) \in Nat /\ Cardinality(T) \in Nat /\ Cardinality(S) <= Cardinality(T)
<1>1. S \in SUBSET T
  OBVIOUS
<1>2. IsFiniteSet(S) /\ Cardinality(S) <= Cardinality(T)
  BY <1>1, FS_Subset
<1> QED
  BY <1>2, FS_CardinalityType

LEMMA KeepAwake ==
    ASSUME TypeOK, EnoughPoppers, EnoughPushers, count' = count,
           notEmpty' \subseteq notEmpty, notFull' \subseteq notFull,
           Poppers \subseteq Poppers', Pushers \subseteq Pushers'
    PROVE  EnoughPoppers' /\ EnoughPushers'
<1>1. /\ Cardinality(Poppers) \in Nat /\ Cardinality(Poppers') \in Nat
      /\ Cardinality(Poppers) <= Cardinality(Poppers')
      /\ Cardinality(Pushers) \in Nat /\ Cardinality(Pushers') \in Nat
      /\ Cardinality(Pushers) <= Cardinality(Pushers')
  BY AwakeFactsNext, Larger DEF AwakeFacts
<1>2. count \in Nat /\ Capacity - count \in Int
  BY RingArith
<1>3. notEmpty' # {} => Cardinality(Poppers') >= count'
  BY <1>1, <1>2 DEF EnoughPoppers
<1>4. notFull' # {} => Cardinality(Pushers') >= Capacity - count'
  BY <1>1, <1>2 DEF EnoughPushers
<1> QED
  BY <1>3, <1>4 DEF EnoughPoppers, EnoughPushers

(* Push puts one packet in, leaves, and wakes one consumer.                  *)
LEMMA PushWakes ==
    ASSUME IInv, NoLostWakeup, NEW t \in Threads, PushStore(t)
    PROVE  EnoughPoppers' /\ EnoughPushers'
<1>0. /\ TypeOK /\ MutexInv /\ EnoughPoppers /\ EnoughPushers
      /\ t \in Producers /\ t \notin Consumers
  BY WakeupParts, QueueAssumption DEF IInv, RoleInv, PushLabels, PushStore
<1>1. /\ pc[t] = "pushing" /\ pc' = [pc EXCEPT ![t] = "idle"] /\ count' = count + 1
      /\ notFull' = notFull /\ SignalNotEmpty
  BY DEF PushStore, Goto
<1>2. count \in Nat /\ Capacity \in Nat
  BY <1>0, RingArith
<1>3. notEmpty' # {} => Cardinality(Poppers') >= count'
  <2>1. CASE notEmpty = {}
    BY <1>1, <2>1 DEF SignalNotEmpty
  <2>2. CASE notEmpty # {}
    <3>1. PICK u \in notEmpty : notEmpty' = notEmpty \ {u}
      BY <1>1, <2>2 DEF SignalNotEmpty
    <3>2. u \in Consumers /\ pc[u] = "pop lock" /\ u \notin Poppers
      BY <1>0, <3>1 DEF MutexInv, Poppers
    <3>3. Poppers \cup {u} \subseteq Poppers'
      <4>1. \A v \in Threads : v # t => pc'[v] = pc[v]
        BY <1>0, <1>1 DEF TypeOK
      <4>2. u # t /\ pc'[u] = "pop lock"
        BY <1>1, <3>2, <4>1, Members
      <4>3. u \in Poppers'
        BY <3>1, <3>2, <4>2 DEF Poppers
      <4>4. Poppers \subseteq Poppers'
        BY <1>0, <3>1, <4>1, Members DEF Poppers
      <4> QED
        BY <4>3, <4>4
    <3>4. Cardinality(Poppers \cup {u}) = Cardinality(Poppers) + 1
      BY <3>2, AwakeAreFinite, FS_AddElement
    <3>5. Cardinality(Poppers \cup {u}) <= Cardinality(Poppers') /\ Cardinality(Poppers') \in Nat
      BY <3>3, AwakeFactsNext, Larger DEF AwakeFacts
    <3>6. Cardinality(Poppers) >= count /\ Cardinality(Poppers) \in Nat
      BY <1>0, <2>2, AwakeAreFinite DEF EnoughPoppers
    <3> QED
      BY <1>1, <1>2, <3>4, <3>5, <3>6
  <2> QED
    BY <2>1, <2>2
<1>4. notFull' # {} => Cardinality(Pushers') >= Capacity - count'
  <2>1. Pushers \ {t} \subseteq Pushers'
    <3>1. \A v \in Threads : v # t => pc'[v] = pc[v]
      BY <1>0, <1>1 DEF TypeOK
    <3> QED
      BY <1>1, <3>1, Members DEF Pushers
  <2>2. Cardinality(Pushers \ {t}) >= Cardinality(Pushers) - 1
    <3>1. Cardinality(Pushers \ {t})
              = IF t \in Pushers THEN Cardinality(Pushers) - 1 ELSE Cardinality(Pushers)
      BY AwakeAreFinite, FS_RemoveElement
    <3> QED
      BY <3>1, AwakeAreFinite
  <2>3. /\ Cardinality(Pushers \ {t}) <= Cardinality(Pushers')
        /\ Cardinality(Pushers \ {t}) \in Nat /\ Cardinality(Pushers') \in Nat
    BY <2>1, AwakeFactsNext, Larger DEF AwakeFacts
  <2>4. notFull # {} => Cardinality(Pushers) >= Capacity - count
    BY <1>0 DEF EnoughPushers
  <2> QED
    BY <1>1, <1>2, <2>2, <2>3, <2>4, AwakeAreFinite
<1> QED
  BY <1>3, <1>4 DEF EnoughPoppers, EnoughPushers

(* Pop takes one packet out, leaves, and wakes one producer.                 *)
LEMMA PopWakes ==
    ASSUME IInv, NoLostWakeup, NEW t \in Threads, PopTake(t)
    PROVE  EnoughPoppers' /\ EnoughPushers'
<1>0. /\ TypeOK /\ MutexInv /\ EnoughPoppers /\ EnoughPushers
      /\ t \in Consumers /\ t \notin Producers
  BY WakeupParts, QueueAssumption DEF IInv, RoleInv, PopLabels, PopTake
<1>1. /\ pc[t] = "popping" /\ pc' = [pc EXCEPT ![t] = "using"] /\ count' = count - 1
      /\ notEmpty' = notEmpty /\ SignalNotFull
  BY DEF PopTake, Goto
<1>2. count \in Nat /\ Capacity \in Nat
  BY <1>0, RingArith
<1>3. notFull' # {} => Cardinality(Pushers') >= Capacity - count'
  <2>1. CASE notFull = {}
    BY <1>1, <2>1 DEF SignalNotFull
  <2>2. CASE notFull # {}
    <3>1. PICK u \in notFull : notFull' = notFull \ {u}
      BY <1>1, <2>2 DEF SignalNotFull
    <3>2. u \in Producers /\ pc[u] = "push lock" /\ u \notin Pushers
      BY <1>0, <3>1 DEF MutexInv, Pushers
    <3>3. Pushers \cup {u} \subseteq Pushers'
      <4>1. \A v \in Threads : v # t => pc'[v] = pc[v]
        BY <1>0, <1>1 DEF TypeOK
      <4>2. u # t /\ pc'[u] = "push lock"
        BY <1>1, <3>2, <4>1, Members
      <4>3. u \in Pushers'
        BY <3>1, <3>2, <4>2 DEF Pushers
      <4>4. Pushers \subseteq Pushers'
        BY <1>0, <3>1, <4>1, Members DEF Pushers
      <4> QED
        BY <4>3, <4>4
    <3>4. Cardinality(Pushers \cup {u}) = Cardinality(Pushers) + 1
      BY <3>2, AwakeAreFinite, FS_AddElement
    <3>5. Cardinality(Pushers \cup {u}) <= Cardinality(Pushers') /\ Cardinality(Pushers') \in Nat
      BY <3>3, AwakeFactsNext, Larger DEF AwakeFacts
    <3>6. Cardinality(Pushers) >= Capacity - count /\ Cardinality(Pushers) \in Nat
      BY <1>0, <2>2, AwakeAreFinite DEF EnoughPushers
    <3> QED
      BY <1>1, <1>2, <3>4, <3>5, <3>6
  <2> QED
    BY <2>1, <2>2
<1>4. notEmpty' # {} => Cardinality(Poppers') >= count'
  <2>1. Poppers \ {t} \subseteq Poppers'
    <3>1. \A v \in Threads : v # t => pc'[v] = pc[v]
      BY <1>0, <1>1 DEF TypeOK
    <3> QED
      BY <1>1, <3>1, Members DEF Poppers
  <2>2. Cardinality(Poppers \ {t}) >= Cardinality(Poppers) - 1
    <3>1. Cardinality(Poppers \ {t})
              = IF t \in Poppers THEN Cardinality(Poppers) - 1 ELSE Cardinality(Poppers)
      BY AwakeAreFinite, FS_RemoveElement
    <3> QED
      BY <3>1, AwakeAreFinite
  <2>3. /\ Cardinality(Poppers \ {t}) <= Cardinality(Poppers')
        /\ Cardinality(Poppers \ {t}) \in Nat /\ Cardinality(Poppers') \in Nat
    BY <2>1, AwakeFactsNext, Larger DEF AwakeFacts
  <2>4. notEmpty # {} => Cardinality(Poppers) >= count
    BY <1>0 DEF EnoughPoppers
  <2> QED
    BY <1>1, <1>2, <2>2, <2>3, <2>4, AwakeAreFinite
<1> QED
  BY <1>3, <1>4 DEF EnoughPoppers, EnoughPushers

LEMMA WakeStep ==
    ASSUME IInv, NoLostWakeup, [Next]_vars
    PROVE  NoLostWakeup'
<1>0. TypeOK /\ MutexInv /\ RoleInv /\ EnoughPoppers /\ EnoughPushers /\ StopWakes
  BY WakeupParts DEF IInv
<1>s. SUFFICES EnoughPoppers' /\ EnoughPushers' /\ StopWakes'
  BY WakeupParts, PTL
<1>t. pc \in [Threads -> Labels]
  BY <1>0 DEF TypeOK
<1>e. notEmpty' = {} /\ notFull' = {} => EnoughPoppers' /\ EnoughPushers' /\ StopWakes'
  BY DEF EnoughPoppers, EnoughPushers, StopWakes
<1>1. CASE UNCHANGED vars
  <2>1. UNCHANGED <<notEmpty, notFull, pc, count, stop>>
    BY <1>1, Zenon DEF vars
  <2>2. Poppers' = Poppers /\ Pushers' = Pushers
    BY <2>1 DEF Poppers, Pushers
  <2> QED
    BY <1>0, <2>1, <2>2 DEF EnoughPoppers, EnoughPushers, StopWakes
<1>2. ASSUME NEW t \in Threads,
             \/ PushLock(t) \/ PopLock(t) \/ StopLock(t) \/ DropRefused(t) \/ FreePacket(t)
             \/ StopBegin(t) \/ PopBegin(t) \/ (t \in Producers /\ PushBegin(t))
      PROVE  EnoughPoppers' /\ EnoughPushers' /\ StopWakes'
  <2>1. /\ UNCHANGED <<notEmpty, notFull, count, stop>>
        /\ \E l \in Labels : /\ pc' = [pc EXCEPT ![t] = l]
                             /\ pc[t] \in {"pop lock", "popping"} =>
                                    l \in {"pop lock", "popping"}
                             /\ pc[t] \in {"push lock", "pushing"} =>
                                    l \in {"push lock", "pushing"}
    BY <1>2 DEF PushLock, PopLock, StopLock, DropRefused, FreePacket, StopBegin, PopBegin,
                PushBegin, Acquire, Goto, ring, Labels
  <2>2. Poppers \subseteq Poppers' /\ Pushers \subseteq Pushers'
    <3>1. PICK l \in Labels : /\ pc' = [pc EXCEPT ![t] = l]
                              /\ pc[t] \in {"pop lock", "popping"} =>
                                     l \in {"pop lock", "popping"}
                              /\ pc[t] \in {"push lock", "pushing"} =>
                                     l \in {"push lock", "pushing"}
      BY <2>1
    <3>2. pc'[t] = l /\ \A v \in Threads : v # t => pc'[v] = pc[v]
      BY <1>t, <3>1
    <3>3. Poppers \subseteq Poppers'
      BY <2>1, <3>1, <3>2, Members DEF Poppers
    <3>4. Pushers \subseteq Pushers'
      BY <2>1, <3>1, <3>2, Members DEF Pushers
    <3> QED
      BY <3>3, <3>4
  <2>3. EnoughPoppers' /\ EnoughPushers'
    BY <1>0, <2>1, <2>2, KeepAwake
  <2> QED
    BY <1>0, <2>1, <2>3 DEF StopWakes
<1>3. ASSUME NEW t \in Threads, SpuriousWakeup(t)
      PROVE  EnoughPoppers' /\ EnoughPushers' /\ StopWakes'
  <2>1. /\ notEmpty' = notEmpty \ {t} /\ notFull' = notFull \ {t}
        /\ UNCHANGED <<pc, count, stop>>
    BY <1>3 DEF SpuriousWakeup, ring
  <2>2. Poppers \subseteq Poppers' /\ Pushers \subseteq Pushers'
    BY <2>1 DEF Poppers, Pushers
  <2>3. EnoughPoppers' /\ EnoughPushers'
    BY <1>0, <2>1, <2>2, KeepAwake
  <2> QED
    BY <1>0, <2>1, <2>3 DEF StopWakes
<1>4. ASSUME NEW t \in Threads, PushWait(t)
      PROVE  EnoughPoppers' /\ EnoughPushers' /\ StopWakes'
  <2>1. /\ pc[t] = "pushing" /\ pc' = [pc EXCEPT ![t] = "push lock"] /\ count = Capacity
        /\ ~stop /\ UNCHANGED <<notEmpty, count, stop>>
    BY <1>4 DEF PushWait, Goto, Full, ring
  <2>2. Poppers' = Poppers
    <3>1. \A v \in Threads :
              pc'[v] \in {"pop lock", "popping"} <=> pc[v] \in {"pop lock", "popping"}
      BY <1>t, <2>1
    <3> QED
      BY <2>1, <3>1, Members DEF Poppers
  <2>3. Capacity - count' = 0
    <3>1. Capacity \in Nat /\ count' = Capacity
      BY <1>0, <2>1, RingArith
    <3> QED
      BY <3>1
  <2>4. EnoughPoppers'
    BY <1>0, <2>1, <2>2 DEF EnoughPoppers
  <2>5. EnoughPushers'
    <3>1. Cardinality(Pushers') \in Nat
      BY AwakeFactsNext DEF AwakeFacts
    <3>2. Cardinality(Pushers') >= Capacity - count'
      BY <2>3, <3>1
    <3> QED
      BY <3>2 DEF EnoughPushers
  <2> QED
    BY <2>1, <2>4, <2>5 DEF StopWakes
<1>5. ASSUME NEW t \in Threads, PopWait(t)
      PROVE  EnoughPoppers' /\ EnoughPushers' /\ StopWakes'
  <2>1. /\ pc[t] = "popping" /\ pc' = [pc EXCEPT ![t] = "pop lock"] /\ count = 0
        /\ ~stop /\ UNCHANGED <<notFull, count, stop>>
    BY <1>5 DEF PopWait, Goto, Empty, ring
  <2>2. Pushers' = Pushers
    <3>1. \A v \in Threads :
              pc'[v] \in {"push lock", "pushing"} <=> pc[v] \in {"push lock", "pushing"}
      BY <1>t, <2>1
    <3> QED
      BY <2>1, <3>1, Members DEF Pushers
  <2>3. EnoughPushers'
    BY <1>0, <2>1, <2>2 DEF EnoughPushers
  <2>4. EnoughPoppers'
    <3>1. Cardinality(Poppers') \in Nat /\ count' = 0
      BY <2>1, AwakeFactsNext DEF AwakeFacts
    <3>2. Cardinality(Poppers') >= count'
      BY <3>1
    <3> QED
      BY <3>2 DEF EnoughPoppers
  <2> QED
    BY <2>1, <2>3, <2>4 DEF StopWakes
<1>6. ASSUME NEW t \in Threads, PushRefused(t) \/ PopEnd(t)
      PROVE  EnoughPoppers' /\ EnoughPushers' /\ StopWakes'
  BY <1>0, <1>6, <1>e DEF PushRefused, PopEnd, StopWakes
<1>7. ASSUME NEW t \in Threads, StopBody(t)
      PROVE  EnoughPoppers' /\ EnoughPushers' /\ StopWakes'
  BY <1>7, <1>e DEF StopBody, WakeAll
<1>8. CASE Destroy
  <2>1. stop /\ UNCHANGED <<notEmpty, notFull>>
    BY <1>0, <1>8 DEF Destroy, RoleInv
  <2> QED
    BY <1>0, <1>e, <2>1 DEF StopWakes
<1>9. ASSUME NEW t \in Threads, PushStore(t)
      PROVE  EnoughPoppers' /\ EnoughPushers' /\ StopWakes'
  <2>1. ~stop /\ stop' = stop
    BY <1>9 DEF PushStore
  <2> QED
    BY <1>9, <2>1, PushWakes DEF StopWakes
<1>10. ASSUME NEW t \in Threads, PopTake(t)
       PROVE  EnoughPoppers' /\ EnoughPushers' /\ StopWakes'
  <2>1. stop' = stop /\ notEmpty' = notEmpty /\ (notFull = {} => notFull' = {})
    BY <1>10 DEF PopTake, SignalNotFull
  <2>2. StopWakes'
    BY <1>0, <2>1 DEF StopWakes
  <2> QED
    BY <1>10, <2>2, PopWakes
<1> QED
  BY <1>1, <1>2, <1>3, <1>4, <1>5, <1>6, <1>7, <1>8, <1>9, <1>10
     DEF Next, Running, Finished, Threads

(* One signal per Push and Pop is enough for any number of threads: while    *)
(* some sleep, as many others are awake as there are packets or free slots.  *)
THEOREM NobodySleepsThroughIt == Spec => []NoLostWakeup
<1>1. Init => NoLostWakeup
  <2>1. SUFFICES ASSUME Init PROVE EnoughPoppers /\ EnoughPushers /\ StopWakes
    BY WakeupParts
  <2> QED
    BY <2>1 DEF Init, EnoughPoppers, EnoughPushers, StopWakes
<1>2. IInv /\ NoLostWakeup /\ [Next]_vars => NoLostWakeup'
  BY WakeStep
<1> QED
  BY <1>1, <1>2, Inductive, PTL DEF Spec

-----------------------------------------------------------------------------
(* The packets between front and rear, as the sequence StopChannel speaks of. *)
ContentFacts ==
    /\ Content \in Seq(Packets)
    /\ Len(Content) = count
    /\ \A i \in 1 .. count : Content[i] = packets[SlotOf(i - 1)]

LEMMA ContentIsSeq == TypeOK /\ RingInv => ContentFacts
<1> SUFFICES ASSUME TypeOK, RingInv PROVE ContentFacts
  OBVIOUS
<1>1. ASSUME NEW i \in 1 .. count PROVE packets[SlotOf(i - 1)] \in Packets
  <2>1. SlotOf(i - 1) \in Slots
    BY RingArith DEF SlotOf, Slots
  <2>2. Offset(SlotOf(i - 1)) < count
    BY RingArith DEF SlotOf, Offset
  <2> QED
    BY <2>1, <2>2 DEF RingInv, TypeOK
<1>2. Content \in [1 .. count -> Packets]
  BY <1>1 DEF Content
<1>3. count \in Nat
  BY RingArith
<1>4. Content \in Seq(Packets)
  BY <1>2, <1>3, SeqDef
<1>5. Len(Content) = count
  BY <1>2, <1>3, <1>4, LenProperties
<1> QED
  BY <1>4, <1>5 DEF Content, ContentFacts

(* The same of the next state. *)
LEMMA ContentIsSeqNext == TypeOK' /\ RingInv' => ContentFacts'
BY ContentIsSeq, PTL

LEMMA PushSends ==
    ASSUME TypeOK, HoldInv, RingInv, TypeOK', RingInv', NEW t \in Threads, PushStore(t)
    PROVE  Chan!Next
<1>1. /\ ~Full /\ ~stop /\ stop' = stop /\ count' = count + 1 /\ front' = front
      /\ packets' = [packets EXCEPT ![rear] = mine[t]]
  BY DEF PushStore
<1>2. mine[t] \in Packets
  BY DEF PushStore, HoldInv, TypeOK
<1>3. Len(Content) = count /\ count < Capacity
  BY <1>1, ContentIsSeq, RingArith DEF Full, ContentFacts
<1>4. Content' \in Seq(Packets) /\ Len(Content') = count + 1
      /\ \A i \in 1 .. count + 1 : Content'[i] = packets'[SlotOf(i - 1)']
  BY <1>1, ContentIsSeqNext DEF ContentFacts
<1>5. Append(Content, mine[t]) \in Seq(Packets)
      /\ Len(Append(Content, mine[t])) = count + 1
      /\ \A i \in 1 .. count : Append(Content, mine[t])[i] = Content[i]
      /\ Append(Content, mine[t])[count + 1] = mine[t]
  BY <1>2, <1>3, ContentIsSeq, AppendProperties DEF ContentFacts
<1>6. ASSUME NEW i \in 1 .. count + 1
      PROVE  Content'[i] = Append(Content, mine[t])[i]
  <2>1. SlotOf(i - 1)' = SlotOf(i - 1) /\ SlotOf(i - 1) \in Slots /\ rear \in Slots
    <3>1. i \in Int /\ 1 <= i /\ i <= Capacity
      BY <1>3, RingArith
    <3>2. SlotOf(i - 1) \in Slots
      BY <3>1, RingArith DEF SlotOf, Slots
    <3>3. SlotOf(i - 1)' = SlotOf(i - 1)
      BY <1>1 DEF SlotOf
    <3> QED
      BY <3>2, <3>3 DEF TypeOK
  <2>2. CASE i = count + 1
    <3>1. SlotOf(i - 1) = rear
      BY <2>2, RingArith DEF RingInv
    <3> QED
      BY <1>1, <1>4, <1>5, <2>1, <2>2, <3>1 DEF TypeOK
  <2>3. CASE i \in 1 .. count
    <3>1. SlotOf(i - 1) # rear
      BY <1>3, <2>3, RingArith DEF RingInv, SlotOf
    <3>2. packets'[SlotOf(i - 1)] = packets[SlotOf(i - 1)]
      BY <1>1, <2>1, <3>1 DEF TypeOK
    <3> QED
      BY <1>4, <1>5, <2>1, <2>3, <3>2, ContentIsSeq DEF ContentFacts
  <2>4. i = count + 1 \/ i \in 1 .. count
    BY RingArith
  <2> QED
    BY <2>2, <2>3, <2>4
<1>7. Content' = Append(Content, mine[t])
  BY <1>4, <1>5, <1>6, SeqEqual
<1> QED
  BY <1>1, <1>2, <1>3, <1>7 DEF Chan!Next, Chan!Send

LEMMA PopReceives ==
    ASSUME TypeOK, RingInv, TypeOK', RingInv', NEW t \in Threads, PopTake(t)
    PROVE  Chan!Next
<1>1. stop' = stop /\ count' = count - 1 /\ front' = NextSlot(front)
      /\ packets' = [packets EXCEPT ![front] = NoPacket]
  BY DEF PopTake, TakeFront
<1>2. front \in Slots /\ count > 0
  BY RingArith DEF PopTake, Empty, TypeOK
<1>3. front' = IF front + 1 = Capacity THEN 0 ELSE front + 1
  BY <1>1, <1>2, NextSlotWraps
<1>4. Content # << >>
  BY <1>2, ContentIsSeq, EmptySeq DEF ContentFacts
<1>5. Tail(Content) \in Seq(Packets) /\ Len(Tail(Content)) = count - 1
      /\ \A i \in 1 .. count - 1 : Tail(Content)[i] = Content[i + 1]
  BY <1>4, ContentIsSeq, HeadTailProperties DEF ContentFacts
<1>6. Content' \in Seq(Packets) /\ Len(Content') = count - 1
      /\ \A i \in 1 .. count - 1 : Content'[i] = packets'[SlotOf(i - 1)']
  BY <1>1, ContentIsSeqNext DEF ContentFacts
<1>7. ASSUME NEW i \in 1 .. count - 1
      PROVE  Content'[i] = Tail(Content)[i]
  <2>1. SlotOf(i - 1)' = SlotOf(i) /\ SlotOf(i) \in Slots /\ SlotOf(i) # front
    BY <1>2, <1>3, RingArith DEF SlotOf, Slots
  <2>2. packets'[SlotOf(i)] = packets[SlotOf(i)]
    BY <1>1, <2>1 DEF TypeOK
  <2>3. i + 1 \in 1 .. count /\ (i + 1) - 1 = i
    BY RingArith
  <2>4. Content[i + 1] = packets[SlotOf(i)]
    BY <2>3, ContentIsSeq DEF ContentFacts
  <2> QED
    BY <1>5, <1>6, <2>1, <2>2, <2>4
<1>8. Content' = Tail(Content)
  BY <1>5, <1>6, <1>7, SeqEqual
<1> QED
  BY <1>1, <1>4, <1>8 DEF Chan!Next, Chan!Receive

(* The queue as it is coded implements the abstract closable FIFO channel.  *)
THEOREM ImplementsChannel == Spec => RefinesChannel
<1>1. Init => Chan!Init
  <2> SUFFICES ASSUME Init PROVE Chan!Init
    OBVIOUS
  <2>1. TypeOK /\ RingInv /\ count = 0 /\ stop = FALSE
    BY InvInit DEF IInv, Init
  <2>2. Content = << >>
    BY <2>1, ContentIsSeq, EmptySeq DEF ContentFacts
  <2> QED
    BY <2>1, <2>2 DEF Chan!Init
<1>2. IInv /\ IInv' /\ [Next]_vars => [Chan!Next]_(Chan!vars)
  <2> SUFFICES ASSUME IInv, IInv', [Next]_vars PROVE [Chan!Next]_(Chan!vars)
    OBVIOUS
  <2>1. CASE UNCHANGED ring
    BY <2>1 DEF ring, Chan!vars, Content, SlotOf
  <2>2. ASSUME NEW t \in Threads, PushStore(t) PROVE Chan!Next
    BY <2>2, PushSends DEF IInv
  <2>3. ASSUME NEW t \in Threads, PopTake(t) PROVE Chan!Next
    BY <2>3, PopReceives DEF IInv
  <2>4. ASSUME NEW t \in Threads, StopBody(t) PROVE Chan!Next
    BY <2>4 DEF StopBody, Chan!Next, Chan!Close, Content, SlotOf
  <2>5. CASE Destroy
    <3>1. stop /\ stop' /\ count' = 0
      BY <2>5 DEF Destroy, IInv, RoleInv
    <3>2. Content' = << >>
      BY <3>1, ContentIsSeqNext, EmptySeq DEF IInv, ContentFacts
    <3> QED
      BY <3>1, <3>2 DEF Chan!Next, Chan!Discard, IInv, TypeOK
  <2> QED
    BY <2>1, <2>2, <2>3, <2>4, <2>5, RingSteps
<1> QED
  BY <1>1, <1>2, Inductive, PTL DEF Spec, RefinesChannel, Chan!Spec
=============================================================================
