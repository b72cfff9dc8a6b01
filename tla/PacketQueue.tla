---------------------------- MODULE PacketQueue ----------------------------
(***************************************************************************)
(* server_pc/h264_packet_queue.c: a ring buffer of malloc'ed H.264         *)
(* packets, one mutex, two condition variables and a stop flag, with the   *)
(* threads that use it: producers (the TCP thread), consumers (the decoder *)
(* thread) and the owner (main), which stops it, joins and destroys it.    *)
(*                                                                         *)
(* A critical section is two steps: Acquire takes the mutex, the body runs *)
(* with it and releases it.  A thread asleep on a condition variable is at *)
(* its lock step and a member of the variable's wait set; waking it is     *)
(* taking it out of the set, after which it competes for the mutex again   *)
(* and reevaluates the loop condition.                                     *)
(***************************************************************************)
EXTENDS Integers, FiniteSets

CONSTANTS Producers, Consumers, Owner,
          Capacity,      \* slots of the ring
          MaxPackets,    \* bound: how many packets the producers create
          MaxSpurious    \* bound: how many spurious wakeups happen

Threads  == Producers \cup Consumers \cup {Owner}
NoThread == "no thread"
NoPacket == 0                            \* the NULL data pointer
Packets  == 1 .. MaxPackets              \* heap blocks, in order of allocation
Slots    == 0 .. Capacity - 1

ASSUME QueueAssumption ==
    /\ Capacity \in Nat \ {0}
    /\ MaxPackets \in Nat
    /\ MaxSpurious \in Nat
    /\ Producers \cap Consumers = {}
    /\ Owner \notin Producers \cup Consumers
    /\ NoThread \notin Threads
    /\ IsFiniteSet(Producers) /\ IsFiniteSet(Consumers)

VARIABLES
    packets,     \* [Slots -> Packets \cup {NoPacket}], the data of each slot
    front, rear, count, stop,
    mutex,       \* the thread inside a critical section, or NoThread
    notEmpty,    \* threads asleep on not_empty
    notFull,     \* threads asleep on not_full
    pc,          \* what each thread does next
    mine,        \* the packet each thread's local variable points to
    heap,        \* blocks malloc'ed and not freed
    allocated,   \* how many blocks were malloc'ed
    spurious     \* how many spurious wakeups there were

ring   == <<packets, front, rear, count, stop>>
memory == <<mine, heap, allocated>>
vars   == <<packets, front, rear, count, stop, mutex, notEmpty, notFull, pc,
            mine, heap, allocated, spurious>>

Labels == {"idle", "push lock", "pushing", "dropping", "pop lock", "popping",
           "using", "stop lock", "stopping", "joining", "done"}

\* A consumer that is "done" from the start is a decoder thread pthread_create
\* could not create: main then goes straight to stopping the queue.
Init ==
    /\ packets = [i \in Slots |-> NoPacket]
    /\ front = 0 /\ rear = 0 /\ count = 0 /\ stop = FALSE
    /\ mutex = NoThread /\ notEmpty = {} /\ notFull = {}
    /\ mine = [t \in Threads |-> NoPacket]
    /\ heap = {} /\ allocated = 0 /\ spurious = 0
    /\ \E gone \in {{}, Consumers} :
          pc = [t \in Threads |-> IF t \in gone THEN "done" ELSE "idle"]

-----------------------------------------------------------------------------
(* The mutex and the condition variables.                                  *)

Goto(t, label) == pc' = [pc EXCEPT ![t] = label]

Acquire(t, lock, body) ==
    /\ pc[t] = lock
    /\ t \notin notEmpty \cup notFull
    /\ mutex = NoThread
    /\ mutex' = t
    /\ Goto(t, body)
    /\ UNCHANGED <<ring, notEmpty, notFull, memory, spurious>>

Unlock(t) == /\ mutex = t
             /\ mutex' = NoThread

\* pthread_cond_signal: one sleeper wakes, if there is any.
MutantNoWake == UNCHANGED notEmpty
SignalNotEmpty == IF notEmpty = {} THEN UNCHANGED notEmpty
                  ELSE \E t \in notEmpty : notEmpty' = notEmpty \ {t}

SignalNotFull == IF notFull = {} THEN UNCHANGED notFull
                 ELSE \E t \in notFull : notFull' = notFull \ {t}

\* pthread_cond_broadcast on both variables.
MutantWakeConsumersOnly == notEmpty' = {} /\ UNCHANGED notFull
WakeAll == notEmpty' = {} /\ notFull' = {}

\* POSIX lets pthread_cond_wait return although nobody signalled.
SpuriousWakeup(t) ==
    /\ spurious < MaxSpurious
    /\ t \in notEmpty \cup notFull
    /\ notEmpty' = notEmpty \ {t}
    /\ notFull' = notFull \ {t}
    /\ spurious' = spurious + 1
    /\ UNCHANGED <<ring, mutex, pc, memory>>

-----------------------------------------------------------------------------
(* H264PacketQueue_Push                                                    *)

NextSlot(i) == (i + 1) % Capacity

Full  == count = Capacity
Empty == count = 0

\* The copy is made before the mutex is taken.
PushBegin(t) ==
    /\ pc[t] = "idle"
    /\ allocated < MaxPackets
    /\ allocated' = allocated + 1
    /\ heap' = heap \cup {allocated + 1}
    /\ mine' = [mine EXCEPT ![t] = allocated + 1]
    /\ Goto(t, "push lock")
    /\ UNCHANGED <<ring, mutex, notEmpty, notFull, spurious>>

PushLock(t) == Acquire(t, "push lock", "pushing")

PushWait(t) ==
    /\ pc[t] = "pushing"
    /\ Full /\ ~stop
    /\ notFull' = notFull \cup {t}
    /\ Unlock(t)
    /\ Goto(t, "push lock")
    /\ UNCHANGED <<ring, notEmpty, memory, spurious>>

PushRefused(t) ==
    /\ pc[t] = "pushing"
    /\ stop
    /\ Unlock(t)
    /\ Goto(t, "dropping")
    /\ UNCHANGED <<ring, notEmpty, notFull, memory, spurious>>

\* The refused copy is freed; 0 makes the TCP thread leave its loop and stop.
MutantKeepRefused(t) ==
    /\ pc[t] = "dropping"
    /\ mine' = [mine EXCEPT ![t] = NoPacket]
    /\ Goto(t, "stop lock")
    /\ UNCHANGED <<ring, mutex, notEmpty, notFull, heap, allocated, spurious>>

DropRefused(t) ==
    /\ pc[t] = "dropping"
    /\ heap' = heap \ {mine[t]}
    /\ mine' = [mine EXCEPT ![t] = NoPacket]
    /\ Goto(t, "stop lock")
    /\ UNCHANGED <<ring, mutex, notEmpty, notFull, allocated, spurious>>

MutantPushAfterStop(t) ==
    /\ pc[t] = "pushing"
    /\ ~Full
    /\ packets' = [packets EXCEPT ![rear] = mine[t]]
    /\ mine' = [mine EXCEPT ![t] = NoPacket]
    /\ rear' = NextSlot(rear)
    /\ count' = count + 1
    /\ SignalNotEmpty
    /\ Unlock(t)
    /\ Goto(t, "idle")
    /\ UNCHANGED <<front, stop, notFull, heap, allocated, spurious>>

PushStore(t) ==
    /\ pc[t] = "pushing"
    /\ ~Full /\ ~stop
    /\ packets' = [packets EXCEPT ![rear] = mine[t]]
    /\ mine' = [mine EXCEPT ![t] = NoPacket]
    /\ rear' = NextSlot(rear)
    /\ count' = count + 1
    /\ SignalNotEmpty
    /\ Unlock(t)
    /\ Goto(t, "idle")
    /\ UNCHANGED <<front, stop, notFull, heap, allocated, spurious>>

-----------------------------------------------------------------------------
(* H264PacketQueue_Pop and H264Packet_Free                                 *)

PopBegin(t) ==
    /\ pc[t] = "idle"
    /\ Goto(t, "pop lock")
    /\ UNCHANGED <<ring, mutex, notEmpty, notFull, memory, spurious>>

PopLock(t) == Acquire(t, "pop lock", "popping")

PopWait(t) ==
    /\ pc[t] = "popping"
    /\ Empty /\ ~stop
    /\ notEmpty' = notEmpty \cup {t}
    /\ Unlock(t)
    /\ Goto(t, "pop lock")
    /\ UNCHANGED <<ring, notFull, memory, spurious>>

PopEnd(t) ==
    /\ pc[t] = "popping"
    /\ Empty /\ stop
    /\ Unlock(t)
    /\ Goto(t, "done")
    /\ UNCHANGED <<ring, notEmpty, notFull, memory, spurious>>

\* The pointer moves to the caller, the slot forgets it.
MutantKeepSlot(t) == mine' = [mine EXCEPT ![t] = packets[front]]
                     /\ UNCHANGED packets
TakeFront(t) == /\ mine' = [mine EXCEPT ![t] = packets[front]]
                /\ packets' = [packets EXCEPT ![front] = NoPacket]

PopTake(t) ==
    /\ pc[t] = "popping"
    /\ ~Empty
    /\ TakeFront(t)
    /\ front' = NextSlot(front)
    /\ count' = count - 1
    /\ SignalNotFull
    /\ Unlock(t)
    /\ Goto(t, "using")
    /\ UNCHANGED <<rear, stop, notEmpty, heap, allocated, spurious>>

\* The decoder is through with the packet (H264Packet_Free).
FreePacket(t) ==
    /\ pc[t] = "using"
    /\ heap' = heap \ {mine[t]}
    /\ mine' = [mine EXCEPT ![t] = NoPacket]
    /\ Goto(t, "idle")
    /\ UNCHANGED <<ring, mutex, notEmpty, notFull, allocated, spurious>>

-----------------------------------------------------------------------------
(* H264PacketQueue_Stop and H264PacketQueue_Destroy                        *)

\* A producer at the end of its input or out of memory for its copy, or main
\* leaving its loop.
StopBegin(t) ==
    /\ pc[t] = "idle"
    /\ Goto(t, "stop lock")
    /\ UNCHANGED <<ring, mutex, notEmpty, notFull, memory, spurious>>

StopLock(t) == Acquire(t, "stop lock", "stopping")

StopBody(t) ==
    /\ pc[t] = "stopping"
    /\ stop' = TRUE
    /\ WakeAll
    /\ Unlock(t)
    /\ Goto(t, IF t = Owner THEN "joining" ELSE "done")
    /\ UNCHANGED <<packets, front, rear, count, memory, spurious>>

\* pthread_join returned for both threads, then the queue goes away with
\* whatever no consumer took.
Joined == \A t \in Threads \ {Owner} : pc[t] = "done"

Destroy ==
    /\ pc[Owner] = "joining"
    /\ Joined
    /\ heap' = heap \ {packets[i] : i \in Slots}
    /\ packets' = [i \in Slots |-> NoPacket]
    /\ front' = 0 /\ rear' = 0 /\ count' = 0 /\ stop' = TRUE
    /\ Goto(Owner, "done")
    /\ UNCHANGED <<mutex, notEmpty, notFull, mine, allocated, spurious>>

-----------------------------------------------------------------------------
Running(t) == PushLock(t) \/ PushWait(t) \/ PushRefused(t) \/ DropRefused(t)
              \/ PushStore(t) \/ PopLock(t) \/ PopWait(t) \/ PopEnd(t)
              \/ PopTake(t) \/ FreePacket(t) \/ StopLock(t) \/ StopBody(t)

\* Every thread returned: the process exits.
AllDone == \A t \in Threads : pc[t] = "done"
Finished == AllDone /\ UNCHANGED vars

Next == \/ \E t \in Threads : Running(t) \/ SpuriousWakeup(t)
        \/ \E t \in Producers : PushBegin(t)
        \/ \E t \in Consumers : PopBegin(t)
        \/ \E t \in Producers \cup {Owner} : StopBegin(t)
        \/ Destroy
        \/ Finished

Spec == Init /\ [][Next]_vars

(* Scheduling: a runnable thread runs.  A producer may block in recv, but   *)
(* whoever stops the queue has closed its socket or is it; main leaves its *)
(* loop once there is no decoder thread.                                   *)
Fairness ==
    /\ \A t \in Threads : WF_vars(Running(t))
    /\ \A t \in Consumers : WF_vars(PopBegin(t))
    /\ \A t \in Producers : WF_vars(stop /\ StopBegin(t))
    /\ WF_vars((\A t \in Consumers : pc[t] = "done") /\ StopBegin(Owner))
    /\ WF_vars(Destroy)

FairSpec == Spec /\ Fairness

-----------------------------------------------------------------------------
(* Properties                                                              *)

\* The type of every variable.
TypeOK ==
    /\ packets \in [Slots -> Packets \cup {NoPacket}]
    /\ front \in Slots /\ rear \in Slots /\ count \in 0 .. Capacity
    /\ stop \in BOOLEAN
    /\ mutex \in Threads \cup {NoThread}
    /\ notEmpty \subseteq Threads /\ notFull \subseteq Threads
    /\ pc \in [Threads -> Labels]
    /\ mine \in [Threads -> Packets \cup {NoPacket}]
    /\ heap \subseteq Packets
    /\ allocated \in 0 .. MaxPackets
    /\ spurious \in 0 .. MaxSpurious

\* Mutual exclusion: a thread executes a critical section exactly while it
\* holds the mutex, and only threads at their lock step sleep, producers on
\* not_full and consumers on not_empty.
MutexInv ==
    /\ \A t \in Threads :
          (mutex = t) <=> pc[t] \in {"pushing", "popping", "stopping"}
    /\ \A t \in notEmpty : t \in Consumers /\ pc[t] = "pop lock"
    /\ \A t \in notFull : t \in Producers /\ pc[t] = "push lock"

\* The i-th packet of the queue counted from front, and how far slot s is
\* from front.
SlotOf(i) == IF front + i < Capacity THEN front + i ELSE front + i - Capacity
Offset(s) == IF s >= front THEN s - front ELSE s - front + Capacity

\* The ring: the occupied slots are the count slots from front on, and rear is
\* the first free one (front itself when the ring is full).  Push and Pop only
\* keep this together: neither looks at the slots between front and rear.
RingInv ==
    /\ rear = SlotOf(count)
    /\ \A s \in Slots : packets[s] # NoPacket <=> Offset(s) < count

\* Ownership: each pointer (slot or local variable) refers to a live block, no
\* two refer to the same one (so none is freed twice), and every live block is
\* reachable from one of them (none leaks).
OwnInv ==
    /\ \A s \in Slots : packets[s] \in heap \cup {NoPacket}
    /\ \A t \in Threads : mine[t] \in heap \cup {NoPacket}
    /\ \A s, r \in Slots : packets[s] = packets[r] => s = r \/ packets[s] = NoPacket
    /\ \A t, u \in Threads : mine[t] = mine[u] => t = u \/ mine[t] = NoPacket
    /\ \A s \in Slots, t \in Threads : packets[s] = mine[t] => mine[t] = NoPacket
    /\ \A b \in heap : \/ \E s \in Slots : packets[s] = b
                       \/ \E t \in Threads : mine[t] = b
    /\ \A b \in heap : b <= allocated

\* No wakeup is lost.  Each Push and Pop signals one thread only, yet while
\* consumers sleep at least as many others are awake inside Pop as there are
\* packets, while producers sleep as many others are awake inside Push as there
\* are free slots, and nobody sleeps on a stopped queue.
NoLostWakeup ==
    LET awake(S, labels, asleep) ==
            Cardinality({t \in S \ asleep : pc[t] \in labels})
    IN /\ notEmpty # {} =>
             awake(Consumers, {"pop lock", "popping"}, notEmpty) >= count
       /\ notFull # {} =>
             awake(Producers, {"push lock", "pushing"}, notFull) >= Capacity - count
       /\ stop => notEmpty = {} /\ notFull = {}

\* The queue is a StopChannel: packets come out in the order they went in,
\* none is lost or repeated, no packet enters after Stop, and only a stopped
\* queue is destroyed.
Content == [i \in 1 .. count |-> packets[SlotOf(i - 1)]]
Chan == INSTANCE StopChannel WITH
            Values <- Packets, Bound <- Capacity, chan <- Content, closed <- stop
RefinesChannel == Chan!Spec

\* Stop ends the pipeline: producers and consumers return, wherever they were
\* blocked, main gets past its joins, and every block that was allocated has been
\* freed by then, whether it was consumed, refused after Stop, or found in a slot
\* by Destroy.
StopTerminates == stop ~> AllDone /\ heap = {}
=============================================================================
