\* Five packets block both threads: two in the packet queue, one in the frame
\* queue, one in each thread's hand.
CONSTANTS
    PacketCap = 2
    FrameCap = 1
    Delay = 1
    MaxPackets = 5
SPECIFICATION Spec
INVARIANTS InOrder NothingLost DrainedAtExit
