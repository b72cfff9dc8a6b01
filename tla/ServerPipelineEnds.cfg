\* Does the process end, and the stream move, whatever blocks?  Four packets
\* block both threads in Push: one in each queue and one in each hand.
CONSTANTS
    PacketCap = 1
    FrameCap = 1
    Delay = 0
    MaxPackets = 4
SPECIFICATION FairSpec
PROPERTIES AbortExits DisconnectExits BackpressureYields
