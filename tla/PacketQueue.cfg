\* Two producers and two consumers, the least for which a signal can reach the
\* wrong thread; the server runs one of each, and a thread may stay idle.
CONSTANTS
    p1 = p1
    p2 = p2
    c1 = c1
    c2 = c2
    main = main
    Owner = main
    Producers <- TwoProducers
    Consumers <- TwoConsumers
    Capacity = 2
    MaxPackets = 4
    MaxSpurious = 1
SPECIFICATION FairSpec
INVARIANTS OwnInv NoLostWakeup
PROPERTIES RefinesChannel StopTerminates
