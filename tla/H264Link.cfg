\* Headers of two bytes, payloads of one to three, a window in which a header and
\* part of a payload, or the end of one packet and the start of the next, meet;
\* two sequence numbers, so that four packets wrap around twice.
CONSTANTS
    HeaderSize = 2
    MaxPayloadSize = 3
    Window = 4
    SequenceMod = 2
    MaxPackets = 4
SPECIFICATION FairSpec
INVARIANTS InStep DeliveredIntact
PROPERTIES RefinesChannel SentIsDelivered
\* A connection ends.
CHECK_DEADLOCK FALSE
