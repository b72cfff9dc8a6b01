\* The three threads of the client; three buffers are enough for one to be out
\* while others are filled (the camera asks the driver for four).
CONSTANTS
    imx415 = imx415
    lcd = lcd
    mpp = mpp
    b1 = b1
    b2 = b2
    b3 = b3
    Camera = imx415
    Workers <- BothWorkers
    Buffers <- ThreeBuffers
SPECIFICATION FairSpec
INVARIANTS BufferExclusive NoLostWakeup
PROPERTIES RefinesHandoff StreamContinues
\* The client really stops: after the camera thread exits, the workers wait for good.
CHECK_DEADLOCK FALSE
