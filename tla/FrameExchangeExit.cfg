\* After an ioctl fails: does main ever get past its joins?
CONSTANTS
    imx415 = imx415
    lcd = lcd
    mpp = mpp
    b1 = b1
    b2 = b2
    b3 = b3
    Camera = imx415
    Workers <- BothWorkers
    Buffers <- ThreeBuffers
SPECIFICATION JoinSpec
PROPERTIES CameraExitReleasesAll
\* The client really stops: after the camera thread exits, the workers wait for good.
CHECK_DEADLOCK FALSE
