\* The process ends in exit() or in main's return; the model with the first frame.
CONSTANTS
    CAMERA_BUF_COUNT = 4
    Formats <- MCFormats
    Screens <- MCScreens
SPECIFICATION FirstFrameSpec
INVARIANTS FailureIsUndone ReadyToRun StaysInBuffers PictureArrives
CHECK_DEADLOCK FALSE
