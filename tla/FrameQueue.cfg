\* Five pictures: two queued, one decoded, one rendered and one to spare.
CONSTANTS
    y1 = y1
    y2 = y2
    y3 = y3
    y4 = y4
    y5 = y5
    Pictures <- FivePictures
    Capacity = 2
    MaxFrames = 4
SPECIFICATION FairSpec
INVARIANTS RefsExact FrameIntact
PROPERTIES RefinesChannel CallsReturn StopDestroys
