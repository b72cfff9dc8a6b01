\* The memory of a first packet of one byte has room for a second one of two bytes
\* but not of three.  Four frames leave room for two lost ones.
CONSTANTS
    HeaderLen = 1
    Slack = 0
    MaxLen = 3
    MaxFrames = 4
SPECIFICATION FairSpec
INVARIANTS HeaderFirst NothingSentTwice PicturesGoForward
PROPERTIES EncodeReturns
