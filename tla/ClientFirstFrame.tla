-------------------------- MODULE ClientFirstFrame --------------------------
(***************************************************************************)
(* The client from its first call to its first frame: ClientStartup, and,  *)
(* once the threads run, the two workers that read the camera's first      *)
(* buffer at the same time (Nv12).  The format is the one the camera       *)
(* settled on during the start; only MPP_Init looks at it, but the LCD     *)
(* depends on it, too.  So does it on the dumb buffer, whose size is that  *)
(* of the LCD's first mode and whose pitch is the driver's choice.         *)
(***************************************************************************)
EXTENDS ClientStartup

CONSTANT Screens       \* dumb buffers the driver may create for the LCD's mode

\* drmModeAddFB, without which DRM_LCD_Init fails, refuses a pitch that does not hold
\* the mode's pixels of four bytes.
ASSUME ScreenAssumption ==
    /\ Screens \subseteq [width : Nat, height : Nat, pitch : Nat]
    /\ \A s \in Screens : 4 * s.width <= s.pitch

VARIABLES dumbbuffer, x, y, lcd_map, plane, row, dst, read

start   == <<pc, rung, todo, balance, screen, granted, old_crtc, refused>>
picture == <<dumbbuffer, x, y, lcd_map, plane, row, dst, read>>

Frame == INSTANCE Nv12

FirstFrameInit == Init /\ Frame!Init

\* The threads read what the camera put into its buffers.
ReadFrame == pc = "run" /\ Frame!Next /\ UNCHANGED start

FirstFrameNext == \/ Next /\ UNCHANGED picture
                  \/ ReadFrame

FirstFrameSpec == FirstFrameInit /\ [][FirstFrameNext]_<<vars, picture>>

-----------------------------------------------------------------------------
(* Properties.                                                             *)

\* Whatever format the camera settles on, neither worker leaves its buffers: a format
\* in which one would never gets past MPP_Init, but for a picture larger than the LCD.
StaysInBuffers == Frame!StaysInBuffers

\* The encoder, and without padding the LCD, get every sample of the picture.
PictureArrives == Frame!PictureArrives
=============================================================================
