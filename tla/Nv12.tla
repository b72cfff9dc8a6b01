-------------------------------- MODULE Nv12 --------------------------------
(***************************************************************************)
(* One camera buffer read by both workers: NV12_To_RGB of                  *)
(* client_rk3568/DRM_lcd.c draws it on the LCD pixel by pixel, and         *)
(* MPP_Encode of client_rk3568/mpp.c copies it row by row into the         *)
(* encoder's input buffer.                                                 *)
(*                                                                         *)
(* A byte is what it is a sample of: <<"Y", x, y>>, or <<"U", x, y>> and   *)
(* <<"V", x, y>> for the 2 x 2 pixels that begin at (x, y), which NV12     *)
(* stores in turn.  A row occupies bytesperline bytes, of which width are  *)
(* samples.  The LCD is a mapping of its own size, with rows of its own    *)
(* length, that the code never compares with the camera's.  The arithmetic *)
(* that makes a 32-bit pixel from three samples is left out: each of the   *)
(* pixel's four bytes holds the samples.                                   *)
(***************************************************************************)
EXTENDS Naturals

CONSTANTS Formats,     \* formats the camera may settle on
          Screens      \* dumb buffers the driver may create for the LCD's mode

VARIABLES
    camera,            \* the format in the Camera_handle
    dumbbuffer,        \* the mode's width and height, and the driver's pitch
    x, y, lcd_map,     \* NV12_To_RGB: the next pixel, the bytes of the mapping
    plane, row, dst,   \* MPP_Encode: the next row to copy, the encoder's buffer
    read               \* history: offsets into the camera's buffer that were read

lcd  == <<x, y, lcd_map>>
enc  == <<plane, row, dst>>
vars == <<camera, dumbbuffer, lcd, enc, read>>

Pixels     == (0 .. camera.width - 1) \X (0 .. camera.height - 1)
ImageSize  == (camera.bytesperline * camera.height * 3) \div 2
hor_stride == camera.bytesperline      \* main gives it to MPP_Init
FrameSize  == (hor_stride * camera.height * 3) \div 2
Even(n)    == (n \div 2) * 2
Padding    == <<"padding">>
NotDrawn   == <<"background">>

\* The mapping: dumbbuffer.size, which the driver may round up.
MapSize   == dumbbuffer.pitch * dumbbuffer.height
InMapping == DOMAIN lcd_map = 0 .. MapSize - 1

\* What the driver stores: row y of the Y plane, then row y of the UV plane.
Layout(stride, offset) ==
    LET line == offset \div stride
        col  == offset % stride
    IN IF col >= camera.width THEN Padding
       ELSE IF line < camera.height THEN <<"Y", col, line>>
       ELSE <<IF col % 2 = 0 THEN "U" ELSE "V", Even(col), 2 * (line - camera.height)>>
Data(offset) == Layout(camera.bytesperline, offset)

Init ==
    /\ camera \in Formats
    /\ dumbbuffer \in Screens
    /\ x = 0 /\ y = 0 /\ lcd_map = [o \in 0 .. MapSize - 1 |-> NotDrawn]
    /\ plane = "Y" /\ row = 0 /\ dst = [o \in 0 .. FrameSize - 1 |-> Padding]
    /\ read = {}

-----------------------------------------------------------------------------
(* NV12_To_RGB.                                                            *)

Y_index == y * camera.width + x
MutantUvIndex == camera.height * camera.width + y * camera.width + Even(x)
UV_index == camera.height * camera.width + (y \div 2) * camera.width + Even(x)

\* lcd_line[x], in a mapping whose rows are lcd_pitch long.
MutantPixelOffset == y * (4 * camera.width) + 4 * x
PixelOffset == y * dumbbuffer.pitch + 4 * x

\* A write past the end of the mapping is undefined: here the memory grows by it, and
\* what the LCD shows is only promised if there was none (InMapping).
DrawPixel ==
    /\ y < camera.height
    /\ lcd_map' = [o \in DOMAIN lcd_map \cup PixelOffset .. PixelOffset + 3 |->
                     IF o \in PixelOffset .. PixelOffset + 3
                     THEN <<Data(Y_index), Data(UV_index), Data(UV_index + 1)>>
                     ELSE lcd_map[o]]
    /\ read' = read \cup {Y_index, UV_index, UV_index + 1}
    /\ IF x + 1 < camera.width THEN x' = x + 1 /\ UNCHANGED y
                               ELSE x' = 0 /\ y' = y + 1
    /\ UNCHANGED <<camera, dumbbuffer, enc>>

-----------------------------------------------------------------------------
(* MPP_Encode, after the memset of the whole buffer.                       *)

Rows == IF plane = "Y" THEN camera.height ELSE camera.height \div 2

\* Where the plane begins in a buffer with rows of this stride; ver_stride is the
\* height.
MutantPlane(stride) == IF plane = "Y" THEN 0 ELSE camera.width * camera.height
Plane(stride) == IF plane = "Y" THEN 0 ELSE stride * camera.height

CopyRow ==
    LET from == Plane(camera.bytesperline) + row * camera.bytesperline
        to   == Plane(hor_stride) + row * hor_stride
        span == 0 .. camera.width - 1
    IN /\ row < Rows
       /\ dst' = [o \in DOMAIN dst \cup {to + i : i \in span} |->
                    IF o \in to .. to + camera.width - 1 THEN Data(from + o - to) ELSE dst[o]]
       /\ read' = read \cup {from + i : i \in span}
       /\ row' = row + 1
       /\ UNCHANGED <<camera, dumbbuffer, lcd, plane>>

NextPlane ==
    /\ plane = "Y" /\ row = Rows
    /\ plane' = "UV" /\ row' = 0
    /\ UNCHANGED <<camera, dumbbuffer, lcd, dst, read>>

\* The two threads work on the buffer at the same time.
Next == DrawPixel \/ CopyRow \/ NextPlane

Spec == Init /\ [][Next]_vars

-----------------------------------------------------------------------------
(* Properties.                                                             *)

Drawn  == y = camera.height
Copied == plane = "UV" /\ row = Rows

\* The picture is no larger than the LCD's mode; no test in the code says so.
FitsMode == camera.width <= dumbbuffer.width /\ camera.height <= dumbbuffer.height

\* Neither worker reads beyond the image the camera delivered, MPP_Encode writes
\* inside the encoder's buffer, and NV12_To_RGB inside the mapping as long as the
\* picture is no larger than the LCD.
StaysInBuffers ==
    /\ \A o \in read : o < ImageSize
    /\ DOMAIN dst = 0 .. FrameSize - 1
    /\ FitsMode => InMapping

Sampled(p) ==
    <<<<"Y", p[1], p[2]>>, <<"U", Even(p[1]), Even(p[2])>>, <<"V", Even(p[1]), Even(p[2])>>>>

\* What the LCD scans out, and from where.
OnScreen   == (0 .. dumbbuffer.width - 1) \X (0 .. dumbbuffer.height - 1)
Byte(p, i) == p[2] * dumbbuffer.pitch + 4 * p[1] + i
Shows(p, samples) == \A i \in 0 .. 3 : lcd_map[Byte(p, i)] = samples

\* The encoder's buffer ends up with the camera's picture, and nothing in its
\* padding.  When the camera's rows have no padding and nothing was written past the
\* mapping, every pixel of the picture that is on the screen shows its own samples, also
\* if rows run into one another beyond the screen's edge; and around a picture that
\* fits the screen keeps its background.  NV12_To_RGB takes the width for the length of a row, so with padding
\* it promises nothing.
PictureArrives ==
    /\ Copied => \A o \in DOMAIN dst : dst[o] = Layout(hor_stride, o)
    /\ Drawn /\ InMapping /\ camera.bytesperline = camera.width =>
           \A p \in OnScreen : /\ p \in Pixels => Shows(p, Sampled(p))
                              /\ p \notin Pixels /\ FitsMode => Shows(p, NotDrawn)
=============================================================================
