------------------------------- MODULE Display -------------------------------
(***************************************************************************)
(* server_pc/SDL_display.c, driven by main: the window and its renderer,   *)
(* the texture that is kept from frame to frame, and where in the window   *)
(* a frame is drawn.                                                       *)
(*                                                                         *)
(* SDL is external: it creates what it is asked for or fails, and the user *)
(* may resize the window, which the renderer learns when main polls for    *)
(* events.  A texture is its width, height and format.                     *)
(***************************************************************************)
EXTENDS Naturals

CONSTANTS Sides,          \* widths and heights of frames
          WindowSides,    \* of the window; 0 when it is minimised
          Formats         \* pixel formats of frames

ASSUME DisplayAssumption ==
    /\ Sides \subseteq Nat \ {0} /\ WindowSides \subseteq Nat

VARIABLES
    pc,
    live, textures,                         \* SDL objects that exist
    texture,                                \* display->texture
    texture_width, texture_height, frame_format,    \* what the texture was made for
    initialized,
    frame,                                  \* RenderFrame's argument
    window,                                 \* the renderer's output size
    dst_rect                                \* where the frame goes in which output

cached      == <<texture, texture_width, texture_height, frame_format>>
objects     == <<live, textures>>
displayVars == <<pc, objects, cached, initialized, frame, window, dst_rect>>

Frames  == [width : Sides, height : Sides, format : Formats]
Windows == [width : WindowSides, height : WindowSides]
NULL    == [null |-> TRUE]

\* get_sdl_pixel_format: both planar formats are IYUV to SDL.
PixelFormat == [YUV420P |-> "IYUV", YUVJ420P |-> "IYUV", NV12 |-> "NV12", NV21 |-> "NV21"]
Supported(f) == f.format \in DOMAIN PixelFormat

DisplayInit ==
    /\ pc = "init sdl" /\ live = {} /\ textures = {}
    /\ texture = NULL /\ texture_width = 0 /\ texture_height = 0
    /\ frame_format = "NONE" /\ initialized = FALSE
    /\ frame = NULL /\ window \in Windows /\ dst_rect = NULL

Goto(label) == pc' = label

-----------------------------------------------------------------------------
(* SDL_Display_Init.                                                       *)

InitSDL ==
    /\ pc = "init sdl"
    /\ \/ live' = live \cup {"video"} /\ Goto("create window")
       \/ UNCHANGED live /\ Goto("exit")
    /\ UNCHANGED <<textures, cached, initialized, frame, window, dst_rect>>

CreateWindow ==
    /\ pc = "create window"
    /\ \/ live' = live \cup {"window"} /\ Goto("create renderer")
       \/ live' = live \ {"video"} /\ Goto("exit")
    /\ UNCHANGED <<textures, cached, initialized, frame, window, dst_rect>>

\* The accelerated renderer, or the fallback; without either the window goes.
MutantRendererFails == live \ {"video"}
AfterRendererFails == live \ {"window", "video"}

CreateRenderer ==
    /\ pc = "create renderer"
    /\ \/ live' = live \cup {"renderer"} /\ initialized' = TRUE /\ Goto("loop")
       \/ live' = AfterRendererFails /\ UNCHANGED initialized /\ Goto("exit")
    /\ UNCHANGED <<textures, cached, frame, window, dst_rect>>

-----------------------------------------------------------------------------
(* SDL_Display_RenderFrame.                                                *)

RenderBegin(f) ==
    /\ pc = "loop" /\ Supported(f)
    /\ frame' = f
    /\ Goto("texture")
    /\ UNCHANGED <<objects, cached, initialized, window, dst_rect>>

\* An unsupported format: RenderFrame fails and main leaves its loop.
RenderRefused(f) ==
    /\ pc = "loop" /\ ~Supported(f)
    /\ Goto("destroy texture")
    /\ UNCHANGED <<objects, cached, initialized, frame, window, dst_rect>>

\* create_texture.
MutantSameSize == texture # NULL /\ texture_width = frame.width /\ texture_height = frame.height
CacheHit == /\ texture # NULL
            /\ texture_width = frame.width /\ texture_height = frame.height
            /\ frame_format = frame.format

TextureKept ==
    /\ pc = "texture" /\ CacheHit
    /\ Goto("update")
    /\ UNCHANGED <<objects, cached, initialized, frame, window, dst_rect>>

WithoutOld == textures \ {texture}

TextureFor(f) == [width |-> f.width, height |-> f.height, format |-> PixelFormat[f.format]]

TextureCreated ==
    /\ pc = "texture" /\ ~CacheHit
    /\ texture' = TextureFor(frame)
    /\ textures' = WithoutOld \cup {texture'}
    /\ texture_width' = frame.width /\ texture_height' = frame.height
    /\ frame_format' = frame.format
    /\ Goto("update")
    /\ UNCHANGED <<live, initialized, frame, window, dst_rect>>

\* The old texture is gone; its size and format stay behind.
TextureFails ==
    /\ pc = "texture" /\ ~CacheHit
    /\ textures' = WithoutOld
    /\ texture' = NULL
    /\ Goto("destroy texture")
    /\ UNCHANGED <<live, texture_width, texture_height, frame_format, initialized,
                   frame, window, dst_rect>>

Update ==
    /\ pc = "update"
    /\ Goto("rect")
    /\ UNCHANGED <<objects, cached, initialized, frame, window, dst_rect>>

\* calculate_display_rect.  Sizes are exact as doubles, and so is the comparison
\* of the ratios; their product may fall just below a whole number, and is then
\* truncated to one less.
Scaled(side, num, den) ==
    LET exact == side * num
    IN {exact \div den} \cup {q \in {(exact \div den) - 1} : exact > 0 /\ exact % den = 0}

MutantWider(out) == out.width * texture_height < out.height * texture_width
Wider(out) == out.width * texture_height > out.height * texture_width

Rects(out) ==
    IF Wider(out)
    THEN {[x |-> (out.width - w) \div 2, y |-> 0, w |-> w, h |-> out.height] :
             w \in Scaled(out.height, texture_width, texture_height)}
    ELSE {[x |-> 0, y |-> (out.height - h) \div 2, w |-> out.width, h |-> h] :
             h \in Scaled(out.width, texture_height, texture_width)}

\* The output size is the window's; when SDL cannot tell, the texture's.
CalculateRect ==
    /\ pc = "rect"
    /\ \E out \in {window, [width |-> texture_width, height |-> texture_height]} :
       \E rect \in Rects(out) :
           dst_rect' = [out |-> out, rect |-> rect]
    /\ Goto("present")
    /\ UNCHANGED <<objects, cached, initialized, frame, window>>

Present ==
    /\ pc = "present"
    /\ frame' = NULL /\ dst_rect' = NULL
    /\ Goto("loop")
    /\ UNCHANGED <<objects, cached, initialized, window>>

\* Updating, clearing or copying failed.
RenderFrameFails ==
    /\ pc \in {"update", "present"}
    /\ Goto("destroy texture")
    /\ UNCHANGED <<objects, cached, initialized, frame, window, dst_rect>>

-----------------------------------------------------------------------------
(* SDL_Display_PollQuit and the user.                                      *)

PollQuit ==
    /\ pc = "loop"
    /\ Goto("destroy texture")
    /\ UNCHANGED <<objects, cached, initialized, frame, window, dst_rect>>

Resize ==
    /\ pc = "loop"
    /\ window' \in Windows
    /\ UNCHANGED <<pc, objects, cached, initialized, frame, dst_rect>>

-----------------------------------------------------------------------------
(* SDL_Display_Destroy.                                                    *)

DestroyTexture ==
    /\ pc = "destroy texture"
    /\ textures' = WithoutOld
    /\ texture' = NULL
    /\ Goto("destroy renderer")
    /\ UNCHANGED <<live, texture_width, texture_height, frame_format, initialized,
                   frame, window, dst_rect>>

DestroyRenderer ==
    /\ pc = "destroy renderer"
    /\ live' = live \ {"renderer"}
    /\ Goto("destroy window")
    /\ UNCHANGED <<textures, cached, initialized, frame, window, dst_rect>>

DestroyWindow ==
    /\ pc = "destroy window"
    /\ live' = live \ {"window"}
    /\ Goto("quit sdl")
    /\ UNCHANGED <<textures, cached, initialized, frame, window, dst_rect>>

QuitSDL ==
    /\ pc = "quit sdl"
    /\ live' = IF initialized THEN live \ {"video"} ELSE live
    /\ initialized' = FALSE
    /\ texture_width' = 0 /\ texture_height' = 0 /\ frame_format' = "NONE"
    /\ Goto("exit")
    /\ UNCHANGED <<textures, texture, frame, window, dst_rect>>

-----------------------------------------------------------------------------
DisplayEnded == pc = "exit" /\ UNCHANGED displayVars

DisplayNext == \/ InitSDL \/ CreateWindow \/ CreateRenderer
        \/ \E f \in Frames : RenderBegin(f) \/ RenderRefused(f)
        \/ TextureKept \/ TextureCreated \/ TextureFails
        \/ Update \/ CalculateRect \/ Present \/ RenderFrameFails
        \/ PollQuit \/ Resize
        \/ DestroyTexture \/ DestroyRenderer \/ DestroyWindow \/ QuitSDL
        \/ DisplayEnded

DisplaySpec == DisplayInit /\ [][DisplayNext]_displayVars

-----------------------------------------------------------------------------
(* Properties                                                              *)

Textures == [width : Sides, height : Sides, format : {"IYUV", "NV12", "NV21"}]

\* The type of every variable.
DisplayTypeOK ==
    /\ pc \in {"init sdl", "create window", "create renderer", "loop", "texture",
              "update", "rect", "present", "destroy texture",
              "destroy renderer", "destroy window", "quit sdl", "exit"}
    /\ live \subseteq {"video", "window", "renderer"} /\ textures \subseteq Textures
    /\ texture \in Textures \cup {NULL}
    /\ {texture_width, texture_height} \subseteq Sides \cup {0}
    /\ frame_format \in Formats \cup {"NONE"} /\ initialized \in BOOLEAN
    /\ frame \in Frames \cup {NULL} /\ window \in Windows

\* A frame is copied into a texture that exists and has its size and the SDL
\* format of its planes, whatever sizes and formats came before.
TextureFits == pc \in {"update", "rect", "present"} =>
                   texture = TextureFor(frame) /\ texture \in textures

\* SDL objects are neither leaked nor used too long: there is at most one texture,
\* the display's; no texture outlives the renderer, no renderer the window and no
\* window SDL; and at the end, also of an Init that failed, nothing is left.
ObjectsNested ==
    /\ textures = {texture} \ {NULL}
    /\ textures # {} => "renderer" \in live
    /\ "renderer" \in live => "window" \in live
    /\ "window" \in live => "video" \in live
    /\ pc = "exit" => live = {} /\ textures = {}

Within(a, b, slack) == a <= b + slack /\ b <= a + slack

\* The picture fills the output in one direction and is centred in the other,
\* inside the output and within a pixel of its own aspect ratio, for every size
\* of frame and window, also of a minimised one.
Letterboxed ==
    dst_rect # NULL =>
        LET f == frame   out == dst_rect.out   r == dst_rect.rect
        IN /\ r.x + r.w <= out.width /\ r.y + r.h <= out.height
           /\ Within(r.x, out.width - r.w - r.x, 1)
           /\ Within(r.y, out.height - r.h - r.y, 1)
           /\ \/ r.h = out.height /\ Within(r.w * f.height, r.h * f.width, f.height)
              \/ r.w = out.width  /\ Within(r.h * f.width, r.w * f.height, f.width)
=============================================================================
