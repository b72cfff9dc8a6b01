----------------------- MODULE ClientFirstFrame_proofs -----------------------
(***************************************************************************)
(* Proofs about the client's start and its first frame, for every number   *)
(* of buffers and every format: every invariant of the run.                *)
(*                                                                         *)
(* Each resource is acquired at one rung of the ladder, <<At>>, and the    *)
(* temporaries of MPP_Init are released at one, <<Until>>; so what is held *)
(* follows from the rung.  The readers only run above the rung that checks *)
(* the size, where the format is one that keeps them in the image.         *)
(***************************************************************************)
EXTENDS ClientFirstFrame, SequenceTheorems, TLAPS

-----------------------------------------------------------------------------
(* The ladder, rung by rung.                                               *)

\* The last rungs of the camera, the LCD, the encoder and the connection.
CameraTop == 5 + 2 * granted
LcdTop    == CameraTop + 10
MppTop    == LcdTop + 13
TcpTop    == MppTop + 3

LcdRung == [fd |-> 1, res |-> 2, conn |-> 3, enc |-> 4, old_crtc |-> 5, dumb |-> 6,
            framebuffer |-> 7, map |-> 9]
MppRung == [ctx |-> 2, cfg |-> 6, buf_group |-> 8, buffer |-> 9, header_packet |-> 11,
            header_ptr |-> 13]

\* The rung that acquires a resource, 0 when none does; the share is acquired when
\* the ladder is behind main.
At(r) ==
    CASE r = <<"camera", "fd", 0>>                          -> 1
      [] r[1] = "camera" /\ r[2] = "mapped" /\ r[3] <= granted -> 4 + r[3]
      [] r[1] = "camera" /\ r[2] = "queued" /\ r[3] <= granted -> 4 + granted + r[3]
      [] r = <<"camera", "streaming", 0>>                   -> CameraTop
      [] r[1] = "lcd" /\ (r[2] = "old_crtc" => old_crtc)    -> CameraTop + LcdRung[r[2]]
      [] r[1] = "encoder"                                   -> LcdTop + MppRung[r[2]]
      [] r[1] = "tcp"                                       -> MppTop + 1
      [] r[1] = "share"                                     -> TcpTop + 1
      [] OTHER                                              -> 0

\* The rung that releases it again; 0 when it is kept.
Until(r) ==
    CASE r = <<"encoder", "cfg", 0>>           -> LcdTop + 7
      [] r = <<"encoder", "header_packet", 0>> -> LcdTop + 13
      [] OTHER                                 -> 0

\* What main holds when it is at rung n.
Has(r, n) == At(r) \in 1 .. n - 1 /\ Until(r) \notin 1 .. n - 1

-----------------------------------------------------------------------------
(* The invariant of the start.                                             *)

StartTypes ==
    /\ pc \in {"init", "run", "return", "exit"}
    /\ rung \in 1 .. TcpTop + 1
    /\ balance \in [Resources -> {0, 1}]
    /\ camera \in Formats /\ granted \in 1 .. CAMERA_BUF_COUNT /\ old_crtc \in BOOLEAN

\* On the way up main holds what the rungs below it acquired.
ClimbInv ==
    /\ pc = "init" => \A r \in Resources : Held(r) <=> Has(r, rung)
    /\ pc = "run" => \A r \in Resources : Held(r) <=> At(r) # 0 /\ Until(r) = 0
    /\ rung > LcdTop + 1 => GoodSize        \* ChecksSize
    /\ pc = "run" => rung > LcdTop + 1

ReleaseOrder == [screen |-> 1, map |-> 2, framebuffer |-> 3, dumb |-> 4, old_crtc |-> 5,
                 enc |-> 6, conn |-> 7, res |-> 8, fd |-> 9]

DestroySteps == {DRM_LCD_destroy[i] : i \in 1 .. 9}

\* On the way down DRM_LCD_destroy is at its k-th step, and of the LCD exactly the
\* resources of its later steps are held.
Releasing(k) ==
    /\ todo \in Seq(DestroySteps) /\ Len(todo) = 10 - k
    /\ \A i \in 1 .. 10 - k : todo[i] = DRM_LCD_destroy[k - 1 + i]
    /\ \A r \in LcdResources :
           Held(r) <=> ReleaseOrder[r[2]] >= k /\ (r[2] = "old_crtc" => old_crtc)
    /\ k > 1 /\ old_crtc /\ ~refused => screen = "before"

ReturnInv ==
    pc = "return" =>
        /\ \E k \in 1 .. 10 : Releasing(k)
        /\ \A r \in TcpResources \cup Temporaries : ~Held(r)
        /\ \/ \A r \in EncoderResources : ~Held(r)
           \/ \A r \in EncoderResources : Held(r)

StartInv == StartTypes /\ ClimbInv /\ ReturnInv

-----------------------------------------------------------------------------
(* Where each rung is.                                                     *)

\* A sequence of length n, of anything.
List(s, n) == n \in Nat /\ s = [i \in 1 .. n |-> s[i]]

LEMMA ListLen ==
    ASSUME NEW s, NEW n, List(s, n)
    PROVE  s \in Seq({s[i] : i \in 1 .. n}) /\ Len(s) = n
<1> DEFINE S == {s[i] : i \in 1 .. n}
<1>1. s \in [1 .. n -> S] /\ n \in Nat
  BY DEF List
<1>2. s \in Seq(S)
  BY <1>1
<1> QED
  BY <1>1, <1>2

LEMMA SeqIsList == ASSUME NEW S, NEW u \in Seq(S) PROVE List(u, Len(u))
<1>1. Len(u) \in Nat /\ u \in [1 .. Len(u) -> S]
  BY LenProperties
<1> QED
  BY <1>1 DEF List

Join(s, m, t, n) == [i \in 1 .. m + n |-> IF i <= m THEN s[i] ELSE t[i - m]]

LEMMA JoinIs ==
    ASSUME NEW s, NEW m, List(s, m), NEW t, NEW n, List(t, n)
    PROVE  s \o t = Join(s, m, t, n)
<1> DEFINE S == {s[i] : i \in 1 .. m} \cup {t[i] : i \in 1 .. n}
           u == s \o t
<1>1. m \in Nat /\ n \in Nat
  BY DEF List
<1>2. s \in Seq(S) /\ Len(s) = m
  BY <1>1, ListLen DEF List
<1>3. t \in Seq(S) /\ Len(t) = n
  BY <1>1, ListLen DEF List
<1> HIDE DEF S
<1>4. u \in Seq(S) /\ Len(u) = m + n
  BY <1>2, <1>3, ConcatProperties
<1>5. \A i \in 1 .. m + n : u[i] = IF i <= m THEN s[i] ELSE t[i - m]
  BY <1>2, <1>3, ConcatProperties
<1> HIDE DEF u
<1>6. List(u, m + n)
  BY <1>4, SeqIsList
<1>7. u = Join(s, m, t, n)
  BY <1>5, <1>6 DEF List, Join
<1> QED
  BY <1>7 DEF u

LEMMA Joined ==
    ASSUME NEW s, NEW m, List(s, m), NEW t, NEW n, List(t, n)
    PROVE  /\ List(Join(s, m, t, n), m + n)
           /\ \A i \in 1 .. m : Join(s, m, t, n)[i] = s[i]
           /\ \A i \in 1 .. n : Join(s, m, t, n)[m + i] = t[i]
<1>1. m \in Nat /\ n \in Nat
  BY DEF List
<1>2. List(Join(s, m, t, n), m + n) /\ \A i \in 1 .. m : Join(s, m, t, n)[i] = s[i]
  BY <1>1 DEF List, Join
<1>3. ASSUME NEW i \in 1 .. n PROVE Join(s, m, t, n)[m + i] = t[i]
  <2>1. m + i \in 1 .. m + n /\ ~(m + i <= m) /\ (m + i) - m = i
    BY <1>1
  <2> QED
    BY <2>1 DEF Join
<1> QED
  BY <1>2, <1>3

LEMMA CameraRungs ==
    ASSUME granted \in Nat
    PROVE  /\ List(Imx415_Init, CameraTop)
           /\ Imx415_Init[1] = OrExit(Part({"camera"}, {"fd"}))
           /\ \A n \in 2 .. 4 : Imx415_Init[n] = OrExit({})
           /\ \A i \in 1 .. granted :
                  /\ Imx415_Init[4 + i] = OrExit({Buffer("mapped", i)})
                  /\ Imx415_Init[4 + granted + i] = OrExit({Buffer("queued", i)})
           /\ Imx415_Init[CameraTop] = OrExit(Part({"camera"}, {"streaming"}))
<1> DEFINE a == <<OrExit(Part({"camera"}, {"fd"})), OrExit({}), OrExit({}), OrExit({})>>
           b == [i \in 1 .. granted |-> OrExit({Buffer("mapped", i)})]
           c == [i \in 1 .. granted |-> OrExit({Buffer("queued", i)})]
           d == <<OrExit(Part({"camera"}, {"streaming"}))>>
<1>1. List(a, 4) /\ List(b, granted) /\ List(c, granted) /\ List(d, 1)
  BY DEF List
<1>2. Imx415_Init = ((a \o b) \o c) \o d
  BY DEF Imx415_Init, QueueAll
<1>3. /\ a[1] = OrExit(Part({"camera"}, {"fd"})) /\ \A n \in 2 .. 4 : a[n] = OrExit({})
      /\ \A i \in 1 .. granted : /\ b[i] = OrExit({Buffer("mapped", i)})
                                 /\ c[i] = OrExit({Buffer("queued", i)})
      /\ d[1] = OrExit(Part({"camera"}, {"streaming"}))
  OBVIOUS
<1> HIDE DEF a, b, c, d
<1> DEFINE ab == Join(a, 4, b, granted)
           abc == Join(ab, 4 + granted, c, granted)
           abcd == Join(abc, (4 + granted) + granted, d, 1)
<1>12. a \o b = ab
  BY <1>1, JoinIs
<1>4. /\ List(ab, 4 + granted)
      /\ \A n \in 1 .. 4 : ab[n] = a[n]
      /\ \A i \in 1 .. granted : ab[4 + i] = b[i]
  BY <1>1, Joined
<1> HIDE DEF ab
<1>13. ab \o c = abc
  BY <1>1, <1>4, JoinIs
<1>5. /\ List(abc, (4 + granted) + granted)
      /\ \A n \in 1 .. 4 + granted : abc[n] = ab[n]
      /\ \A i \in 1 .. granted : abc[(4 + granted) + i] = c[i]
  BY <1>1, <1>4, Joined
<1> HIDE DEF abc
<1>14. abc \o d = abcd
  BY <1>1, <1>5, JoinIs
<1>6. /\ List(abcd, ((4 + granted) + granted) + 1)
      /\ \A n \in 1 .. (4 + granted) + granted : abcd[n] = abc[n]
      /\ \A i \in 1 .. 1 : abcd[((4 + granted) + granted) + i] = d[i]
  BY <1>1, <1>5, Joined
<1> HIDE DEF abcd
<1>7. Imx415_Init = abcd
  BY <1>2, <1>12, <1>13, <1>14
<1>8. ((4 + granted) + granted) + 1 = CameraTop
  BY DEF CameraTop
<1>9. List(Imx415_Init, CameraTop) /\ Imx415_Init[CameraTop] = d[1]
  BY <1>6, <1>7, <1>8
<1>10. \A n \in 1 .. 4 : Imx415_Init[n] = a[n]
  <2> TAKE n \in 1 .. 4
  <2>1. n \in 1 .. 4 + granted /\ n \in 1 .. (4 + granted) + granted
    OBVIOUS
  <2> QED
    BY <2>1, <1>4, <1>5, <1>6, <1>7
<1>11. ASSUME NEW i \in 1 .. granted
       PROVE  Imx415_Init[4 + i] = b[i] /\ Imx415_Init[4 + granted + i] = c[i]
  <2>1. /\ 4 + i \in 1 .. 4 + granted /\ 4 + i \in 1 .. (4 + granted) + granted
        /\ 4 + granted + i \in 1 .. (4 + granted) + granted
    OBVIOUS
  <2> QED
    BY <2>1, <1>4, <1>5, <1>6, <1>7
<1> QED
  BY <1>3, <1>9, <1>10, <1>11

LEMMA LcdRungs ==
    /\ List(DRM_LCD_Init, 10)
    /\ \A n \in 1 .. 10 :
           /\ DRM_LCD_Init[n] = OrExit(DRM_LCD_Init[n].takes)
           /\ \A r : r \in DRM_LCD_Init[n].takes <=>
                         /\ r \in LcdResources /\ (r[2] = "old_crtc" => old_crtc)
                         /\ LcdRung[r[2]] = n
<1> DEFINE R(s, n) ==
               /\ s = OrExit(s.takes)
               /\ \A r : r \in s.takes <=>
                             /\ r \in LcdResources /\ (r[2] = "old_crtc" => old_crtc)
                             /\ LcdRung[r[2]] = n
<1> USE DEF OrExit, Step, Part, LcdResources, LcdRung
<1>1. R(DRM_LCD_Init[1], 1)
  BY DEF DRM_LCD_Init
<1>2. R(DRM_LCD_Init[2], 2)
  BY DEF DRM_LCD_Init
<1>3. R(DRM_LCD_Init[3], 3)
  BY DEF DRM_LCD_Init
<1>4. R(DRM_LCD_Init[4], 4)
  BY DEF DRM_LCD_Init
<1>5. R(DRM_LCD_Init[5], 5)
  BY DEF DRM_LCD_Init
<1>6. R(DRM_LCD_Init[6], 6)
  BY DEF DRM_LCD_Init
<1>7. R(DRM_LCD_Init[7], 7)
  BY DEF DRM_LCD_Init
<1>8. R(DRM_LCD_Init[8], 8)
  BY DEF DRM_LCD_Init
<1>9. R(DRM_LCD_Init[9], 9)
  BY DEF DRM_LCD_Init
<1>10. R(DRM_LCD_Init[10], 10)
  BY DEF DRM_LCD_Init
<1>11. List(DRM_LCD_Init, 10)
  BY DEF List, DRM_LCD_Init
<1> HIDE DEF R
<1>12. ASSUME NEW n \in 1 .. 10 PROVE R(DRM_LCD_Init[n], n)
  BY <1>1, <1>2, <1>3, <1>4, <1>5, <1>6, <1>7, <1>8, <1>9, <1>10
<1> QED
  BY <1>11, <1>12 DEF R
LEMMA MppRungs ==
    /\ List(MPP_Init, 13)
    /\ \A n \in 1 .. 13 :
           /\ \A r : r \in MPP_Init[n].takes <=>
                         r \in EncoderResources \cup Temporaries /\ MppRung[r[2]] = n
           /\ \A r : r \in MPP_Init[n].gives <=>
                         \/ r = <<"encoder", "cfg", 0>> /\ n = 7
                         \/ r = <<"encoder", "header_packet", 0>> /\ n = 13
           /\ MPP_Init[n].undo = IF n <= 11 THEN ERROR
                                 ELSE ERROR \cup Encoder({"header_packet"})
           /\ MPP_Init[n].otherwise = "return"
<1> DEFINE a == <<OrError({}, {}), OrError({"ctx"}, {}), OrError({}, {}), OrError({}, {}),
                  OrError({}, {}), OrError({"cfg"}, {}), OrError({}, {"cfg"}),
                  OrError({"buf_group"}, {}), OrError({"buffer"}, {}), OrError({}, {})>>
           b == MPP_Get_Header
           R(s, n) ==
               /\ \A r : r \in s.takes <=>
                             r \in EncoderResources \cup Temporaries /\ MppRung[r[2]] = n
               /\ \A r : r \in s.gives <=>
                             \/ r = <<"encoder", "cfg", 0>> /\ n = 7
                             \/ r = <<"encoder", "header_packet", 0>> /\ n = 13
               /\ s.undo = IF n <= 11 THEN ERROR ELSE ERROR \cup Encoder({"header_packet"})
               /\ s.otherwise = "return"
<1>1. List(a, 10) /\ List(b, 3)
  BY DEF List, MPP_Get_Header
<1>2. MPP_Init = Join(a, 10, b, 3)
  BY <1>1, JoinIs DEF MPP_Init
<1>3. R(a[1], 1) /\ R(a[2], 2) /\ R(a[3], 3) /\ R(a[4], 4) /\ R(a[5], 5)
  BY DEF OrError, Step, Encoder, Part, EncoderResources, Temporaries, MppRung
<1>4. R(a[6], 6) /\ R(a[7], 7) /\ R(a[8], 8) /\ R(a[9], 9) /\ R(a[10], 10)
  BY DEF OrError, Step, Encoder, Part, EncoderResources, Temporaries, MppRung
<1>5. R(b[1], 11) /\ R(b[2], 12) /\ R(b[3], 13)
  BY DEF MPP_Get_Header, OrError, Step, Encoder, Part, EncoderResources, Temporaries, MppRung
<1> HIDE DEF R, a, b
<1>6. ASSUME NEW n \in 1 .. 10 PROVE R(a[n], n)
  BY <1>3, <1>4
<1>7. ASSUME NEW n \in 1 .. 3 PROVE R(b[n], 10 + n)
  BY <1>5
<1>8. /\ List(MPP_Init, 13) /\ \A n \in 1 .. 10 : MPP_Init[n] = a[n]
      /\ \A n \in 1 .. 3 : MPP_Init[10 + n] = b[n]
  BY <1>1, <1>2, Joined
<1>9. ASSUME NEW n \in 1 .. 13 PROVE R(MPP_Init[n], n)
  <2>1. CASE n <= 10
    BY <1>6, <1>8, <2>1
  <2>2. CASE n > 10
    <3>1. PICK m \in 1 .. 3 : n = 10 + m
      BY <2>2
    <3> QED
      BY <1>7, <1>8, <3>1
  <2> QED
    BY <2>1, <2>2
<1> QED
  BY <1>8, <1>9 DEF R

LEMMA TcpRungs ==
    /\ List(TCP_Client_Init, 3)
    /\ TCP_Client_Init[1] = Step(TcpResources, {}, {}, "return")
    /\ \A n \in 2 .. 3 : TCP_Client_Init[n] = Step({}, {}, TcpResources, "return")
BY DEF List, TCP_Client_Init, CloseSocket

LEMMA Ladders ==
    ASSUME granted \in Nat
    PROVE  /\ List(Ladder, TcpTop) /\ Len(Ladder) = TcpTop
           /\ \A n \in 1 .. CameraTop : Ladder[n] = Imx415_Init[n]
           /\ \A n \in 1 .. 10 : Ladder[CameraTop + n] = DRM_LCD_Init[n]
           /\ \A n \in 1 .. 13 : Ladder[LcdTop + n] = MPP_Init[n]
           /\ \A n \in 1 .. 3 : Ladder[MppTop + n] = TCP_Client_Init[n]
<1> DEFINE a == Imx415_Init
           b == DRM_LCD_Init
           c == MPP_Init
           d == TCP_Client_Init
<1>1. List(a, CameraTop) /\ List(b, 10) /\ List(c, 13) /\ List(d, 3)
  BY CameraRungs, LcdRungs, MppRungs, TcpRungs
<1>2. /\ CameraTop \in Nat /\ LcdTop = CameraTop + 10 /\ MppTop = LcdTop + 13
      /\ TcpTop = MppTop + 3
  BY DEF CameraTop, LcdTop, MppTop, TcpTop
<1>3. Ladder = ((a \o b) \o c) \o d
  BY DEF Ladder
<1> HIDE DEF a, b, c, d
<1> DEFINE ab == Join(a, CameraTop, b, 10)
           abc == Join(ab, LcdTop, c, 13)
           abcd == Join(abc, MppTop, d, 3)
<1>4. a \o b = ab
  BY <1>1, JoinIs
<1>5. /\ List(ab, LcdTop)
      /\ \A n \in 1 .. CameraTop : ab[n] = a[n]
      /\ \A n \in 1 .. 10 : ab[CameraTop + n] = b[n]
  BY <1>1, <1>2, Joined
<1> HIDE DEF ab
<1>6. ab \o c = abc
  <2>1. List(ab, LcdTop) /\ List(c, 13)
    BY <1>1, <1>5
  <2> QED
    BY <2>1, JoinIs
<1>7. /\ List(abc, MppTop)
      /\ \A n \in 1 .. LcdTop : abc[n] = ab[n]
      /\ \A n \in 1 .. 13 : abc[LcdTop + n] = c[n]
  BY <1>1, <1>2, <1>5, Joined
<1> HIDE DEF abc
<1>8. abc \o d = abcd
  <2>1. List(abc, MppTop) /\ List(d, 3)
    BY <1>1, <1>7
  <2> QED
    BY <2>1, JoinIs
<1>9. /\ List(abcd, TcpTop)
      /\ \A n \in 1 .. MppTop : abcd[n] = abc[n]
      /\ \A n \in 1 .. 3 : abcd[MppTop + n] = d[n]
  BY <1>1, <1>2, <1>7, Joined
<1> HIDE DEF abcd
<1>10. Ladder = abcd
  BY <1>3, <1>4, <1>6, <1>8
<1>11. ASSUME NEW n \in 1 .. CameraTop PROVE abcd[n] = a[n]
  BY <1>2, <1>5, <1>7, <1>9
<1>12. ASSUME NEW n \in 1 .. 10 PROVE abcd[CameraTop + n] = b[n]
  BY <1>2, <1>5, <1>7, <1>9
<1>13. ASSUME NEW n \in 1 .. 13 PROVE abcd[LcdTop + n] = c[n]
  BY <1>2, <1>7, <1>9
<1>14. Len(abcd) = TcpTop
  BY <1>9, ListLen
<1> QED
  BY <1>9, <1>10, <1>11, <1>12, <1>13, <1>14 DEF a, b, c, d
-----------------------------------------------------------------------------
(* Which rung acquires and releases a resource.                            *)

CamFd        == <<"camera", "fd", 0>>
Streaming    == <<"camera", "streaming", 0>>
Cfg          == <<"encoder", "cfg", 0>>
HeaderPacket == <<"encoder", "header_packet", 0>>

LEMMA Kinds ==
    /\ \A r \in Resources :
           \/ r = CamFd \/ r = Streaming
           \/ \E i \in 1 .. CAMERA_BUF_COUNT : r = Buffer("mapped", i) \/ r = Buffer("queued", i)
           \/ r \in LcdResources \/ r \in EncoderResources \cup Temporaries
           \/ r \in TcpResources \/ r \in ShareResources
    /\ {CamFd, Streaming} \subseteq Resources
    /\ \A i \in 1 .. CAMERA_BUF_COUNT :
           Buffer("mapped", i) \in Resources /\ Buffer("queued", i) \in Resources
    /\ UNION {LcdResources, EncoderResources, Temporaries, TcpResources, ShareResources}
           \subseteq Resources
    /\ \A r \in LcdResources : r[1] = "lcd" /\ LcdRung[r[2]] \in 1 .. 9
    /\ \A r \in EncoderResources \cup Temporaries : r[1] = "encoder" /\ MppRung[r[2]] \in 2 .. 13
    /\ \A r \in TcpResources : r[1] = "tcp"
    /\ \A r \in ShareResources : r[1] = "share"
<1> USE DEF Resources, CameraResources, Buffers, Buffer, LcdResources, EncoderResources,
            Temporaries, TcpResources, ShareResources, Part, CamFd, Streaming
<1>1. ASSUME NEW r \in Resources
      PROVE  \/ r = CamFd \/ r = Streaming
             \/ \E i \in 1 .. CAMERA_BUF_COUNT :
                    r = Buffer("mapped", i) \/ r = Buffer("queued", i)
             \/ r \in LcdResources \/ r \in EncoderResources \cup Temporaries
             \/ r \in TcpResources \/ r \in ShareResources
  OBVIOUS
<1>2. {CamFd, Streaming} \subseteq Resources
  OBVIOUS
<1>3. ASSUME NEW i \in 1 .. CAMERA_BUF_COUNT
      PROVE  Buffer("mapped", i) \in Resources /\ Buffer("queued", i) \in Resources
  OBVIOUS
<1>4. UNION {LcdResources, EncoderResources, Temporaries, TcpResources, ShareResources}
          \subseteq Resources
  OBVIOUS
<1>5. \A r \in LcdResources : r[1] = "lcd" /\ LcdRung[r[2]] \in 1 .. 9
  BY DEF LcdRung
<1>6. \A r \in EncoderResources \cup Temporaries : r[1] = "encoder" /\ MppRung[r[2]] \in 2 .. 13
  BY DEF MppRung
<1>7. (\A r \in TcpResources : r[1] = "tcp") /\ \A r \in ShareResources : r[1] = "share"
  OBVIOUS
<1> QED
  BY <1>1, <1>2, <1>3, <1>4, <1>5, <1>6, <1>7

LEMMA Places ==
    ASSUME granted \in Nat
    PROVE  /\ At(CamFd) = 1 /\ At(Streaming) = CameraTop
           /\ \A i \in 1 .. CAMERA_BUF_COUNT :
                  /\ At(Buffer("mapped", i)) = IF i <= granted THEN 4 + i ELSE 0
                  /\ At(Buffer("queued", i)) = IF i <= granted THEN 4 + granted + i ELSE 0
           /\ \A r \in LcdResources :
                  At(r) = IF r[2] = "old_crtc" => old_crtc THEN CameraTop + LcdRung[r[2]] ELSE 0
           /\ \A r \in EncoderResources \cup Temporaries : At(r) = LcdTop + MppRung[r[2]]
           /\ \A r \in TcpResources : At(r) = MppTop + 1
           /\ \A r \in ShareResources : At(r) = TcpTop + 1
           /\ Until(Cfg) = LcdTop + 7 /\ Until(HeaderPacket) = LcdTop + 13
           /\ \A r : r # Cfg /\ r # HeaderPacket => Until(r) = 0
<1>1. At(CamFd) = 1 /\ At(Streaming) = CameraTop
  BY DEF At, CamFd, Streaming
<1>2. ASSUME NEW i \in 1 .. CAMERA_BUF_COUNT
      PROVE  /\ At(Buffer("mapped", i)) = IF i <= granted THEN 4 + i ELSE 0
             /\ At(Buffer("queued", i)) = IF i <= granted THEN 4 + granted + i ELSE 0
  BY DEF At, Buffer
<1>3. ASSUME NEW r \in LcdResources
      PROVE  At(r) = IF r[2] = "old_crtc" => old_crtc THEN CameraTop + LcdRung[r[2]] ELSE 0
  BY Kinds DEF At
<1>4. ASSUME NEW r \in EncoderResources \cup Temporaries PROVE At(r) = LcdTop + MppRung[r[2]]
  BY Kinds DEF At
<1>5. ASSUME NEW r \in TcpResources PROVE At(r) = MppTop + 1
  BY Kinds DEF At
<1>6. ASSUME NEW r \in ShareResources PROVE At(r) = TcpTop + 1
  BY Kinds DEF At
<1>7. /\ Until(Cfg) = LcdTop + 7 /\ Until(HeaderPacket) = LcdTop + 13
      /\ \A r : r # Cfg /\ r # HeaderPacket => Until(r) = 0
  BY DEF Until, Cfg, HeaderPacket
<1> QED
  BY <1>1, <1>2, <1>3, <1>4, <1>5, <1>6, <1>7
LEMMA Segments ==
    ASSUME granted \in Nat, NEW n \in 1 .. TcpTop
    PROVE  \/ n = 1 \/ n \in 2 .. 4
           \/ \E i \in 1 .. granted : n = 4 + i \/ n = 4 + granted + i
           \/ n = CameraTop
           \/ \E i \in 1 .. 10 : n = CameraTop + i
           \/ \E i \in 1 .. 13 : n = LcdTop + i
           \/ \E i \in 1 .. 3 : n = MppTop + i
<1> USE DEF CameraTop, LcdTop, MppTop, TcpTop
<1>1. CASE n <= CameraTop
  <2>1. CASE n \in 5 .. 4 + granted
    <3>1. n - 4 \in 1 .. granted /\ n = 4 + (n - 4)
      BY <2>1
    <3> QED
      BY <3>1
  <2>2. CASE n \in 5 + granted .. 4 + 2 * granted
    <3>1. n - 4 - granted \in 1 .. granted /\ n = 4 + granted + (n - 4 - granted)
      BY <2>2
    <3> QED
      BY <3>1
  <2> QED
    BY <1>1, <2>1, <2>2
<1>2. CASE n > CameraTop /\ n <= LcdTop
  <2>1. n - CameraTop \in 1 .. 10 /\ n = CameraTop + (n - CameraTop)
    BY <1>2
  <2> QED
    BY <2>1
<1>3. CASE n > LcdTop /\ n <= MppTop
  <2>1. n - LcdTop \in 1 .. 13 /\ n = LcdTop + (n - LcdTop)
    BY <1>3
  <2> QED
    BY <2>1
<1>4. CASE n > MppTop
  <2>1. n - MppTop \in 1 .. 3 /\ n = MppTop + (n - MppTop)
    BY <1>4
  <2> QED
    BY <2>1
<1> QED
  BY <1>1, <1>2, <1>3, <1>4

\* Each resource has its rung, and only the temporaries are released on the way.
LEMMA Rungs ==
    ASSUME granted \in 1 .. CAMERA_BUF_COUNT, NEW n \in 1 .. TcpTop, NEW r \in Resources
    PROVE  (r \in Ladder[n].takes <=> n = At(r)) /\ (r \in Ladder[n].gives <=> n = Until(r))
<1>0. /\ CAMERA_BUF_COUNT \in Nat /\ granted \in Nat /\ granted <= CAMERA_BUF_COUNT
      /\ granted >= 1
  BY StartupAssumption DEF StartupAssumption
<1>1. CASE n <= CameraTop
  <2>1. n # Until(r)
    BY <1>0, <1>1, Places DEF LcdTop, CameraTop
  <2>2. Ladder[n] = Imx415_Init[n]
    BY <1>0, <1>1, Ladders
  <2>8. Part({"camera"}, {"fd"}) = {CamFd} /\ Part({"camera"}, {"streaming"}) = {Streaming}
    BY DEF Part, CamFd, Streaming
  <2>9. OrExit(Part({"camera"}, {"fd"})) = OrExit({CamFd})
        /\ OrExit(Part({"camera"}, {"streaming"})) = OrExit({Streaming})
    BY <2>8
  <2>3. CASE n = 1
    <3>1. Ladder[n] = OrExit({CamFd})
      BY <1>0, <2>2, <2>3, <2>9, CameraRungs
    <3>2. At(r) = 1 <=> r = CamFd
      BY <1>0, Places, Kinds DEF CameraTop, LcdTop, MppTop, TcpTop
    <3> QED
      BY <2>1, <2>3, <3>1, <3>2 DEF OrExit, Step
  <2>4. CASE n \in 2 .. 4
    <3>1. Ladder[n] = OrExit({})
      BY <1>0, <2>2, <2>4, CameraRungs
    <3>2. At(r) \notin 2 .. 4
      BY <1>0, Places, Kinds DEF CameraTop, LcdTop, MppTop, TcpTop
    <3> QED
      BY <2>1, <2>4, <3>1, <3>2 DEF OrExit, Step
  <2>5. ASSUME NEW i \in 1 .. granted, n = 4 + i
        PROVE  (r \in Ladder[n].takes <=> n = At(r)) /\ (r \in Ladder[n].gives <=> n = Until(r))
    <3>1. Ladder[n] = OrExit({Buffer("mapped", i)})
      BY <1>0, <2>2, <2>5, CameraRungs
    <3>2. At(r) = 4 + i <=> r = Buffer("mapped", i)
      <4>1. CASE \E j \in 1 .. CAMERA_BUF_COUNT : r = Buffer("mapped", j)
        <5>1. PICK j \in 1 .. CAMERA_BUF_COUNT : r = Buffer("mapped", j)
          BY <4>1
        <5>2. At(r) = IF j <= granted THEN 4 + j ELSE 0
          BY <1>0, <5>1, Places
        <5> QED
          BY <1>0, <5>1, <5>2 DEF Buffer
      <4>2. CASE \E j \in 1 .. CAMERA_BUF_COUNT : r = Buffer("queued", j)
        <5>1. PICK j \in 1 .. CAMERA_BUF_COUNT : r = Buffer("queued", j)
          BY <4>2
        <5>2. At(r) = IF j <= granted THEN 4 + granted + j ELSE 0
          BY <1>0, <5>1, Places
        <5> QED
          BY <1>0, <5>1, <5>2 DEF Buffer
      <4>3. At(Buffer("mapped", i)) = 4 + i
        BY <1>0, Places
      <4> QED
        BY <1>0, <4>1, <4>2, <4>3, Places, Kinds DEF CameraTop, LcdTop, MppTop, TcpTop
    <3> QED
      BY <2>1, <2>5, <3>1, <3>2 DEF OrExit, Step
  <2>6. ASSUME NEW i \in 1 .. granted, n = 4 + granted + i
        PROVE  (r \in Ladder[n].takes <=> n = At(r)) /\ (r \in Ladder[n].gives <=> n = Until(r))
    <3>1. Ladder[n] = OrExit({Buffer("queued", i)})
      BY <1>0, <2>2, <2>6, CameraRungs
    <3>2. At(r) = 4 + granted + i <=> r = Buffer("queued", i)
      <4>1. CASE \E j \in 1 .. CAMERA_BUF_COUNT : r = Buffer("mapped", j)
        <5>1. PICK j \in 1 .. CAMERA_BUF_COUNT : r = Buffer("mapped", j)
          BY <4>1
        <5>2. At(r) = IF j <= granted THEN 4 + j ELSE 0
          BY <1>0, <5>1, Places
        <5> QED
          BY <1>0, <5>1, <5>2 DEF Buffer
      <4>2. CASE \E j \in 1 .. CAMERA_BUF_COUNT : r = Buffer("queued", j)
        <5>1. PICK j \in 1 .. CAMERA_BUF_COUNT : r = Buffer("queued", j)
          BY <4>2
        <5>2. At(r) = IF j <= granted THEN 4 + granted + j ELSE 0
          BY <1>0, <5>1, Places
        <5> QED
          BY <1>0, <5>1, <5>2 DEF Buffer
      <4>3. At(Buffer("queued", i)) = 4 + granted + i
        BY <1>0, Places
      <4> QED
        BY <1>0, <4>1, <4>2, <4>3, Places, Kinds DEF CameraTop, LcdTop, MppTop, TcpTop
    <3> QED
      BY <2>1, <2>6, <3>1, <3>2 DEF OrExit, Step
  <2>7. CASE n = CameraTop
    <3>1. Ladder[n] = OrExit({Streaming})
      BY <1>0, <2>2, <2>7, <2>9, CameraRungs
    <3>2. At(r) = CameraTop <=> r = Streaming
      BY <1>0, Places, Kinds DEF CameraTop, LcdTop, MppTop, TcpTop
    <3> QED
      BY <2>1, <2>7, <3>1, <3>2 DEF OrExit, Step
  <2> QED
    BY <1>0, <1>1, <2>3, <2>4, <2>5, <2>6, <2>7, Segments DEF CameraTop, LcdTop, MppTop
<1>2. CASE n > CameraTop /\ n <= LcdTop
  <2>1. PICK i \in 1 .. 10 : n = CameraTop + i
    BY <1>0, <1>2, Segments DEF CameraTop, LcdTop, MppTop
  <2>2. Ladder[n] = DRM_LCD_Init[i]
    BY <1>0, <2>1, Ladders
  <2>3. Ladder[n].gives = {}
    BY <2>2, LcdRungs DEF OrExit, Step
  <2>4. r \in Ladder[n].takes <=> /\ r \in LcdResources /\ (r[2] = "old_crtc" => old_crtc)
                                  /\ LcdRung[r[2]] = i
    BY <2>2, LcdRungs
  <2>5. n # Until(r)
    BY <1>0, <1>2, Places DEF LcdTop, CameraTop
  <2> USE DEF LcdTop, MppTop, TcpTop, CameraTop
  <2>6. ASSUME r \in LcdResources PROVE r \in Ladder[n].takes <=> n = At(r)
    BY <1>0, <2>1, <2>4, <2>6, Places, Kinds
  <2>7. ASSUME r \notin LcdResources PROVE r \in Ladder[n].takes <=> n = At(r)
    <3>1. At(r) # n
      <4>1. CASE \E j \in 1 .. CAMERA_BUF_COUNT : r = Buffer("mapped", j) \/ r = Buffer("queued", j)
        BY <1>0, <1>2, <4>1, Places
      <4> QED
        BY <1>0, <1>2, <2>7, <4>1, Places, Kinds
    <3> QED
      BY <2>4, <2>7, <3>1
  <2> QED
    BY <2>3, <2>5, <2>6, <2>7
<1>3. CASE n > LcdTop /\ n <= MppTop
  <2>1. PICK i \in 1 .. 13 : n = LcdTop + i
    BY <1>0, <1>3, Segments DEF CameraTop, LcdTop, MppTop
  <2>2. Ladder[n] = MPP_Init[i]
    BY <1>0, <2>1, Ladders
  <2>3. r \in Ladder[n].gives <=> \/ r = Cfg /\ i = 7
                                  \/ r = HeaderPacket /\ i = 13
    BY <2>2, MppRungs DEF Cfg, HeaderPacket
  <2>4. r \in Ladder[n].takes <=> r \in EncoderResources \cup Temporaries /\ MppRung[r[2]] = i
    BY <2>2, MppRungs
  <2>5. r \in Ladder[n].gives <=> n = Until(r)
    <3>1. Cfg # HeaderPacket
      BY DEF Cfg, HeaderPacket
    <3> QED
      BY <1>0, <2>1, <2>3, <3>1, Places DEF LcdTop, CameraTop
  <2> USE DEF LcdTop, MppTop, TcpTop, CameraTop
  <2>6. ASSUME r \in EncoderResources \cup Temporaries PROVE r \in Ladder[n].takes <=> n = At(r)
    BY <1>0, <2>1, <2>4, <2>6, Places, Kinds
  <2>7. ASSUME r \notin EncoderResources \cup Temporaries PROVE r \in Ladder[n].takes <=> n = At(r)
    <3>1. At(r) # n
      <4>1. CASE \E j \in 1 .. CAMERA_BUF_COUNT : r = Buffer("mapped", j) \/ r = Buffer("queued", j)
        BY <1>0, <1>3, <4>1, Places
      <4>2. CASE r \in LcdResources
        BY <1>0, <1>3, <4>2, Places, Kinds
      <4> QED
        BY <1>0, <1>3, <2>7, <4>1, <4>2, Places, Kinds
    <3> QED
      BY <2>4, <2>7, <3>1
  <2> QED
    BY <2>5, <2>6, <2>7
<1>4. CASE n > MppTop
  <2>1. PICK i \in 1 .. 3 : n = MppTop + i
    BY <1>0, <1>4, Segments DEF CameraTop, LcdTop, MppTop
  <2>2. Ladder[n] = TCP_Client_Init[i]
    BY <1>0, <2>1, Ladders
  <2>3. Ladder[n].gives = {}
    BY <2>2, TcpRungs DEF Step
  <2>4. r \in Ladder[n].takes <=> r \in TcpResources /\ i = 1
    BY <2>2, TcpRungs DEF Step
  <2> USE DEF LcdTop, MppTop, TcpTop, CameraTop
  <2>5. n # Until(r)
    BY <1>0, <1>4, Places
  <2>6. ASSUME r \in TcpResources PROVE r \in Ladder[n].takes <=> n = At(r)
    BY <1>0, <2>1, <2>4, <2>6, Places, Kinds
  <2>7. ASSUME r \notin TcpResources PROVE r \in Ladder[n].takes <=> n = At(r)
    <3>1. At(r) # n
      <4>1. CASE \E j \in 1 .. CAMERA_BUF_COUNT : r = Buffer("mapped", j) \/ r = Buffer("queued", j)
        BY <1>0, <1>4, <4>1, Places
      <4>2. CASE r \in LcdResources
        BY <1>0, <1>4, <4>2, Places, Kinds
      <4>3. CASE r \in EncoderResources \cup Temporaries
        BY <1>0, <1>4, <4>3, Places, Kinds
      <4> QED
        BY <1>0, <1>4, <2>7, <4>1, <4>2, <4>3, Places, Kinds
    <3> QED
      BY <2>4, <2>7, <3>1
  <2> QED
    BY <2>3, <2>5, <2>6, <2>7
<1> QED
  BY <1>0, <1>1, <1>2, <1>3, <1>4 DEF CameraTop, LcdTop, MppTop, TcpTop
\* What a rung releases when it fails, and where main goes then.
LEMMA Undos ==
    ASSUME granted \in Nat, NEW n \in 1 .. TcpTop
    PROVE  /\ n <= LcdTop => Ladder[n].undo = {} /\ Ladder[n].otherwise = "exit"
           /\ n > LcdTop => Ladder[n].otherwise = "return"
           /\ n \in LcdTop + 1 .. LcdTop + 11 => Ladder[n].undo = ERROR
           /\ n \in LcdTop + 12 .. MppTop => Ladder[n].undo = ERROR \cup Encoder({"header_packet"})
           /\ n = MppTop + 1 => Ladder[n].undo = {}
           /\ n > MppTop + 1 => Ladder[n].undo = TcpResources
<1>1. CASE n <= CameraTop
  <2>1. n \in 1 .. CameraTop
    BY <1>1 DEF CameraTop, LcdTop, MppTop, TcpTop
  <2>2. Ladder[n] = Imx415_Init[n]
    BY <2>1, Ladders
  <2>3. \E takes : Imx415_Init[n] = OrExit(takes)
    <3>1. \/ n = 1 \/ n \in 2 .. 4 \/ n = CameraTop
          \/ \E i \in 1 .. granted : n = 4 + i \/ n = 4 + granted + i
      BY <1>1, Segments DEF CameraTop, LcdTop, MppTop
    <3> QED
      BY <3>1, CameraRungs
  <2>4. Ladder[n].undo = {} /\ Ladder[n].otherwise = "exit"
    BY <2>2, <2>3 DEF OrExit, Step
  <2> QED
    BY <1>1, <2>4 DEF CameraTop, LcdTop, MppTop
<1> USE DEF CameraTop, LcdTop, MppTop, TcpTop
<1>2. ASSUME NEW i \in 1 .. 10, n = CameraTop + i
      PROVE  Ladder[n].undo = {} /\ Ladder[n].otherwise = "exit"
  <2>1. Ladder[n] = DRM_LCD_Init[i]
    BY <1>2, Ladders
  <2> QED
    BY <2>1, LcdRungs DEF OrExit, Step
<1>3. ASSUME NEW i \in 1 .. 13, n = LcdTop + i
      PROVE  /\ Ladder[n].undo = IF i <= 11 THEN ERROR ELSE ERROR \cup Encoder({"header_packet"})
             /\ Ladder[n].otherwise = "return"
  <2>1. Ladder[n] = MPP_Init[i]
    BY <1>3, Ladders
  <2>2. /\ MPP_Init[i].undo = IF i <= 11 THEN ERROR ELSE ERROR \cup Encoder({"header_packet"})
        /\ MPP_Init[i].otherwise = "return"
    BY MppRungs
  <2> QED
    BY <2>1, <2>2
<1>4. ASSUME NEW i \in 1 .. 3, n = MppTop + i
      PROVE  /\ Ladder[n].undo = IF i = 1 THEN {} ELSE TcpResources
             /\ Ladder[n].otherwise = "return"
  <2>1. Ladder[n] = TCP_Client_Init[i]
    BY <1>4, Ladders
  <2> QED
    BY <2>1, TcpRungs DEF Step
<1>5. CASE n > CameraTop /\ n <= LcdTop
  BY <1>2, <1>5, Segments
<1>6. CASE n > LcdTop /\ n <= MppTop
  <2>1. PICK i \in 1 .. 13 : n = LcdTop + i
    BY <1>6, Segments
  <2> QED
    BY <1>3, <1>6, <2>1
<1>7. CASE n > MppTop
  <2>1. PICK i \in 1 .. 3 : n = MppTop + i
    BY <1>7, Segments
  <2> QED
    BY <1>4, <1>7, <2>1
<1> QED
  BY <1>1, <1>5, <1>6, <1>7

LEMMA RungNumbers ==
    ASSUME granted \in Nat
    PROVE  /\ GetsCrtc = CameraTop + 5 /\ SetsCrtc = LcdTop /\ ChecksSize = LcdTop + 1
           /\ Len(Ladder) = TcpTop
<1>1. Len(Imx415_Init) = CameraTop
  BY CameraRungs, ListLen
<1> QED
  BY <1>1, Ladders DEF GetsCrtc, SetsCrtc, ChecksSize, LcdTop

LEMMA AtType ==
    ASSUME granted \in 1 .. CAMERA_BUF_COUNT, NEW r \in Resources
    PROVE  /\ At(r) \in 0 .. TcpTop + 1 /\ Until(r) \in 0 .. MppTop
           /\ Until(r) # 0 => 0 < At(r) /\ At(r) < Until(r)
<1>0. CAMERA_BUF_COUNT \in Nat /\ granted \in Nat /\ granted >= 1
  BY StartupAssumption DEF StartupAssumption
<1> USE DEF CameraTop, LcdTop, MppTop, TcpTop
<1>1. At(r) \in 0 .. TcpTop + 1
  <2>1. CASE \E i \in 1 .. CAMERA_BUF_COUNT : r = Buffer("mapped", i) \/ r = Buffer("queued", i)
    BY <1>0, <2>1, Places
  <2>2. CASE r \in LcdResources
    BY <1>0, <2>2, Places, Kinds
  <2>3. CASE r \in EncoderResources \cup Temporaries
    BY <1>0, <2>3, Places, Kinds
  <2> QED
    BY <1>0, <2>1, <2>2, <2>3, Places, Kinds
<1>2. Until(r) \in 0 .. MppTop
  BY <1>0, Places
<1>3. ASSUME r = Cfg \/ r = HeaderPacket PROVE 0 < At(r) /\ At(r) < Until(r)
  <2>1. r \in EncoderResources \cup Temporaries
    BY <1>3 DEF Cfg, HeaderPacket, Temporaries, Part
  <2>2. r = Cfg => MppRung[r[2]] = 6
    BY DEF Cfg, MppRung
  <2>3. r = HeaderPacket => MppRung[r[2]] = 11
    BY DEF HeaderPacket, MppRung
  <2> QED
    BY <1>0, <1>3, <2>1, <2>2, <2>3, Places
<1> QED
  BY <1>0, <1>1, <1>2, <1>3, Places

\* A rung changes what main has by what it takes and gives.
LEMMA HasStep ==
    ASSUME granted \in 1 .. CAMERA_BUF_COUNT, NEW r \in Resources, NEW n \in 1 .. TcpTop
    PROVE  /\ Has(r, n + 1) <=> (Has(r, n) \/ n = At(r)) /\ n # Until(r)
           /\ n = At(r) => ~Has(r, n) /\ n # Until(r)
           /\ n = Until(r) => Has(r, n)
<1>1. granted \in Nat
  BY StartupAssumption DEF StartupAssumption
<1> QED
  BY <1>1, AtType DEF Has, CameraTop, LcdTop, MppTop, TcpTop

LEMMA SameRungs ==
    ASSUME granted' = granted, old_crtc' = old_crtc
    PROVE  /\ CameraTop' = CameraTop /\ LcdTop' = LcdTop /\ MppTop' = MppTop /\ TcpTop' = TcpTop
           /\ \A r : At(r)' = At(r) /\ Until(r)' = Until(r)
           /\ \A r, n : Has(r, n)' = Has(r, n)
<1>1. CameraTop' = CameraTop /\ LcdTop' = LcdTop /\ MppTop' = MppTop /\ TcpTop' = TcpTop
  BY DEF CameraTop, LcdTop, MppTop, TcpTop
<1>2. \A r : At(r)' = At(r)
  BY <1>1 DEF At
<1>3. \A r : Until(r)' = Until(r)
  BY <1>1 DEF Until
<1>4. \A r, n : Has(r, n)' = Has(r, n)
  BY <1>2, <1>3 DEF Has
<1> QED
  BY <1>1, <1>2, <1>3, <1>4
-----------------------------------------------------------------------------
(* The steps of the start.                                                 *)

LEMMA StartInit == ASSUME Init PROVE StartInv
<1>0. CAMERA_BUF_COUNT \in Nat
  BY StartupAssumption DEF StartupAssumption
<1>1. granted \in 1 .. CAMERA_BUF_COUNT /\ granted \in Nat
  BY <1>0 DEF Init
<1>2. StartTypes
  BY <1>1 DEF Init, StartTypes, TcpTop, MppTop, LcdTop, CameraTop
<1>3. ASSUME NEW r \in Resources PROVE ~Held(r) /\ ~Has(r, 1)
  BY <1>3 DEF Init, Held, Has
<1>4. pc = "init" /\ rung = 1 /\ ~(rung > LcdTop + 1)
  BY <1>1 DEF Init, LcdTop, CameraTop
<1> QED
  BY <1>2, <1>3, <1>4 DEF StartInv, ClimbInv, ReturnInv

LEMMA SucceedsStep == ASSUME StartInv, Succeeds PROVE StartInv'
<1> DEFINE step == Ladder[rung]
<1>0. /\ CAMERA_BUF_COUNT \in Nat /\ granted \in 1 .. CAMERA_BUF_COUNT /\ granted \in Nat
      /\ rung \in 1 .. TcpTop + 1 /\ balance \in [Resources -> {0, 1}]
  BY StartupAssumption DEF StartupAssumption, StartInv, StartTypes
<1>1. /\ pc = "init" /\ rung <= TcpTop
      /\ rung = LcdTop + 1 => GoodSize
      /\ Change(step.takes, step.gives) /\ rung' = rung + 1
      /\ pc' = pc /\ camera' = camera /\ granted' = granted /\ old_crtc' = old_crtc
  BY <1>0, RungNumbers DEF Succeeds
<1>2. rung \in 1 .. TcpTop /\ TcpTop \in Nat /\ LcdTop \in Nat
  BY <1>0, <1>1 DEF TcpTop, MppTop, LcdTop, CameraTop
<1> HIDE DEF step
<1>3. ASSUME NEW r \in Resources
      PROVE  balance'[r] \in {0, 1} /\ (balance'[r] > 0 <=> Has(r, rung + 1))
  <2>1. /\ r \in step.takes <=> rung = At(r)
        /\ r \in step.gives <=> rung = Until(r)
    BY <1>0, <1>2, Rungs DEF step
  <2>2. /\ Has(r, rung + 1) <=> (Has(r, rung) \/ rung = At(r)) /\ rung # Until(r)
        /\ rung = At(r) => ~Has(r, rung) /\ rung # Until(r)
        /\ rung = Until(r) => Has(r, rung)
    BY <1>0, <1>2, HasStep
  <2>3. balance[r] \in {0, 1} /\ (balance[r] > 0 <=> Has(r, rung))
    BY <1>0, <1>1 DEF StartInv, ClimbInv, Held
  <2>4. balance'[r] = balance[r] + (IF r \in step.takes THEN 1 ELSE 0)
                                 - (IF r \in step.gives THEN 1 ELSE 0)
    BY <1>1 DEF Change
  <2> QED
    BY <2>1, <2>2, <2>3, <2>4
<1>4. /\ LcdTop' = LcdTop /\ TcpTop' = TcpTop
      /\ \A r \in Resources : Has(r, rung + 1)' = Has(r, (rung + 1)')
  BY <1>1, SameRungs
<1>5. balance' \in [Resources -> {0, 1}]
  BY <1>1, <1>3 DEF Change
<1>6. StartTypes'
  BY <1>0, <1>1, <1>2, <1>4, <1>5 DEF StartInv, StartTypes
<1>7. ASSUME NEW r \in Resources PROVE Held(r)' <=> Has(r, rung)'
  <2>1. PICK n : n = rung + 1
    OBVIOUS
  <2>2. Has(r, n)' = Has(r, n) /\ rung' = n
    BY <1>1, <2>1, SameRungs
  <2>3. Has(r, rung)' = Has(r, n)
    BY <2>2 DEF Has
  <2> QED
    BY <1>3, <2>1, <2>3 DEF Held
<1>8. GoodSize' = GoodSize
  BY <1>1 DEF GoodSize
<1>9. ClimbInv'
  BY <1>1, <1>2, <1>4, <1>7, <1>8 DEF StartInv, ClimbInv
<1> QED
  BY <1>1, <1>6, <1>9 DEF StartInv, ReturnInv

LEMMA StartThreadsStep == ASSUME StartInv, StartThreads PROVE StartInv'
<1>0. /\ CAMERA_BUF_COUNT \in Nat /\ granted \in 1 .. CAMERA_BUF_COUNT /\ granted \in Nat
      /\ rung \in 1 .. TcpTop + 1 /\ balance \in [Resources -> {0, 1}]
  BY StartupAssumption DEF StartupAssumption, StartInv, StartTypes
<1>1. /\ pc = "init" /\ rung > TcpTop /\ pc' = "run" /\ rung' = rung
      /\ Change(ShareResources, {})
      /\ camera' = camera /\ granted' = granted /\ old_crtc' = old_crtc
  BY <1>0, RungNumbers DEF StartThreads
<1>2. TcpTop = LcdTop + 16 /\ MppTop = LcdTop + 13 /\ LcdTop \in Nat /\ rung = TcpTop + 1
  BY <1>0, <1>1 DEF TcpTop, MppTop, LcdTop, CameraTop
<1>3. ASSUME NEW r \in Resources
      PROVE  balance'[r] \in {0, 1} /\ (balance'[r] > 0 <=> At(r) # 0 /\ Until(r) = 0)
  <2>1. At(r) \in 0 .. TcpTop + 1 /\ Until(r) \in 0 .. MppTop
    BY <1>0, AtType
  <2>2. r \in ShareResources <=> At(r) = TcpTop + 1
    <3>1. CASE \E i \in 1 .. CAMERA_BUF_COUNT : r = Buffer("mapped", i) \/ r = Buffer("queued", i)
      <4>1. At(r) < TcpTop + 1
        BY <1>0, <3>1, Places DEF CameraTop, LcdTop, MppTop, TcpTop
      <4>2. r[1] = "camera"
        BY <3>1 DEF Buffer
      <4> QED
        BY <1>0, <1>2, <2>1, <4>1, <4>2, Kinds
    <3>2. CASE r \in LcdResources
      BY <1>0, <3>2, Places, Kinds DEF CameraTop, LcdTop, MppTop, TcpTop
    <3>3. CASE r \in EncoderResources \cup Temporaries
      BY <1>0, <3>3, Places, Kinds DEF CameraTop, LcdTop, MppTop, TcpTop
    <3>4. CASE r = CamFd \/ r = Streaming
      BY <1>0, <3>4, Places, Kinds DEF CameraTop, LcdTop, MppTop, TcpTop, CamFd, Streaming
    <3>5. CASE r \in TcpResources \/ r \in ShareResources
      BY <1>0, <3>5, Places, Kinds DEF CameraTop, LcdTop, MppTop, TcpTop
    <3> QED
      BY <3>1, <3>2, <3>3, <3>4, <3>5, Kinds
  <2>3. r \in ShareResources => Until(r) = 0
    BY <1>0, Places, Kinds DEF Cfg, HeaderPacket
  <2>4. balance[r] \in {0, 1} /\ (balance[r] > 0 <=> Has(r, rung))
    BY <1>0, <1>1 DEF StartInv, ClimbInv, Held
  <2>5. Has(r, rung) <=> At(r) \in 1 .. TcpTop /\ Until(r) = 0
    BY <1>2, <2>1 DEF Has
  <2>6. balance'[r] = balance[r] + (IF r \in ShareResources THEN 1 ELSE 0)
    BY <1>0, <1>1 DEF Change
  <2> QED
    BY <1>2, <2>1, <2>2, <2>3, <2>4, <2>5, <2>6
<1>4. /\ LcdTop' = LcdTop /\ TcpTop' = TcpTop
      /\ \A r : At(r)' = At(r) /\ Until(r)' = Until(r)
  BY <1>1, SameRungs
<1>5. balance' \in [Resources -> {0, 1}]
  BY <1>1, <1>3 DEF Change
<1>6. StartTypes'
  BY <1>0, <1>1, <1>4, <1>5 DEF StartInv, StartTypes
<1>7. GoodSize' = GoodSize
  BY <1>1 DEF GoodSize
<1>8. ClimbInv'
  BY <1>0, <1>1, <1>2, <1>3, <1>4, <1>7 DEF StartInv, ClimbInv, Held
<1> QED
  BY <1>1, <1>6, <1>8 DEF StartInv, ReturnInv
LEMMA DestroyOrder ==
    /\ DRM_LCD_destroy \in Seq(DestroySteps) /\ Len(DRM_LCD_destroy) = 9
    /\ \A i \in 1 .. 9 : ReleaseOrder[DRM_LCD_destroy[i]] = i
<1>1. List(DRM_LCD_destroy, 9)
  BY DEF List, DRM_LCD_destroy
<1>3. /\ ReleaseOrder[DRM_LCD_destroy[1]] = 1 /\ ReleaseOrder[DRM_LCD_destroy[2]] = 2
      /\ ReleaseOrder[DRM_LCD_destroy[3]] = 3 /\ ReleaseOrder[DRM_LCD_destroy[4]] = 4
      /\ ReleaseOrder[DRM_LCD_destroy[5]] = 5 /\ ReleaseOrder[DRM_LCD_destroy[6]] = 6
      /\ ReleaseOrder[DRM_LCD_destroy[7]] = 7 /\ ReleaseOrder[DRM_LCD_destroy[8]] = 8
      /\ ReleaseOrder[DRM_LCD_destroy[9]] = 9
  BY DEF DRM_LCD_destroy, ReleaseOrder
<1>5. DRM_LCD_destroy \in Seq(DestroySteps) /\ Len(DRM_LCD_destroy) = 9
  BY <1>1, ListLen DEF DestroySteps
<1>6. \A i \in 1 .. 9 : ReleaseOrder[DRM_LCD_destroy[i]] = i
  BY <1>3
<1> QED
  BY <1>5, <1>6

LEMMA LcdNames ==
    /\ \A r \in LcdResources :
           r = <<"lcd", r[2], 0>> /\ r[2] # "screen" /\ ReleaseOrder[r[2]] \in 2 .. 9
    /\ \A r, q \in LcdResources : ReleaseOrder[r[2]] = ReleaseOrder[q[2]] => r = q
    /\ <<"lcd", "old_crtc", 0>> \in LcdResources /\ LcdResources \subseteq Resources
BY Kinds DEF LcdResources, Part, ReleaseOrder

\* The rungs that give up return to main only above the LCD's, with the LCD as a
\* whole, and no other part of the start left in pieces.
LEMMA FailsStep == ASSUME StartInv, Fails PROVE StartInv'
<1> DEFINE step == Ladder[rung]
           freed == {r \in step.undo : Held(r)}
<1>0. /\ CAMERA_BUF_COUNT \in Nat /\ granted \in 1 .. CAMERA_BUF_COUNT /\ granted \in Nat
      /\ rung \in 1 .. TcpTop + 1 /\ balance \in [Resources -> {0, 1}]
  BY StartupAssumption DEF StartupAssumption, StartInv, StartTypes
<1>1. /\ pc = "init" /\ rung <= TcpTop
      /\ Change({}, freed) /\ rung' = rung
      /\ pc' = step.otherwise
      /\ todo' = IF step.otherwise = "return" THEN DRM_LCD_destroy ELSE <<>>
      /\ camera' = camera /\ granted' = granted /\ old_crtc' = old_crtc
  BY <1>0, RungNumbers DEF Fails
<1>2. /\ rung \in 1 .. TcpTop /\ LcdTop \in Nat /\ MppTop = LcdTop + 13
      /\ TcpTop = LcdTop + 16 /\ LcdTop = CameraTop + 10 /\ CameraTop \in Nat
  BY <1>0, <1>1 DEF TcpTop, MppTop, LcdTop, CameraTop
<1>3. /\ rung <= LcdTop => step.otherwise = "exit"
      /\ rung > LcdTop => step.otherwise = "return"
      /\ rung \in LcdTop + 1 .. LcdTop + 11 => step.undo = ERROR
      /\ rung \in LcdTop + 12 .. MppTop => step.undo = ERROR \cup Encoder({"header_packet"})
      /\ rung = MppTop + 1 => step.undo = {}
      /\ rung > MppTop + 1 => step.undo = TcpResources
  BY <1>0, <1>2, Undos
<1>4. \A r \in Resources : balance[r] \in {0, 1} /\ (balance[r] > 0 <=> Has(r, rung))
  BY <1>0, <1>1 DEF StartInv, ClimbInv, Held
<1> HIDE DEF step
<1>5. \A r \in Resources :
          /\ balance'[r] \in {0, 1}
          /\ balance'[r] > 0 <=> Has(r, rung) /\ r \notin step.undo
  <2> TAKE r \in Resources
  <2>1. balance'[r] = balance[r] + 0 - (IF r \in step.undo /\ Held(r) THEN 1 ELSE 0)
    BY <1>1 DEF Change
  <2> QED
    BY <1>4, <2>1 DEF Held
<1>6. balance' \in [Resources -> {0, 1}]
  BY <1>1, <1>5 DEF Change
<1>7. LcdTop' = LcdTop /\ TcpTop' = TcpTop /\ GoodSize' = GoodSize
  BY <1>1, SameRungs DEF GoodSize
<1>8. pc' = IF rung <= LcdTop THEN "exit" ELSE "return"
  BY <1>1, <1>2, <1>3
<1>9. StartTypes'
  BY <1>0, <1>1, <1>2, <1>6, <1>7, <1>8 DEF StartInv, StartTypes
<1>10. ClimbInv'
  BY <1>1, <1>7, <1>8 DEF StartInv, ClimbInv
<1>11. ASSUME rung > LcdTop PROVE ReturnInv'
  <2>1. todo' = DRM_LCD_destroy
    BY <1>1, <1>2, <1>3, <1>11
  <2>2. ASSUME NEW r \in LcdResources
        PROVE  Held(r)' <=> (r[2] = "old_crtc" => old_crtc)
    <3>1. r \in Resources /\ Until(r) = 0 /\ r \notin step.undo
      <4>1. r[1] = "lcd" /\ r \in Resources
        BY Kinds
      <4>2. r # Cfg /\ r # HeaderPacket
        BY <4>1 DEF Cfg, HeaderPacket
      <4>3. step.undo \subseteq EncoderResources \cup Temporaries \cup TcpResources
        BY <1>2, <1>3, <1>11 DEF ERROR, Encoder, EncoderResources, Temporaries, Part
      <4> QED
        BY <1>0, <4>1, <4>2, <4>3, Kinds, Places
    <3>2. At(r) = IF r[2] = "old_crtc" => old_crtc THEN CameraTop + LcdRung[r[2]] ELSE 0
      BY <1>0, Places
    <3>3. LcdRung[r[2]] \in 1 .. 9
      BY Kinds
    <3>4. Has(r, rung) <=> (r[2] = "old_crtc" => old_crtc)
      BY <1>2, <1>11, <3>1, <3>2, <3>3 DEF Has
    <3> QED
      BY <1>5, <3>1, <3>4 DEF Held
  <2>3. Releasing(1)'
    <3>1. /\ DRM_LCD_destroy \in Seq(DestroySteps) /\ Len(DRM_LCD_destroy) = 9
      BY DestroyOrder
    <3>2. \A r \in LcdResources : ReleaseOrder[r[2]] \in 1 .. 9
      BY DEF LcdResources, Part, ReleaseOrder
    <3>3. \A r \in LcdResources : Held(r)' <=> ReleaseOrder[r[2]] >= 1 /\ (r[2] = "old_crtc" => old_crtc')
      BY <1>1, <2>2, <3>2
    <3>4. \A i \in 1 .. 10 - 1 : todo'[i] = DRM_LCD_destroy[1 - 1 + i]
      BY <2>1
    <3> QED
      BY <2>1, <3>1, <3>3, <3>4 DEF Releasing, LcdResources, Part
  <2>4. ASSUME NEW r \in TcpResources \cup Temporaries PROVE ~Held(r)'
    <3>1. r \in Resources
      BY Kinds
    <3>2. CASE r \in TcpResources
      <4>1. At(r) = MppTop + 1
        BY <1>0, <3>2, Places
      <4>2. Has(r, rung) => rung > MppTop + 1
        BY <1>2, <4>1 DEF Has
      <4> QED
        BY <1>3, <1>5, <3>1, <3>2, <4>2 DEF Held
    <3>3. CASE r = Cfg
      <4>1. Until(r) = LcdTop + 7
        BY <1>0, <3>3, Places
      <4>2. Has(r, rung) => rung \in LcdTop + 1 .. LcdTop + 11
        BY <1>2, <1>11, <4>1 DEF Has
      <4>3. r \in ERROR
        BY <3>3 DEF Cfg, ERROR, Part
      <4> QED
        BY <1>3, <1>5, <3>1, <4>2, <4>3 DEF Held
    <3>4. CASE r = HeaderPacket
      <4>1. Until(r) = LcdTop + 13 /\ At(r) = LcdTop + 11
        BY <1>0, <3>4, Places DEF HeaderPacket, Temporaries, Part, MppRung
      <4>2. Has(r, rung) => rung \in LcdTop + 12 .. MppTop
        BY <1>2, <4>1 DEF Has
      <4>3. r \in Encoder({"header_packet"})
        BY <3>4 DEF HeaderPacket, Encoder, Part
      <4> QED
        BY <1>3, <1>5, <3>1, <4>2, <4>3 DEF Held
    <3> QED
      BY <3>2, <3>3, <3>4 DEF Temporaries, Part, Cfg, HeaderPacket
  <2>5. CASE rung <= MppTop
    <3>1. ASSUME NEW r \in EncoderResources PROVE ~Held(r)'
      <4>1. r \in Resources /\ At(r) = LcdTop + MppRung[r[2]]
        BY <1>0, Kinds, Places
      <4>2. CASE r \in ERROR
        BY <1>2, <1>3, <1>5, <1>11, <2>5, <4>1, <4>2 DEF Held
      <4>3. CASE r \notin ERROR
        <5>1. r = <<"encoder", "header_ptr", 0>>
          BY <4>3 DEF EncoderResources, ERROR, Part
        <5>2. MppRung[r[2]] = 13
          BY <5>1 DEF MppRung
        <5>3. ~Has(r, rung)
          BY <1>2, <2>5, <4>1, <5>2 DEF Has
        <5> QED
          BY <1>5, <4>1, <5>3 DEF Held
      <4> QED
        BY <4>2, <4>3
    <3> QED
      BY <2>3, <2>4, <3>1 DEF ReturnInv, EncoderResources, TcpResources, Temporaries, Part
  <2>6. CASE rung > MppTop
    <3>1. ASSUME NEW r \in EncoderResources PROVE Held(r)'
      <4>1. r \in Resources /\ At(r) = LcdTop + MppRung[r[2]] /\ MppRung[r[2]] \in 2 .. 13
        BY <1>0, Kinds, Places
      <4>2. Until(r) = 0 /\ r \notin TcpResources
        BY <1>0, Places DEF EncoderResources, TcpResources, Part, Cfg, HeaderPacket
      <4>3. Has(r, rung)
        BY <1>2, <2>6, <4>1, <4>2 DEF Has
      <4>4. r \notin step.undo
        BY <1>2, <1>3, <2>6, <4>2
      <4> QED
        BY <1>5, <4>1, <4>3, <4>4 DEF Held
    <3> QED
      BY <2>3, <2>4, <3>1 DEF ReturnInv, EncoderResources, TcpResources, Temporaries, Part
  <2> QED
    BY <1>2, <2>5, <2>6
<1>12. ReturnInv'
  BY <1>2, <1>8, <1>11 DEF ReturnInv
<1> QED
  BY <1>9, <1>10, <1>12 DEF StartInv
\* What DRM_LCD_destroy does next.
LEMMA NextRelease ==
    ASSUME NEW k \in 1 .. 10, Releasing(k), todo # <<>>
    PROVE  /\ k \in 1 .. 9 /\ Head(todo) = DRM_LCD_destroy[k]
           /\ Tail(todo) \in Seq(DestroySteps) /\ Len(Tail(todo)) = 10 - (k + 1)
           /\ \A i \in 1 .. 10 - (k + 1) : Tail(todo)[i] = DRM_LCD_destroy[(k + 1) - 1 + i]
<1>1. /\ todo \in Seq(DestroySteps) /\ Len(todo) = 10 - k
      /\ \A i \in 1 .. 10 - k : todo[i] = DRM_LCD_destroy[k - 1 + i]
  BY DEF Releasing
<1>2. k \in 1 .. 9
  BY <1>1, EmptySeq
<1>3. Head(todo) = todo[1] /\ todo[1] = DRM_LCD_destroy[k - 1 + 1] /\ k - 1 + 1 = k
  BY <1>1, <1>2
<1>4. Tail(todo) \in Seq(DestroySteps) /\ Len(Tail(todo)) = 10 - (k + 1)
  BY <1>1, HeadTailProperties
<1>5. ASSUME NEW i \in 1 .. 10 - (k + 1)
      PROVE  Tail(todo)[i] = DRM_LCD_destroy[(k + 1) - 1 + i]
  <2>1. Tail(todo)[i] = todo[i + 1]
    BY <1>1, HeadTailProperties
  <2>2. i + 1 \in 1 .. 10 - k /\ k - 1 + (i + 1) = (k + 1) - 1 + i
    OBVIOUS
  <2>3. todo[i + 1] = DRM_LCD_destroy[k - 1 + (i + 1)]
    BY <1>1, <2>2
  <2> QED
    BY <2>1, <2>2, <2>3
<1> QED
  BY <1>2, <1>3, <1>4, <1>5

LEMMA ReleaseKeeps ==
    ASSUME StartInv, balance' \in [Resources -> {0, 1}],
           UNCHANGED <<pc, rung, camera, granted, old_crtc>>, pc = "return"
    PROVE  StartTypes' /\ ClimbInv'
<1>1. TcpTop' = TcpTop /\ LcdTop' = LcdTop /\ GoodSize' = GoodSize
  BY SameRungs DEF GoodSize
<1> QED
  BY <1>1 DEF StartInv, StartTypes, ClimbInv

LEMMA RestoreScreenStep == ASSUME StartInv, RestoreScreen PROVE StartInv'
<1>1. /\ pc = "return" /\ todo # <<>> /\ Head(todo) = "screen" /\ todo' = Tail(todo)
      /\ screen' = IF Held(<<"lcd", "old_crtc", 0>>) /\ ~refused' THEN "before" ELSE screen
      /\ UNCHANGED <<pc, rung, balance, camera, granted, old_crtc>>
  BY DEF RestoreScreen
<1>2. StartTypes' /\ ClimbInv'
  BY <1>1, ReleaseKeeps DEF StartInv, StartTypes
<1>3. PICK k \in 1 .. 10 : Releasing(k)
  BY <1>1 DEF StartInv, ReturnInv
<1>4. /\ k \in 1 .. 9 /\ Head(todo) = DRM_LCD_destroy[k]
      /\ todo' \in Seq(DestroySteps) /\ Len(todo') = 10 - (k + 1)
      /\ \A i \in 1 .. 10 - (k + 1) : todo'[i] = DRM_LCD_destroy[(k + 1) - 1 + i]
  BY <1>1, <1>3, NextRelease
<1>5. k = 1
  BY <1>1, <1>4, DestroyOrder DEF ReleaseOrder
<1>6. \A r \in LcdResources : Held(r) <=> (r[2] = "old_crtc" => old_crtc)
  BY <1>3, <1>5, LcdNames, SMTT(60) DEF Releasing
<1>7. old_crtc /\ ~refused' => screen' = "before"
  BY <1>1, <1>6, LcdNames
<1>8. \A r : Held(r)' = Held(r)
  BY <1>1 DEF Held
<1>9. Releasing(2)'
  <2>1. /\ todo' \in Seq(DestroySteps) /\ Len(todo') = 10 - 2
        /\ \A i \in 1 .. 10 - 2 : todo'[i] = DRM_LCD_destroy[2 - 1 + i]
    BY <1>4, <1>5
  <2>2. \A r \in LcdResources : Held(r)' <=> ReleaseOrder[r[2]] >= 2 /\ (r[2] = "old_crtc" => old_crtc')
    <3> TAKE r \in LcdResources
    <3>1. (Held(r)' <=> Held(r)) /\ ReleaseOrder[r[2]] >= 2
      BY <1>8, LcdNames
    <3> QED
      BY <1>1, <1>6, <3>1
  <2> QED
    BY <1>1, <1>7, <2>1, <2>2 DEF Releasing, LcdResources, Part
<1>10. /\ \A r \in TcpResources \cup Temporaries : ~Held(r)'
       /\ \/ \A r \in EncoderResources : ~Held(r)'
          \/ \A r \in EncoderResources : Held(r)'
  BY <1>1, <1>8 DEF StartInv, ReturnInv
<1>11. ReturnInv'
  BY <1>9, <1>10 DEF ReturnInv, EncoderResources, TcpResources, Temporaries, Part
<1> QED
  BY <1>2, <1>11 DEF StartInv

LEMMA ReleaseLcdStep ==
    ASSUME StartInv, NEW q \in LcdResources, ReleaseLcd(q[2]) PROVE StartInv'
<1>1. /\ pc = "return" /\ todo # <<>> /\ Head(todo) = q[2] /\ todo' = Tail(todo)
      /\ Change({}, FreedBy(q[2]))
      /\ screen' = IF q[2] = "framebuffer" /\ screen = "camera" THEN "off" ELSE screen
      /\ UNCHANGED <<pc, rung, camera, granted, old_crtc, refused>>
  BY DEF ReleaseLcd
<1>2. PICK k \in 1 .. 10 : Releasing(k)
  BY <1>1 DEF StartInv, ReturnInv
<1>3. /\ k \in 1 .. 9 /\ Head(todo) = DRM_LCD_destroy[k]
      /\ todo' \in Seq(DestroySteps) /\ Len(todo') = 10 - (k + 1)
      /\ \A i \in 1 .. 10 - (k + 1) : todo'[i] = DRM_LCD_destroy[(k + 1) - 1 + i]
  BY <1>1, <1>2, NextRelease
<1>4. ReleaseOrder[q[2]] = k /\ k > 1
  <2>1. q[2] = DRM_LCD_destroy[k]
    BY <1>1, <1>3
  <2>2. ReleaseOrder[DRM_LCD_destroy[k]] = k
    BY <1>3, DestroyOrder
  <2>3. ReleaseOrder[q[2]] \in 2 .. 9
    BY LcdNames
  <2> QED
    BY <2>1, <2>2, <2>3
<1>5. \A r \in LcdResources :
          Held(r) <=> ReleaseOrder[r[2]] >= k /\ (r[2] = "old_crtc" => old_crtc)
  BY <1>2 DEF Releasing
<1>6. Held(q) <=> (q[2] = "old_crtc" => old_crtc)
  BY <1>4, <1>5
<1>7. FreedBy(q[2]) = IF q[2] = "old_crtc" /\ ~old_crtc THEN {} ELSE {q}
  BY <1>6, LcdNames DEF FreedBy, Part
<1>8. balance \in [Resources -> {0, 1}] /\ q \in Resources
  BY LcdNames DEF StartInv, StartTypes
<1>9. \A r \in Resources : balance'[r] = IF r = q THEN 0 ELSE balance[r]
  <2> TAKE r \in Resources
  <2>1. balance'[r] = balance[r] + 0 - (IF r \in FreedBy(q[2]) THEN 1 ELSE 0)
    BY <1>1 DEF Change
  <2>2. balance[r] \in {0, 1}
    BY <1>8
  <2> QED
    BY <1>6, <1>7, <2>1, <2>2 DEF Held
<1>10. balance' \in [Resources -> {0, 1}]
  BY <1>1, <1>8, <1>9 DEF Change
<1>11. StartTypes' /\ ClimbInv'
  BY <1>1, <1>10, ReleaseKeeps
<1>12. Releasing(k + 1)'
  <2>1. ASSUME NEW r \in LcdResources
        PROVE  Held(r)' <=> ReleaseOrder[r[2]] >= k + 1 /\ (r[2] = "old_crtc" => old_crtc')
    <3>1. r \in Resources /\ ReleaseOrder[r[2]] \in 2 .. 9
          /\ (ReleaseOrder[r[2]] = k => r = q)
      BY <1>4, LcdNames
    <3>2. Held(r)' <=> balance'[r] > 0
      BY DEF Held
    <3>3. Held(r) <=> balance[r] > 0
      BY DEF Held
    <3> QED
      BY <1>1, <1>4, <1>5, <1>9, <3>1, <3>2, <3>3
  <2>2. old_crtc' /\ ~refused' => screen' = "before"
    BY <1>1, <1>2, <1>4 DEF Releasing
  <2> QED
    BY <1>3, <2>1, <2>2 DEF Releasing, LcdResources, Part
<1>13. ASSUME NEW r \in TcpResources \cup Temporaries \cup EncoderResources
       PROVE  Held(r)' = Held(r)
  <2>1. r \in Resources /\ r # q
    BY Kinds DEF EncoderResources, TcpResources, Temporaries, Part
  <2>2. balance'[r] = balance[r]
    BY <1>9, <2>1
  <2> QED
    BY <2>2 DEF Held
<1>14. /\ \A r \in TcpResources \cup Temporaries : ~Held(r)'
       /\ \/ \A r \in EncoderResources : ~Held(r)'
          \/ \A r \in EncoderResources : Held(r)'
  BY <1>1, <1>13 DEF StartInv, ReturnInv
<1>15. ReturnInv'
  <2>1. k + 1 \in 1 .. 10
    BY <1>3
  <2> QED
    BY <1>12, <1>14, <2>1 DEF ReturnInv, EncoderResources, TcpResources, Temporaries, Part
<1> QED
  BY <1>11, <1>15 DEF StartInv
LEMMA StartStep == ASSUME StartInv, [Next]_vars PROVE StartInv'
<1>1. CASE UNCHANGED vars
  <2>1. /\ TcpTop' = TcpTop /\ LcdTop' = LcdTop /\ GoodSize' = GoodSize
        /\ \A r : Held(r)' = Held(r)
        /\ \A r : At(r)' = At(r) /\ Until(r)' = Until(r)
    BY <1>1, SameRungs DEF vars, GoodSize, Held
  <2>2. \A r : Has(r, rung)' = Has(r, rung)
    BY <1>1, <2>1 DEF vars, Has
  <2>3. StartTypes'
    BY <1>1, <2>1 DEF vars, StartInv, StartTypes
  <2>4. ClimbInv'
    BY <1>1, <2>1, <2>2 DEF vars, StartInv, ClimbInv
  <2>5. \A k : Releasing(k)' = Releasing(k)
    BY <1>1, <2>1 DEF vars, Releasing, LcdResources, Part
  <2>6. ReturnInv'
    BY <1>1, <2>1, <2>5 DEF vars, StartInv, ReturnInv
  <2> QED
    BY <2>3, <2>4, <2>6 DEF StartInv
<1> QED
  BY <1>1, SucceedsStep, FailsStep, StartThreadsStep, RestoreScreenStep, ReleaseLcdStep DEF Next

LEMMA StartInductive == Spec => []StartInv
<1>1. Init => StartInv
  BY StartInit
<1>2. StartInv /\ [Next]_vars => StartInv'
  BY StartStep
<1> QED
  BY <1>1, <1>2, PTL DEF Spec

LEMMA UndoneWhenReturned == ASSUME StartInv PROVE FailureIsUndone
<1>1. \A r \in Resources : balance[r] \in {0, 1}
  BY DEF StartInv, StartTypes
<1>2. ASSUME Returned
      PROVE  /\ old_crtc /\ ~refused => screen = "before"
             /\ \A r \in LcdResources : ~Held(r)
             /\ \A r \in TcpResources \cup Temporaries : ~Held(r)
             /\ \/ \A r \in EncoderResources : ~Held(r)
                \/ \A r \in EncoderResources : Held(r)
  <2>1. PICK k \in 1 .. 10 : Releasing(k)
    BY <1>2 DEF Returned, StartInv, ReturnInv
  <2>2. k = 10
    BY <1>2, <2>1 DEF Returned, Releasing
  <2>3. \A r \in LcdResources : ~Held(r)
    BY <2>1, <2>2, LcdNames DEF Releasing
  <2>4. old_crtc /\ ~refused => screen = "before"
    BY <2>1, <2>2 DEF Releasing
  <2> QED
    BY <1>2, <2>3, <2>4 DEF Returned, StartInv, ReturnInv
<1> QED
  BY <1>1, <1>2 DEF FailureIsUndone

LEMMA ReadyWhenRunning == ASSUME StartInv PROVE ReadyToRun
<1> SUFFICES ASSUME pc = "run"
             PROVE  /\ \A i \in 1 .. granted : Held(Buffer("mapped", i)) /\ Held(Buffer("queued", i))
                    /\ \A r \in Part({"camera"}, {"fd", "streaming"}) : Held(r)
                    /\ \A r \in EncoderResources \cup TcpResources : Held(r)
                    /\ camera.bytesperline >= camera.width
                    /\ \A r \in Temporaries : ~Held(r)
  BY DEF ReadyToRun
<1>0. /\ CAMERA_BUF_COUNT \in Nat /\ granted \in 1 .. CAMERA_BUF_COUNT /\ granted \in Nat
  BY StartupAssumption DEF StartupAssumption, StartInv, StartTypes
<1>1. \A r \in Resources : Held(r) <=> At(r) # 0 /\ Until(r) = 0
  BY DEF StartInv, ClimbInv
<1>2. CameraTop \in Nat \ {0} /\ LcdTop \in Nat /\ MppTop \in Nat
  BY <1>0 DEF MppTop, LcdTop, CameraTop
<1>3. ASSUME NEW i \in 1 .. granted PROVE Held(Buffer("mapped", i)) /\ Held(Buffer("queued", i))
  <2>1. i \in 1 .. CAMERA_BUF_COUNT /\ i <= granted
    BY <1>0
  <2>2. /\ Buffer("mapped", i) # Cfg /\ Buffer("mapped", i) # HeaderPacket
        /\ Buffer("queued", i) # Cfg /\ Buffer("queued", i) # HeaderPacket
    BY DEF Buffer, Cfg, HeaderPacket
  <2>3. At(Buffer("mapped", i)) = 4 + i /\ At(Buffer("queued", i)) = 4 + granted + i
    BY <1>0, <2>1, Places
  <2>4. Until(Buffer("mapped", i)) = 0 /\ Until(Buffer("queued", i)) = 0
    BY <1>0, <2>2, Places
  <2> QED
    BY <1>0, <1>1, <2>1, <2>3, <2>4, Kinds
<1>4. ASSUME NEW r \in Part({"camera"}, {"fd", "streaming"}) PROVE Held(r)
  <2>1. r \in {CamFd, Streaming}
    BY DEF Part, CamFd, Streaming
  <2>2. r # Cfg /\ r # HeaderPacket
    BY <2>1 DEF CamFd, Streaming, Cfg, HeaderPacket
  <2> QED
    BY <1>0, <1>1, <1>2, <2>1, <2>2, Places, Kinds
<1>5. ASSUME NEW r \in EncoderResources \cup TcpResources PROVE Held(r)
  <2>1. r \in Resources /\ r # Cfg /\ r # HeaderPacket
    BY Kinds DEF EncoderResources, TcpResources, Part, Cfg, HeaderPacket
  <2>2. At(r) # 0
    BY <1>0, <1>2, Places, Kinds
  <2> QED
    BY <1>0, <1>1, <2>1, <2>2, Places
<1>6. camera.bytesperline >= camera.width
  BY DEF StartInv, ClimbInv, GoodSize
<1>7. ASSUME NEW r \in Temporaries PROVE ~Held(r)
  <2>1. r \in Resources /\ (r = Cfg \/ r = HeaderPacket)
    BY Kinds DEF Temporaries, Part, Cfg, HeaderPacket
  <2> QED
    BY <1>0, <1>1, <1>2, <2>1, Places
<1> QED
  BY <1>3, <1>4, <1>5, <1>6, <1>7

-----------------------------------------------------------------------------
(* The first frame leaves the start alone.                                 *)

LEMMA ReadsKeep == ASSUME ReadFrame PROVE UNCHANGED vars
<1>1. UNCHANGED start /\ Frame!Next
  BY DEF ReadFrame
<1>2. camera' = camera
  BY <1>1 DEF Frame!Next, Frame!DrawPixel, Frame!CopyRow, Frame!NextPlane
<1> QED
  BY <1>1, <1>2 DEF start, vars

\* The client with its first frame is the client of ClientStartup.
THEOREM ImplementsStartup == FirstFrameSpec => Spec
<1>1. FirstFrameInit => Init
  BY DEF FirstFrameInit
<1>2. [FirstFrameNext]_<<vars, picture>> => [Next]_vars
  BY ReadsKeep DEF FirstFrameNext
<1> QED
  BY <1>1, <1>2, PTL DEF FirstFrameSpec, Spec

\* At whichever step MPP_Init or TCP_Client_Init fails, nothing is released twice,
\* and when main returns the LCD and what that Init had acquired are released and the
\* screen is restored, for any number of camera buffers.
THEOREM FailuresUndone == FirstFrameSpec => []FailureIsUndone
<1>1. StartInv => FailureIsUndone
  BY UndoneWhenReturned
<1> QED
  BY <1>1, ImplementsStartup, StartInductive, PTL

\* main starts the threads with every granted buffer mapped and queued, the camera
\* streaming, and the encoder and the connection complete.
THEOREM ThreadsStartReady == FirstFrameSpec => []ReadyToRun
<1>1. StartInv => ReadyToRun
  BY ReadyWhenRunning
<1> QED
  BY <1>1, ImplementsStartup, StartInductive, PTL
-----------------------------------------------------------------------------
(* The readers.                                                            *)

\* Rows of the encoder's buffer that are filled, chroma after luma.
Lines == IF plane = "Y" THEN row ELSE camera.height + row

\* NV12_To_RGB has passed this pixel.
Passed(p) == p[2] < y \/ (p[2] = y /\ p[1] < x)

\* What it has passed shows, and what is beside the picture is as it was.
LcdInv ==
    /\ x \in 0 .. camera.width - 1 /\ y \in 0 .. camera.height
    /\ 0 .. Frame!MapSize - 1 \subseteq DOMAIN lcd_map
    /\ Frame!FitsMode => Frame!InMapping
    /\ camera.bytesperline = camera.width =>
           \A p \in Frame!OnScreen :
               p \in Frame!Pixels /\ Passed(p) => Frame!Shows(p, Frame!Sampled(p))
    /\ Frame!FitsMode =>
           \A p \in Frame!OnScreen : p \notin Frame!Pixels => Frame!Shows(p, Frame!NotDrawn)

EncInv ==
    /\ plane \in {"Y", "UV"} /\ row \in 0 .. Frame!Rows
    /\ DOMAIN dst = 0 .. Frame!FrameSize - 1
    /\ \A o \in DOMAIN dst :
           dst[o] = IF o \div camera.bytesperline < Lines THEN Frame!Data(o) ELSE Frame!Padding

ReadInv == \A o \in read : o \in Nat /\ o < Frame!ImageSize

\* No thread has started with a size MPP_Init refuses.
NothingRead ==
    /\ plane = "Y" /\ y = 0 /\ read = {}
    /\ lcd_map = [o \in 0 .. Frame!MapSize - 1 |-> Frame!NotDrawn]
    /\ DOMAIN dst = 0 .. Frame!FrameSize - 1

PictureInv ==
    /\ dumbbuffer \in Screens
    /\ IF GoodSize THEN LcdInv /\ EncInv /\ ReadInv ELSE NothingRead

\* Rows and columns of an offset.
LEMMA RowOf ==
    ASSUME NEW b \in Nat \ {0}, NEW l \in Nat, NEW c \in 0 .. b - 1, NEW o, o = l * b + c
    PROVE  o \div b = l /\ o % b = c
OBVIOUS

LEMMA RowAndColumn ==
    ASSUME NEW b \in Nat \ {0}, NEW o \in Nat
    PROVE  o \div b \in Nat /\ o % b \in 0 .. b - 1 /\ o = (o \div b) * b + (o % b)
OBVIOUS

LEMMA RowsFit ==
    ASSUME NEW b \in Nat, NEW l \in Nat, NEW n \in Nat, l < n
    PROVE  l * b + b <= n * b
<1>1. PICK m \in Nat : n = (l + 1) + m
  <2>1. n - (l + 1) \in Nat
    OBVIOUS
  <2> QED
    BY <2>1
<1>2. n * b = (l * b + b) + m * b
  BY <1>1
<1>3. m * b \in Nat
  OBVIOUS
<1> QED
  BY <1>2, <1>3

\* The bytes of a pixel that ends inside its row come before those of every later one.
LEMMA RowMajor ==
    ASSUME NEW pitch \in Nat, NEW a1 \in Nat, NEW a2 \in Nat, NEW b1 \in Nat, NEW b2 \in Nat,
           4 * a1 + 3 < pitch, a2 < b2 \/ (a2 = b2 /\ a1 < b1)
    PROVE  a2 * pitch + 4 * a1 + 3 < b2 * pitch + 4 * b1
<1>1. a2 * pitch \in Nat /\ b2 * pitch \in Nat
  OBVIOUS
<1>2. CASE a2 < b2
  <2>1. a2 * pitch + pitch <= b2 * pitch
    BY <1>2, RowsFit
  <2> QED
    BY <1>1, <2>1
<1>3. CASE a2 = b2 /\ a1 < b1
  BY <1>1, <1>3
<1> QED
  BY <1>2, <1>3

LEMMA ScreenSizes ==
    ASSUME dumbbuffer \in Screens
    PROVE  /\ dumbbuffer.width \in Nat /\ dumbbuffer.height \in Nat /\ dumbbuffer.pitch \in Nat
           /\ 4 * dumbbuffer.width <= dumbbuffer.pitch
           /\ Frame!MapSize = dumbbuffer.height * dumbbuffer.pitch /\ Frame!MapSize \in Nat
<1>1. /\ dumbbuffer.width \in Nat /\ dumbbuffer.height \in Nat /\ dumbbuffer.pitch \in Nat
      /\ 4 * dumbbuffer.width <= dumbbuffer.pitch
  BY ScreenAssumption DEF ScreenAssumption
<1>2. PICK h \in Nat, b \in Nat : h = dumbbuffer.height /\ b = dumbbuffer.pitch
  BY <1>1
<1>3. b * h = h * b /\ b * h \in Nat
  OBVIOUS
<1> QED
  BY <1>1, <1>2, <1>3 DEF Frame!MapSize

\* What the screen shows lies in the mapping.
LEMMA ByteInMapping ==
    ASSUME dumbbuffer \in Screens, NEW p \in Frame!OnScreen, NEW i \in 0 .. 3
    PROVE  Frame!Byte(p, i) \in 0 .. Frame!MapSize - 1
<1>1. PICK w \in Nat, h \in Nat, b \in Nat :
          /\ w = dumbbuffer.width /\ h = dumbbuffer.height /\ b = dumbbuffer.pitch
          /\ 4 * w <= b /\ Frame!MapSize = h * b
  BY ScreenSizes
<1>2. PICK p1 \in Nat, p2 \in Nat : p1 = p[1] /\ p2 = p[2] /\ p1 < w /\ p2 < h
  BY <1>1 DEF Frame!OnScreen
<1>3. Frame!Byte(p, i) = p2 * b + 4 * p1 + i
  BY <1>1, <1>2 DEF Frame!Byte
<1>4. p2 * b + b <= h * b
  BY <1>2, RowsFit
<1>5. p2 * b \in Nat /\ h * b \in Nat
  OBVIOUS
<1> QED
  BY <1>1, <1>2, <1>3, <1>4, <1>5

\* Drawing a pixel leaves alone what an earlier pixel of the screen shows, and, if it ends
\* inside its row, every other pixel.
LEMMA PixelsApart ==
    ASSUME dumbbuffer \in Screens, NEW p \in Frame!OnScreen, NEW i \in 0 .. 3,
           x \in Nat, y \in Nat, p # <<x, y>>,
           Passed(p) \/ 4 * x + 3 < dumbbuffer.pitch
    PROVE  Frame!Byte(p, i) \notin Frame!PixelOffset .. Frame!PixelOffset + 3
<1>1. PICK w \in Nat, b \in Nat : w = dumbbuffer.width /\ b = dumbbuffer.pitch /\ 4 * w <= b
  BY ScreenSizes
<1>2. PICK p1 \in Nat, p2 \in Nat : p1 = p[1] /\ p2 = p[2] /\ p1 < w
  BY <1>1, ScreenSizes DEF Frame!OnScreen
<1>3. Frame!Byte(p, i) = p2 * b + 4 * p1 + i
  BY <1>1, <1>2 DEF Frame!Byte
<1>4. Frame!PixelOffset = y * b + 4 * x
  BY <1>1 DEF Frame!PixelOffset
<1>5. p2 * b \in Nat /\ y * b \in Nat
  OBVIOUS
<1>6. p2 # y \/ p1 # x
  BY <1>2 DEF Frame!OnScreen
<1>7. CASE Passed(p)
  <2>1. p2 < y \/ (p2 = y /\ p1 < x)
    BY <1>2, <1>7 DEF Passed
  <2>2. p2 * b + 4 * p1 + 3 < y * b + 4 * x
    BY <1>1, <1>2, <2>1, RowMajor
  <2> QED
    BY <1>3, <1>4, <1>5, <2>2
<1>8. CASE ~Passed(p)
  <2>1. y < p2 \/ (y = p2 /\ x < p1)
    BY <1>2, <1>6, <1>8 DEF Passed
  <2>2. 4 * x + 3 < b
    BY <1>1, <1>8
  <2>3. y * b + 4 * x + 3 < p2 * b + 4 * p1
    BY <2>1, <2>2, RowMajor
  <2> QED
    BY <1>3, <1>4, <1>5, <2>3
<1> QED
  BY <1>7, <1>8

LEMMA Halves ==
    ASSUME NEW n \in Nat
    PROVE  /\ Frame!Even(n) \in Nat /\ Frame!Even(n) % 2 = 0 /\ Frame!Even(Frame!Even(n)) = Frame!Even(n)
           /\ Frame!Even(n) <= n /\ (Frame!Even(n) + 1) % 2 = 1
           /\ Frame!Even(Frame!Even(n) + 1) = Frame!Even(n) /\ Frame!Even(n) = 2 * (n \div 2)
           /\ \A m \in Nat : n < m /\ m % 2 = 0 => Frame!Even(n) + 1 < m
BY DEF Frame!Even

\* Where the sizes MPP_Init accepts put the rows.
LEMMA Sizes ==
    ASSUME GoodSize, camera \in Formats
    PROVE  /\ camera.width \in Nat \ {0} /\ camera.height \in Nat \ {0}
           /\ camera.bytesperline \in Nat \ {0} /\ camera.width <= camera.bytesperline
           /\ camera.width % 2 = 0
           /\ camera.height \div 2 \in Nat /\ camera.height = 2 * (camera.height \div 2)
           /\ Frame!ImageSize = (camera.height + camera.height \div 2) * camera.bytesperline
           /\ Frame!FrameSize = Frame!ImageSize /\ Frame!hor_stride = camera.bytesperline
<1>1. /\ camera.width \in Nat \ {0} /\ camera.height \in Nat \ {0}
      /\ camera.bytesperline \in Nat \ {0} /\ camera.width <= camera.bytesperline
      /\ camera.width % 2 = 0 /\ camera.height % 2 = 0
  BY StartupAssumption DEF StartupAssumption, GoodSize
<1>2. PICK k \in Nat : camera.height = 2 * k /\ k = camera.height \div 2
  BY <1>1
<1>3. ASSUME NEW b \in Nat, NEW n \in Nat PROVE (b * (2 * n) * 3) \div 2 = (2 * n + n) * b
  <2>1. b * (2 * n) * 3 = 2 * ((2 * n + n) * b)
    OBVIOUS
  <2> QED
    BY <2>1
<1>4. Frame!ImageSize = (camera.height + camera.height \div 2) * camera.bytesperline
  BY <1>1, <1>2, <1>3 DEF Frame!ImageSize
<1> QED
  BY <1>1, <1>2, <1>4 DEF Frame!FrameSize, Frame!ImageSize, Frame!hor_stride

\* A picture no larger than the mode is drawn inside the mapping.
LEMMA FitsMapping ==
    ASSUME dumbbuffer \in Screens, GoodSize, camera \in Formats, Frame!FitsMode,
           x \in 0 .. camera.width - 1, y \in 0 .. camera.height - 1
    PROVE  /\ 4 * x + 3 < dumbbuffer.pitch
           /\ Frame!PixelOffset .. Frame!PixelOffset + 3 \subseteq 0 .. Frame!MapSize - 1
<1>1. PICK h \in Nat, b \in Nat :
          h = dumbbuffer.height /\ b = dumbbuffer.pitch /\ Frame!MapSize = h * b
  BY ScreenSizes
<1>2. x \in Nat /\ y \in Nat /\ y < h /\ 4 * x + 3 < b
  BY <1>1, ScreenSizes, Sizes DEF Frame!FitsMode
<1>3. Frame!PixelOffset = y * b + 4 * x
  BY <1>1 DEF Frame!PixelOffset
<1>4. y * b + b <= h * b
  BY <1>2, RowsFit
<1>5. y * b \in Nat /\ h * b \in Nat
  BY <1>2
<1> QED
  BY <1>1, <1>2, <1>3, <1>4, <1>5

\* What the driver stores in column c of row l, without padding.
LEMMA SampleAt ==
    ASSUME GoodSize, camera \in Formats, camera.bytesperline = camera.width,
           NEW l \in Nat, NEW c \in 0 .. camera.width - 1, NEW o, o = l * camera.width + c
    PROVE  Frame!Data(o) = IF l < camera.height THEN <<"Y", c, l>>
                           ELSE <<IF c % 2 = 0 THEN "U" ELSE "V", Frame!Even(c),
                                  2 * (l - camera.height)>>
<1>1. PICK w \in Nat \ {0} : w = camera.width
  BY Sizes
<1>2. c \in 0 .. w - 1 /\ o = l * w + c
  BY <1>1
<1>3. o \div w = l /\ o % w = c
  BY <1>2, RowOf
<1>4. o \div camera.bytesperline = l /\ o % camera.bytesperline = c /\ ~(c >= camera.width)
  BY <1>1, <1>2, <1>3
<1> QED
  BY <1>4 DEF Frame!Data, Frame!Layout

\* Without padding NV12_To_RGB finds a pixel's own samples.
LEMMA OwnSamples ==
    ASSUME GoodSize, camera \in Formats, camera.bytesperline = camera.width,
           x \in 0 .. camera.width - 1, y \in 0 .. camera.height - 1
    PROVE  <<Frame!Data(Frame!Y_index), Frame!Data(Frame!UV_index), Frame!Data(Frame!UV_index + 1)>>
               = Frame!Sampled(<<x, y>>)
<1>1. PICK w \in Nat \ {0}, h \in Nat \ {0} : w = camera.width /\ h = camera.height /\ w % 2 = 0
  BY Sizes
<1>2. PICK i \in Nat, j \in Nat : i = x /\ j = y /\ i < w /\ j < h
  BY <1>1
<1>3. PICK e \in Nat, k \in Nat : e = Frame!Even(i) /\ k = j \div 2
  <2>1. Frame!Even(i) \in Nat
    BY Halves
  <2>2. j \div 2 \in Nat
    OBVIOUS
  <2> QED
    BY <2>1, <2>2
<1>4. /\ e % 2 = 0 /\ (e + 1) % 2 = 1 /\ e + 1 < w
      /\ Frame!Even(e) = e /\ Frame!Even(e + 1) = e
  BY <1>1, <1>2, <1>3, Halves
<1>5. Frame!Even(j) = 2 * k
  BY <1>2, <1>3, Halves
<1>6. Frame!Data(Frame!Y_index) = <<"Y", i, j>>
  <2>1. Frame!Y_index = j * w + i /\ i \in 0 .. camera.width - 1
    BY <1>1, <1>2 DEF Frame!Y_index
  <2>2. Frame!Y_index = j * camera.width + i /\ j < camera.height
    BY <1>1, <1>2, <2>1
  <2> QED
    BY <2>1, <2>2, SampleAt
<1>7. Frame!UV_index = (h + k) * w + e
  <2>1. (h + k) * w = h * w + k * w
    OBVIOUS
  <2>2. Frame!UV_index = h * w + k * w + e
    BY <1>1, <1>2, <1>3 DEF Frame!UV_index
  <2> QED
    BY <2>1, <2>2
<1>8. PICK l \in Nat : l = h + k
  OBVIOUS
<1>9. ~(l < camera.height) /\ 2 * (l - camera.height) = Frame!Even(j)
  BY <1>1, <1>5, <1>8
<1>10. Frame!Data(Frame!UV_index) = <<"U", e, Frame!Even(j)>>
  <2>1. Frame!UV_index = l * camera.width + e /\ e \in 0 .. camera.width - 1
    BY <1>1, <1>4, <1>7, <1>8
  <2>2. Frame!Data(Frame!UV_index) = <<IF e % 2 = 0 THEN "U" ELSE "V", Frame!Even(e),
                                       2 * (l - camera.height)>>
    BY <1>9, <2>1, SampleAt
  <2> QED
    BY <1>4, <1>9, <2>2
<1>11. Frame!Data(Frame!UV_index + 1) = <<"V", e, Frame!Even(j)>>
  <2>1. PICK f \in Nat : f = e + 1
    OBVIOUS
  <2>2. Frame!UV_index + 1 = l * camera.width + f /\ f \in 0 .. camera.width - 1
    <3>1. l * w \in Nat
      OBVIOUS
    <3> QED
      BY <1>1, <1>4, <1>7, <1>8, <2>1, <3>1
  <2>3. Frame!Data(Frame!UV_index + 1) = <<IF f % 2 = 0 THEN "U" ELSE "V", Frame!Even(f),
                                           2 * (l - camera.height)>>
    BY <1>9, <2>2, SampleAt
  <2> QED
    BY <1>4, <1>9, <2>1, <2>3
<1> QED
  BY <1>2, <1>3, <1>6, <1>10, <1>11 DEF Frame!Sampled

\* With padding, too, its reads stay in the image.
LEMMA PixelInImage ==
    ASSUME GoodSize, camera \in Formats,
           x \in 0 .. camera.width - 1, y \in 0 .. camera.height - 1,
           NEW o \in {Frame!Y_index, Frame!UV_index, Frame!UV_index + 1}
    PROVE  o \in Nat /\ o < Frame!ImageSize
<1> DEFINE w == camera.width
           h == camera.height
           b == camera.bytesperline
           e == Frame!Even(x)
<1>1. /\ w \in Nat \ {0} /\ h \in Nat \ {0} /\ b \in Nat /\ w <= b /\ w % 2 = 0
      /\ x \in Nat /\ y \in Nat /\ x < w /\ y < h
      /\ h \div 2 \in Nat /\ h = 2 * (h \div 2)
      /\ Frame!ImageSize = (h + h \div 2) * b
  BY Sizes
<1>2. e \in Nat /\ e + 1 < w
  BY <1>1, Halves
<1>3. PICK l \in Nat, c \in 0 .. w - 1 : o = l * w + c /\ l < h + h \div 2
  <2>1. CASE o = Frame!Y_index
    BY <1>1, <2>1 DEF Frame!Y_index
  <2>2. PICK m \in Nat : m = h + y \div 2 /\ m < h + h \div 2
    BY <1>1
  <2>3. m * w = h * w + (y \div 2) * w /\ m * w \in Nat
    BY <1>1, <2>2
  <2>4. CASE o = Frame!UV_index
    BY <1>1, <1>2, <2>2, <2>3, <2>4 DEF Frame!UV_index
  <2>5. CASE o = Frame!UV_index + 1
    <3>1. o = m * w + (e + 1) /\ e + 1 \in 0 .. w - 1
      BY <1>1, <1>2, <2>3, <2>5 DEF Frame!UV_index
    <3> QED
      BY <2>2, <3>1
  <2> QED
    BY <2>1, <2>4, <2>5
<1>4. PICK n \in Nat : n = h + h \div 2
  BY <1>1
<1>5. l * w + w <= n * w
  BY <1>1, <1>3, <1>4, RowsFit
<1>6. n * w <= n * b
  BY <1>1
<1>7. l * w \in Nat /\ n * w \in Nat /\ n * b \in Nat
  BY <1>1
<1> QED
  BY <1>1, <1>3, <1>4, <1>5, <1>6, <1>7

LEMMA DrawStep ==
    ASSUME dumbbuffer \in Screens, GoodSize, camera \in Formats, LcdInv, EncInv, ReadInv,
           Frame!DrawPixel
    PROVE  LcdInv' /\ EncInv' /\ ReadInv'
<1> DEFINE w == camera.width
           h == camera.height
           bytes == Frame!PixelOffset .. Frame!PixelOffset + 3
           pixel == <<Frame!Data(Frame!Y_index), Frame!Data(Frame!UV_index),
                      Frame!Data(Frame!UV_index + 1)>>
<1>1. w \in Nat \ {0} /\ h \in Nat \ {0}
  BY Sizes
<1>2. /\ y < h
      /\ lcd_map' = [o \in DOMAIN lcd_map \cup bytes |-> IF o \in bytes THEN pixel ELSE lcd_map[o]]
      /\ read' = read \cup {Frame!Y_index, Frame!UV_index, Frame!UV_index + 1}
      /\ IF x + 1 < w THEN x' = x + 1 /\ y' = y ELSE x' = 0 /\ y' = y + 1
      /\ camera' = camera /\ dumbbuffer' = dumbbuffer
      /\ plane' = plane /\ row' = row /\ dst' = dst
  BY DEF Frame!DrawPixel, Frame!enc
<1>3. x \in 0 .. w - 1 /\ y \in 0 .. h - 1 /\ x \in Nat /\ y \in Nat
  BY <1>1, <1>2 DEF LcdInv
<1>4. ReadInv'
  <2>1. Frame!ImageSize' = Frame!ImageSize
    BY <1>2 DEF Frame!ImageSize
  <2> QED
    BY <1>2, <1>3, <2>1, PixelInImage DEF ReadInv
<1>5. EncInv'
  <2>1. /\ Frame!Rows' = Frame!Rows /\ Frame!FrameSize' = Frame!FrameSize /\ Lines' = Lines
        /\ Frame!Padding' = Frame!Padding
        /\ \A o : Frame!Data(o)' = Frame!Data(o)
    BY <1>2 DEF Frame!Rows, Frame!FrameSize, Frame!hor_stride, Lines, Frame!Data, Frame!Layout,
                Frame!Padding
  <2> QED
    BY <1>2, <2>1 DEF EncInv
<1>6. /\ Frame!Pixels' = Frame!Pixels /\ Frame!OnScreen' = Frame!OnScreen
      /\ Frame!MapSize' = Frame!MapSize /\ Frame!FitsMode' = Frame!FitsMode
      /\ \A p : Frame!Sampled(p)' = Frame!Sampled(p)
      /\ \A p, i : Frame!Byte(p, i)' = Frame!Byte(p, i)
  BY <1>2 DEF Frame!Pixels, Frame!OnScreen, Frame!MapSize, Frame!FitsMode, Frame!Sampled,
              Frame!Even, Frame!Byte
<1>7. x' \in 0 .. w - 1 /\ y' \in 0 .. h
  BY <1>1, <1>2, <1>3
<1>8. 0 .. Frame!MapSize - 1 \subseteq DOMAIN lcd_map'
  BY <1>2 DEF LcdInv
<1>9. ASSUME Frame!FitsMode PROVE DOMAIN lcd_map' = 0 .. Frame!MapSize - 1
  <2>1. bytes \subseteq 0 .. Frame!MapSize - 1
    BY <1>3, <1>9, FitsMapping
  <2> QED
    BY <1>2, <1>9, <2>1 DEF LcdInv, Frame!InMapping
\* What is not written keeps what it shows.
<1>10. ASSUME NEW p \in Frame!OnScreen, NEW i \in 0 .. 3, p # <<x, y>>,
              Passed(p) \/ Frame!FitsMode
       PROVE  lcd_map'[Frame!Byte(p, i)] = lcd_map[Frame!Byte(p, i)]
  <2>1. Passed(p) \/ 4 * x + 3 < dumbbuffer.pitch
    BY <1>3, <1>10, FitsMapping
  <2>2. Frame!Byte(p, i) \notin bytes
    BY <1>3, <1>10, <2>1, PixelsApart
  <2>3. Frame!Byte(p, i) \in DOMAIN lcd_map
    BY ByteInMapping DEF LcdInv
  <2> QED
    BY <1>2, <2>2, <2>3
<1>11. ASSUME camera.bytesperline = w, NEW p \in Frame!OnScreen, p \in Frame!Pixels, Passed(p)',
              NEW i \in 0 .. 3
       PROVE  lcd_map'[Frame!Byte(p, i)] = Frame!Sampled(p)
  <2>1. p = <<p[1], p[2]>> /\ p[1] \in 0 .. w - 1 /\ p[2] \in 0 .. h - 1
    BY <1>11 DEF Frame!Pixels
  <2>2. CASE p = <<x, y>>
    <3>1. Frame!Byte(p, i) \in bytes
      <4>1. PICK at \in Nat : at = Frame!PixelOffset
        BY <1>3, ScreenSizes DEF Frame!PixelOffset
      <4>2. Frame!Byte(p, i) = Frame!PixelOffset + i
        BY <2>2 DEF Frame!Byte, Frame!PixelOffset
      <4> QED
        BY <4>1, <4>2
    <3>2. lcd_map'[Frame!Byte(p, i)] = pixel
      BY <1>2, <3>1
    <3> QED
      BY <1>3, <1>11, <2>2, <3>2, OwnSamples
  <2>3. CASE p # <<x, y>>
    <3>1. p[1] # x \/ p[2] # y
      BY <2>1, <2>3
    <3>2. Passed(p)
      BY <1>1, <1>2, <1>3, <1>11, <2>1, <3>1 DEF Passed
    <3>3. lcd_map'[Frame!Byte(p, i)] = lcd_map[Frame!Byte(p, i)]
      BY <1>10, <2>3, <3>2
    <3> QED
      BY <1>11, <3>2, <3>3 DEF LcdInv, Frame!Shows
  <2> QED
    BY <2>2, <2>3
<1>12. ASSUME Frame!FitsMode, NEW p \in Frame!OnScreen, p \notin Frame!Pixels, NEW i \in 0 .. 3
       PROVE  lcd_map'[Frame!Byte(p, i)] = Frame!NotDrawn
  <2>1. p # <<x, y>>
    BY <1>3, <1>12 DEF Frame!Pixels
  <2> QED
    BY <1>10, <1>12, <2>1 DEF LcdInv, Frame!Shows
<1>13. LcdInv'
  <2>1. Frame!FitsMode' => Frame!InMapping'
    BY <1>6, <1>9 DEF Frame!InMapping
  <2>2. camera'.bytesperline = camera'.width =>
            \A p \in Frame!OnScreen' :
                p \in Frame!Pixels' /\ Passed(p)' => Frame!Shows(p, Frame!Sampled(p))'
    BY <1>2, <1>6, <1>11 DEF Frame!Shows
  <2>3. Frame!FitsMode' =>
            \A p \in Frame!OnScreen' : p \notin Frame!Pixels' => Frame!Shows(p, Frame!NotDrawn)'
    BY <1>6, <1>12 DEF Frame!Shows, Frame!NotDrawn
  <2> QED
    BY <1>2, <1>6, <1>7, <1>8, <2>1, <2>2, <2>3 DEF LcdInv
<1> QED
  BY <1>4, <1>5, <1>13

\* The LCD's part looks at nothing MPP_Encode changes.
LEMMA SameLcd ==
    ASSUME LcdInv, camera' = camera, dumbbuffer' = dumbbuffer,
           x' = x, y' = y, lcd_map' = lcd_map
    PROVE  LcdInv'
<1>1. /\ Frame!Pixels' = Frame!Pixels /\ Frame!OnScreen' = Frame!OnScreen
      /\ Frame!MapSize' = Frame!MapSize /\ (Frame!FitsMode' <=> Frame!FitsMode)
      /\ (Frame!FitsMode /\ Frame!InMapping => Frame!InMapping')
  BY DEF Frame!Pixels, Frame!OnScreen, Frame!MapSize, Frame!FitsMode, Frame!InMapping
<1>2. \A p : /\ Passed(p)' <=> Passed(p)
             /\ Frame!Shows(p, Frame!Sampled(p))' <=> Frame!Shows(p, Frame!Sampled(p))
             /\ Frame!Shows(p, Frame!NotDrawn)' <=> Frame!Shows(p, Frame!NotDrawn)
  BY DEF Passed, Frame!Shows, Frame!Byte, Frame!Sampled, Frame!Even, Frame!NotDrawn
<1> QED
  BY <1>1, <1>2 DEF LcdInv

LEMMA CopyStep ==
    ASSUME GoodSize, camera \in Formats, LcdInv, EncInv, ReadInv, Frame!CopyRow
    PROVE  LcdInv' /\ EncInv' /\ ReadInv'
<1>1. PICK w \in Nat \ {0}, h \in Nat, b \in Nat \ {0}, k \in Nat :
          /\ w = camera.width /\ h = camera.height /\ b = camera.bytesperline /\ w <= b
          /\ k = h \div 2 /\ h = 2 * k
  BY Sizes
<1>2. Frame!ImageSize = (h + k) * b /\ Frame!FrameSize = (h + k) * b /\ Frame!hor_stride = b
  BY <1>1, Sizes
<1>3. plane \in {"Y", "UV"} /\ row \in Nat /\ row < Frame!Rows
  BY <1>1 DEF EncInv, Frame!CopyRow, Frame!Rows
<1>4. PICK l \in Nat : l = Lines /\ l < h + k
  BY <1>1, <1>3 DEF Lines, Frame!Rows
<1>5. PICK to \in Nat : to = l * b /\ to = Frame!Plane(b) + row * b
  <2>1. l * b \in Nat
    OBVIOUS
  <2>2. CASE plane = "Y"
    BY <1>3, <1>4, <2>1, <2>2 DEF Lines, Frame!Plane
  <2>3. CASE plane = "UV"
    <3>1. l = h + row
      BY <1>1, <1>4, <2>3 DEF Lines
    <3>2. (h + row) * b = b * h + row * b
      BY <1>3
    <3> QED
      BY <1>1, <2>1, <2>3, <3>1, <3>2 DEF Frame!Plane
  <2> QED
    BY <1>3, <2>2, <2>3
<1>6. to + b <= (h + k) * b
  BY <1>4, <1>5, RowsFit
<1>7. PICK size \in Nat : size = (h + k) * b
  OBVIOUS
<1>8. /\ dst' = [o \in DOMAIN dst \cup {to + i : i \in 0 .. w - 1} |->
                    IF o \in to .. to + w - 1 THEN Frame!Data(to + o - to) ELSE dst[o]]
      /\ read' = read \cup {to + i : i \in 0 .. w - 1}
      /\ row' = row + 1
      /\ camera' = camera /\ dumbbuffer' = dumbbuffer
      /\ x' = x /\ y' = y /\ lcd_map' = lcd_map /\ plane' = plane
  BY <1>1, <1>2, <1>5 DEF Frame!CopyRow, Frame!lcd
<1>9. /\ \A i \in 0 .. w - 1 : to + i \in 0 .. size - 1
      /\ DOMAIN dst = 0 .. size - 1
  <2>1. to + b <= size /\ w <= b
    BY <1>1, <1>6, <1>7
  <2>2. \A i \in 0 .. w - 1 : to + i \in 0 .. size - 1
    BY <2>1
  <2>3. DOMAIN dst = 0 .. size - 1
    BY <1>2, <1>7 DEF EncInv
  <2> QED
    BY <2>2, <2>3
<1>10. DOMAIN dst' = 0 .. size - 1
  BY <1>8, <1>9
<1>11. ASSUME NEW o \in 0 .. size - 1
       PROVE  dst'[o] = IF o \div b < l + 1 THEN Frame!Data(o) ELSE Frame!Padding
  <2>1. o \div b \in Nat /\ o % b \in 0 .. b - 1 /\ o = (o \div b) * b + (o % b)
    <3>1. o \in Nat
      BY <1>7
    <3> QED
      BY <3>1, RowAndColumn
  <2>2. dst[o] = IF o \div b < l THEN Frame!Data(o) ELSE Frame!Padding
    BY <1>1, <1>4, <1>9 DEF EncInv
  <2>3. CASE o \in to .. to + w - 1
    <3>1. o - to \in 0 .. b - 1 /\ o = l * b + (o - to)
      BY <1>1, <1>5, <2>3
    <3>2. o \div b = l
      BY <3>1, RowOf
    <3>3. to + o - to = o
      OBVIOUS
    <3>4. dst'[o] = Frame!Data(o)
      BY <1>8, <1>9, <2>3, <3>3
    <3> QED
      BY <3>2, <3>4
  <2>4. CASE o \notin to .. to + w - 1
    <3>1. dst'[o] = dst[o]
      BY <1>8, <1>9, <2>4
    <3>2. CASE o \div b = l
      <4>1. o = to + (o % b)
        BY <1>5, <2>1, <3>2
      <4>2. o % b >= w
        BY <2>1, <2>4, <4>1
      <4>3. Frame!Data(o) = Frame!Padding
        BY <1>1, <4>2 DEF Frame!Data, Frame!Layout
      <4> QED
        BY <2>2, <3>1, <3>2, <4>3
    <3>3. CASE o \div b # l
      <4>1. o \div b < l + 1 <=> o \div b < l
        BY <2>1, <3>3
      <4> QED
        BY <2>2, <3>1, <4>1
    <3> QED
      BY <3>2, <3>3
  <2> QED
    BY <2>3, <2>4
<1>12. /\ Frame!Rows' = Frame!Rows /\ Frame!FrameSize' = Frame!FrameSize
       /\ Frame!Padding' = Frame!Padding /\ Frame!ImageSize' = Frame!ImageSize
       /\ \A o : Frame!Data(o)' = Frame!Data(o)
  BY <1>8 DEF Frame!Rows, Frame!FrameSize, Frame!ImageSize, Frame!hor_stride, Frame!Data,
              Frame!Layout, Frame!Padding
<1>13. Lines' = l + 1
  <2>1. CASE plane = "Y"
    BY <1>4, <1>8, <2>1 DEF Lines
  <2>2. CASE plane = "UV"
    <3>1. l = h + row
      BY <1>1, <1>4, <2>2 DEF Lines
    <3>2. Lines' = h + (row + 1)
      BY <1>1, <1>8, <2>2 DEF Lines
    <3> QED
      BY <1>3, <3>1, <3>2
  <2> QED
    BY <1>3, <2>1, <2>2
<1>14. EncInv'
  <2>1. plane' \in {"Y", "UV"} /\ row' \in 0 .. Frame!Rows'
    <3>1. Frame!Rows \in Nat
      BY <1>1 DEF Frame!Rows
    <3> QED
      BY <1>3, <1>8, <1>12, <3>1
  <2>2. DOMAIN dst' = 0 .. Frame!FrameSize' - 1
    BY <1>2, <1>7, <1>10, <1>12
  <2>3. ASSUME NEW o \in DOMAIN dst'
        PROVE  dst'[o] = IF o \div camera'.bytesperline < Lines' THEN Frame!Data(o)'
                         ELSE Frame!Padding'
    BY <1>1, <1>8, <1>10, <1>11, <1>12, <1>13
  <2> QED
    BY <2>1, <2>2, <2>3 DEF EncInv
<1>15. ReadInv'
  BY <1>2, <1>7, <1>8, <1>9, <1>12 DEF ReadInv
<1>16. LcdInv'
  BY <1>8, SameLcd
<1> QED
  BY <1>14, <1>15, <1>16

LEMMA NextPlaneStep ==
    ASSUME GoodSize, camera \in Formats, LcdInv, EncInv, ReadInv, Frame!NextPlane
    PROVE  LcdInv' /\ EncInv' /\ ReadInv'
<1>1. /\ plane = "Y" /\ row = Frame!Rows /\ plane' = "UV" /\ row' = 0
      /\ camera' = camera /\ dumbbuffer' = dumbbuffer
      /\ x' = x /\ y' = y /\ lcd_map' = lcd_map /\ dst' = dst /\ read' = read
  BY DEF Frame!NextPlane, Frame!lcd
<1>2. camera.height \in Nat /\ camera.height \div 2 \in Nat
  BY Sizes
<1>3. /\ Frame!FrameSize' = Frame!FrameSize
      /\ Frame!Padding' = Frame!Padding /\ Frame!ImageSize' = Frame!ImageSize
      /\ \A o : Frame!Data(o)' = Frame!Data(o)
  BY <1>1 DEF Frame!FrameSize, Frame!ImageSize, Frame!hor_stride, Frame!Data, Frame!Layout,
              Frame!Padding
<1>4. Lines' = Lines /\ 0 \in 0 .. Frame!Rows'
  BY <1>1, <1>2 DEF Lines, Frame!Rows
<1>5. EncInv'
  BY <1>1, <1>3, <1>4 DEF EncInv
<1>6. ReadInv'
  BY <1>1, <1>3 DEF ReadInv
<1>7. LcdInv'
  BY <1>1, SameLcd
<1> QED
  BY <1>5, <1>6, <1>7
LEMMA SamePicture ==
    ASSUME PictureInv, camera' = camera, UNCHANGED picture PROVE PictureInv'
<1>1. /\ dumbbuffer' = dumbbuffer /\ x' = x /\ y' = y /\ lcd_map' = lcd_map
      /\ plane' = plane /\ row' = row /\ dst' = dst /\ read' = read
  BY DEF picture
<1>2. GoodSize' = GoodSize /\ NothingRead' = NothingRead
  BY <1>1 DEF GoodSize, NothingRead, Frame!MapSize, Frame!NotDrawn, Frame!FrameSize,
              Frame!hor_stride
<1>3. LcdInv => LcdInv'
  BY <1>1, SameLcd
<1>4. EncInv' = EncInv /\ ReadInv' = ReadInv
  <2>1. /\ Frame!Rows' = Frame!Rows /\ Frame!FrameSize' = Frame!FrameSize
        /\ Frame!Padding' = Frame!Padding /\ Frame!ImageSize' = Frame!ImageSize
        /\ Lines' = Lines /\ \A o : Frame!Data(o)' = Frame!Data(o)
    BY <1>1 DEF Frame!Rows, Frame!FrameSize, Frame!ImageSize, Frame!hor_stride, Frame!Data,
                Frame!Layout, Frame!Padding, Lines
  <2> QED
    BY <1>1, <2>1 DEF EncInv, ReadInv
<1> QED
  BY <1>1, <1>2, <1>3, <1>4 DEF PictureInv

LEMMA PictureInit == ASSUME FirstFrameInit PROVE PictureInv
<1>1. /\ camera \in Formats /\ x = 0 /\ y = 0 /\ plane = "Y" /\ row = 0 /\ read = {}
      /\ dumbbuffer \in Screens
      /\ lcd_map = [o \in 0 .. Frame!MapSize - 1 |-> Frame!NotDrawn]
      /\ dst = [o \in 0 .. Frame!FrameSize - 1 |-> Frame!Padding]
  BY DEF FirstFrameInit, Frame!Init
<1>2. CASE GoodSize
  <2>1. /\ camera.width \in Nat \ {0} /\ camera.height \in Nat \ {0}
        /\ camera.bytesperline \in Nat \ {0}
    BY <1>1, <1>2, Sizes
  <2>2. \A p \in Frame!Pixels : ~Passed(p)
    BY <1>1, <2>1 DEF Frame!Pixels, Passed
  <2>3. LcdInv
    <3>1. \A p \in Frame!OnScreen : Frame!Shows(p, Frame!NotDrawn)
      BY <1>1, ByteInMapping DEF Frame!Shows
    <3> QED
      BY <1>1, <2>1, <2>2, <3>1 DEF LcdInv, Frame!InMapping
  <2>4. ASSUME NEW o \in DOMAIN dst PROVE ~(o \div camera.bytesperline < Lines)
    <3>1. o \in Nat /\ Lines = 0
      <4>1. DOMAIN dst = 0 .. Frame!FrameSize - 1
        BY <1>1
      <4>2. DOMAIN dst \subseteq Nat
        BY <4>1
      <4> QED
        BY <1>1, <4>2 DEF Lines
    <3>2. o \div camera.bytesperline \in Nat
      BY <2>1, <3>1
    <3> QED
      BY <3>1, <3>2
  <2>5. EncInv
    <3>1. 0 \in 0 .. Frame!Rows
      BY <1>1, <2>1 DEF Frame!Rows
    <3> QED
      BY <1>1, <2>4, <3>1 DEF EncInv
  <2>6. ReadInv
    BY <1>1 DEF ReadInv
  <2> QED
    BY <1>1, <1>2, <2>3, <2>5, <2>6 DEF PictureInv
<1>3. CASE ~GoodSize
  BY <1>1, <1>3 DEF PictureInv, NothingRead
<1> QED
  BY <1>2, <1>3

LEMMA PictureStep ==
    ASSUME StartInv, PictureInv, [FirstFrameNext]_<<vars, picture>> PROVE PictureInv'
<1>1. CASE ReadFrame
  <2>1. GoodSize /\ camera \in Formats
    BY <1>1 DEF ReadFrame, StartInv, StartTypes, ClimbInv
  <2>2. dumbbuffer \in Screens /\ LcdInv /\ EncInv /\ ReadInv
    BY <2>1 DEF PictureInv
  <2>3. LcdInv' /\ EncInv' /\ ReadInv'
    BY <1>1, <2>1, <2>2, DrawStep, CopyStep, NextPlaneStep DEF ReadFrame, Frame!Next
  <2>4. GoodSize' /\ dumbbuffer' = dumbbuffer
    BY <1>1, <2>1, ReadsKeep DEF vars, GoodSize, ReadFrame, Frame!Next, Frame!DrawPixel,
                                 Frame!CopyRow, Frame!NextPlane
  <2> QED
    BY <2>2, <2>3, <2>4 DEF PictureInv
<1>2. CASE (Next /\ UNCHANGED picture) \/ UNCHANGED <<vars, picture>>
  <2>1. camera' = camera
    BY <1>2 DEF Next, Succeeds, Fails, StartThreads, RestoreScreen, ReleaseLcd, vars
  <2>2. UNCHANGED picture
    BY <1>2
  <2> QED
    BY <2>1, <2>2, SamePicture
<1> QED
  BY <1>1, <1>2 DEF FirstFrameNext

LEMMA PictureInductive == FirstFrameSpec => []PictureInv
<1>1. FirstFrameInit => PictureInv
  BY PictureInit
<1>2. StartInv /\ PictureInv /\ [FirstFrameNext]_<<vars, picture>> => PictureInv'
  BY PictureStep
<1> QED
  BY <1>1, <1>2, ImplementsStartup, StartInductive, PTL DEF FirstFrameSpec

LEMMA WholePicture == ASSUME StartInv, PictureInv PROVE PictureArrives
<1>0. camera \in Formats
  BY DEF StartInv, StartTypes
<1>1. ASSUME Frame!Copied, NEW o \in DOMAIN dst PROVE dst[o] = Frame!Layout(Frame!hor_stride, o)
  <2>1. GoodSize
    BY <1>1 DEF Frame!Copied, PictureInv, NothingRead
  <2>2. PICK b \in Nat \ {0}, n \in Nat :
            /\ b = camera.bytesperline /\ n = camera.height + camera.height \div 2
            /\ Frame!FrameSize = n * b /\ Frame!hor_stride = b
    BY <1>0, <2>1, Sizes
  <2>3. Lines = n
    BY <1>1, <2>2 DEF Frame!Copied, Frame!Rows, Lines
  <2>4. o \in 0 .. Frame!FrameSize - 1
    BY <2>1 DEF PictureInv, EncInv
  <2>5. PICK size \in Nat : size = n * b
    OBVIOUS
  <2>6. o \in Nat /\ o < n * b
    BY <2>2, <2>4, <2>5
  <2>7. o \div b < n
    BY <2>6
  <2>8. dst[o] = Frame!Data(o)
    BY <2>1, <2>2, <2>3, <2>7 DEF PictureInv, EncInv
  <2> QED
    BY <2>2, <2>8 DEF Frame!Data
<1>2. ASSUME Frame!Drawn, camera.bytesperline = camera.width,
             NEW p \in Frame!OnScreen, p \in Frame!Pixels
      PROVE  Frame!Shows(p, Frame!Sampled(p))
  <2>1. p[2] \in 0 .. camera.height - 1
    BY <1>2 DEF Frame!Pixels
  <2>2. CASE GoodSize
    <3>1. Passed(p)
      BY <1>0, <1>2, <2>1, <2>2, Sizes DEF Passed, Frame!Drawn
    <3> QED
      BY <1>2, <2>2, <3>1 DEF PictureInv, LcdInv
  <2>3. CASE ~GoodSize
    BY <1>2, <2>1, <2>3 DEF PictureInv, NothingRead, Frame!Drawn
  <2> QED
    BY <2>2, <2>3
<1>3. ASSUME NEW p \in Frame!OnScreen, p \notin Frame!Pixels, Frame!FitsMode
      PROVE  Frame!Shows(p, Frame!NotDrawn)
  <2>1. CASE GoodSize
    BY <1>3, <2>1 DEF PictureInv, LcdInv
  <2>2. CASE ~GoodSize
    <3>1. dumbbuffer \in Screens /\ lcd_map = [o \in 0 .. Frame!MapSize - 1 |-> Frame!NotDrawn]
      BY <2>2 DEF PictureInv, NothingRead
    <3> QED
      BY <3>1, ByteInMapping DEF Frame!Shows
  <2> QED
    BY <2>1, <2>2
<1> QED
  BY <1>1, <1>2, <1>3 DEF PictureArrives, Frame!PictureArrives

\* Whatever the camera settles on and whatever the LCD, NV12_To_RGB and MPP_Encode read
\* inside the image, MPP_Encode writes inside the encoder's buffer, and NV12_To_RGB inside
\* the mapping as long as the picture is no larger than the LCD's mode: the formats that
\* would lead them out of it otherwise never get past MPP_Init.
THEOREM WorkersStayInBuffers == FirstFrameSpec => []StaysInBuffers
<1>1. PictureInv => StaysInBuffers
  BY DEF PictureInv, NothingRead, LcdInv, EncInv, ReadInv, StaysInBuffers,
         Frame!StaysInBuffers, Frame!InMapping
<1> QED
  BY <1>1, PictureInductive, PTL

\* For every size and stride MPP_Init accepts the encoder's buffer ends up with the
\* camera's picture, row by row and with nothing in its padding.  For every mode and pitch
\* of the LCD, without padding in the camera's rows and if nothing was written past the
\* mapping, the four bytes the LCD scans out for a pixel of the picture hold that pixel's
\* own samples, and around a picture that fits the background is untouched.
THEOREM WholePictureArrives == FirstFrameSpec => []PictureArrives
<1>1. StartInv /\ PictureInv => PictureArrives
  BY WholePicture
<1> QED
  BY <1>1, ImplementsStartup, StartInductive, PictureInductive, PTL
=============================================================================
