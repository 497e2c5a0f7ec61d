----------------------------- MODULE FrameCopy ------------------------------
(***************************************************************************)
(* The bytes of a frame: how the camera lays a frame out in blocks, how    *)
(* video_buffer_callback copies it into _buffData, how many bytes retrieve *)
(* copies out of it, and how much room the application (through            *)
(* RaspiCam_Cv: the matrix it creates) has for them.                       *)
(*                                                                         *)
(* A memory area is a function from offsets to bytes; a byte is named by   *)
(* the plane, row and column it shows (for RGB and BGR, three columns per  *)
(* pixel).  The alignments, 32 and 16 in the code, are parameters.         *)
(***************************************************************************)
EXTENDS Integers

CONSTANTS
  Widths, Heights,   \* sizes the application asks for
  AlignW, AlignH,    \* blocks of the camera's frames
  Formats,           \* formats the application asks for
  UseCv,             \* may the application use RaspiCam_Cv, or RaspiCam?
  LateSize,          \* may the size be set while the camera is open?
  LateFormat,        \* may CAP_PROP_FORMAT be set while it is open?
  StaleRetrieve,     \* may retrieve follow a change of size without a grab?
  Outside,           \* what is read outside a memory area
  Unwritten          \* what an area holds where nothing was written

AllFormats == {"YUV420", "GRAY", "BGR", "RGB"}

FrameSizes ==
  /\ Widths \subseteq Nat \ {0} /\ Heights \subseteq Nat \ {0}
  /\ Widths # {} /\ Heights # {}
  /\ AlignW \in {2 * n : n \in 1 .. 16} /\ AlignH \in {2 * n : n \in 1 .. 8}
\* The marks are no bytes of a frame.
FrameMarks == Outside \notin {Unwritten} \cup ((0 .. 2) \X Nat \X Nat)
FrameFormats == Formats \subseteq AllFormats /\ Formats # {}
FrameUsage ==
  /\ UseCv \subseteq BOOLEAN /\ UseCv # {}
  /\ {LateSize, LateFormat, StaleRetrieve} \subseteq BOOLEAN

VARIABLES
  cv,          \* the application uses RaspiCam_Cv
  isOpened,
  width, height, captureFtm,  \* State, as set
  channels,    \* channels of RaspiCam_Cv's imgFormat
  camera,      \* the format committed when the camera was opened
  buffData,    \* callback_data._buffData
  fresh,       \* history: it was stored since the size or format was set
  copied,      \* history: what retrieve has just copied
  room         \* history: and the room the caller had for it

vars == <<cv, isOpened, width, height, captureFtm, channels, camera,
          buffData, fresh, copied, room>>

Empty == <<>>

-----------------------------------------------------------------------------
(* Layout                                                                  *)

\* VCOS_ALIGN_UP.
AlignUp(n, align) == ((n + align - 1) \div align) * align

Bpp(fmt) == IF fmt \in {"RGB", "BGR"} THEN 3 ELSE 1

\* getImageTypeSize.
ImageTypeSize(fmt, w, h) ==
  CASE fmt = "YUV420" -> w * h + 2 * (((w \div 2) * h) \div 2)
    [] fmt = "GRAY" -> w * h
    [] fmt \in {"RGB", "BGR"} -> 3 * w * h

\* The one plane of the other formats.
Plane(rows, cols) ==
  [k \in 0 .. rows * cols - 1 |-> <<0, k \div cols, k % cols>>]

\* An I420 area: the plane of h x w bytes, and after it two of half the sizes.
I420(h, w) ==
  LET n == h * w
      cw == w \div 2
      c == (h \div 2) * cw
  IN  [k \in 0 .. n + 2 * c - 1 |->
         IF k < n THEN <<0, k \div w, k % w>>
         ELSE <<1 + (k - n) \div c, ((k - n) % c) \div cw, ((k - n) % c) % cw>>]

\* What the camera fills a header with: convertFormat has it send I420, three
\* planes, for GRAY as for YUV420, with both sizes rounded up to blocks.
Frame(fmt, w, h) ==
  LET bw == AlignUp(w, AlignW)
      bh == AlignUp(h, AlignH)
  IN  IF fmt \in {"RGB", "BGR"} THEN Plane(bh, 3 * bw)
      ELSE I420(bh, bw)

Read(area, k) == IF k \in DOMAIN area THEN area[k] ELSE Outside

\* Mutant: the rows of the frame are taken to be as long as the image's.
StoredNoStride(data, fmt, w, h) ==
  LET n == h * w * Bpp(fmt) IN
  IF AlignUp(w, AlignW) = w THEN data
  ELSE [k \in 0 .. ImageTypeSize(fmt, w, h) - 1 |->
          IF k < n THEN Read(data, k) ELSE Unwritten]

\* The copy into _buffData.  An aligned width has the whole buffer copied;
\* otherwise _buffData has the size of the image and is filled row by row,
\* for YUV420 the two planes of half size after the first.
Stored(data, fmt, w, h) ==
  LET bw == AlignUp(w, AlignW)
      bh == AlignUp(h, AlignH)
      row == w * Bpp(fmt)
      cw == w \div 2
      c == (h \div 2) * cw
  IN  IF bw = w THEN data
      ELSE [k \in 0 .. ImageTypeSize(fmt, w, h) - 1 |->
              IF k < h * row
              THEN Read(data, (k \div row) * (bw * Bpp(fmt)) + (k % row))
              ELSE IF k < h * row + 2 * c
              THEN LET plane == (k - h * row) \div c
                       j == (k - h * row) % c
                   IN  Read(data, bh * bw + plane * ((bh \div 2) * (bw \div 2))
                                  + ((j \div cw) * (bw \div 2) + (j % cw)))
              ELSE Unwritten]

-----------------------------------------------------------------------------
(* Operations                                                              *)

Init ==
  /\ isOpened = FALSE
  /\ width \in Widths /\ height \in Heights
  /\ cv \in UseCv
  /\ captureFtm \in IF cv THEN {"RGB"} ELSE Formats
  /\ channels = 3
  /\ camera = [fmt |-> captureFtm, w |-> width, h |-> height]
  /\ buffData = Empty /\ fresh = FALSE
  /\ copied = Empty /\ room = 0

\* The operations other than retrieve end what the histories are about.
Forget == copied' = Empty /\ room' = 0

\* setWidth and setHeight do not look whether the camera is open.
SetWidth(w) ==
  /\ LateSize \/ ~isOpened
  /\ width' = w
  /\ fresh' = (fresh /\ w = width)
  /\ Forget
  /\ UNCHANGED <<cv, isOpened, height, captureFtm, channels, camera, buffData>>

SetHeight(h) ==
  /\ LateSize \/ ~isOpened
  /\ height' = h
  /\ fresh' = (fresh /\ h = height)
  /\ Forget
  /\ UNCHANGED <<cv, isOpened, width, captureFtm, channels, camera, buffData>>

\* setFormat refuses when the camera is open.
SetFormat(f) ==
  /\ ~cv /\ ~isOpened
  /\ captureFtm' = f
  /\ fresh' = (fresh /\ f = captureFtm)
  /\ Forget
  /\ UNCHANGED <<cv, isOpened, width, height, channels, camera, buffData>>

\* Mutant: the matrix has one channel for either format.
CvSetFormatOneChannel(f) ==
  /\ cv /\ f \in {"GRAY", "RGB"} /\ (LateFormat \/ ~isOpened)
  /\ captureFtm' = IF isOpened THEN captureFtm ELSE f
  /\ channels' = 1
  /\ fresh' = (fresh /\ captureFtm' = captureFtm)
  /\ Forget
  /\ UNCHANGED <<cv, isOpened, width, height, camera, buffData>>

\* RaspiCam_Cv::set(CAP_PROP_FORMAT): CV_8UC1 for GRAY or CV_8UC3 for RGB;
\* imgFormat changes whether or not setFormat refused.
CvSetFormat(f) ==
  /\ cv /\ f \in {"GRAY", "RGB"} /\ (LateFormat \/ ~isOpened)
  /\ captureFtm' = IF isOpened THEN captureFtm ELSE f
  /\ channels' = Bpp(f)
  /\ fresh' = (fresh /\ captureFtm' = captureFtm)
  /\ Forget
  /\ UNCHANGED <<cv, isOpened, width, height, camera, buffData>>

\* RaspiCam_Cv::set(CAP_PROP_CONVERT_RGB).
CvConvertRGB ==
  /\ cv
  /\ channels' = 3
  /\ Forget
  /\ UNCHANGED <<cv, isOpened, width, height, captureFtm, camera, buffData,
                 fresh>>

\* create_camera_component commits the format.
Open ==
  /\ ~isOpened
  /\ isOpened' = TRUE
  /\ camera' = [fmt |-> captureFtm, w |-> width, h |-> height]
  /\ Forget
  /\ UNCHANGED <<cv, width, height, captureFtm, channels, buffData, fresh>>

\* video_buffer_callback stores a frame that somebody asked for, with the
\* size and format that State has now.
StoreFrame ==
  /\ isOpened
  /\ buffData' = Stored(Frame(camera.fmt, camera.w, camera.h), captureFtm,
                        width, height)
  /\ fresh' = TRUE
  /\ Forget
  /\ UNCHANGED <<cv, isOpened, width, height, captureFtm, channels, camera>>

\* Mutant: the size of the biggest format is copied.
RetrieveBiggest ==
  /\ buffData # Empty /\ (StaleRetrieve \/ fresh)
  /\ copied' = [k \in 0 .. ImageTypeSize("RGB", width, height) - 1 |->
                  Read(buffData, k)]
  /\ room' = IF cv THEN height * width * channels
             ELSE ImageTypeSize(captureFtm, width, height)
  /\ UNCHANGED <<cv, isOpened, width, height, captureFtm, channels, camera,
                 buffData, fresh>>

\* retrieve copies as many bytes as the current size and format need; the
\* caller's area was sized with getImageTypeSize, or is a new matrix.
Retrieve ==
  /\ buffData # Empty /\ (StaleRetrieve \/ fresh)
  /\ copied' = [k \in 0 .. ImageTypeSize(captureFtm, width, height) - 1 |->
                  Read(buffData, k)]
  /\ room' = IF cv THEN height * width * channels
             ELSE ImageTypeSize(captureFtm, width, height)
  /\ UNCHANGED <<cv, isOpened, width, height, captureFtm, channels, camera,
                 buffData, fresh>>

Release ==
  /\ isOpened
  /\ isOpened' = FALSE
  /\ Forget
  /\ UNCHANGED <<cv, width, height, captureFtm, channels, camera, buffData,
                 fresh>>

Next ==
  \/ \E w \in Widths : SetWidth(w)
  \/ \E h \in Heights : SetHeight(h)
  \/ \E f \in Formats : SetFormat(f) \/ CvSetFormat(f)
  \/ CvConvertRGB \/ Open \/ StoreFrame \/ Retrieve \/ Release

Spec == Init /\ [][Next]_vars

-----------------------------------------------------------------------------
(* Properties                                                              *)

\* The image, byte for byte: the frame without its padding.
Image(fmt, w, h) ==
  IF fmt = "YUV420" THEN I420(h, w) ELSE Plane(h, w * Bpp(fmt))

Shows(area, fmt, w, h) ==
  LET img == Image(fmt, w, h) IN
  \A k \in DOMAIN img : Read(area, k) = img[k]

\* What retrieve would copy is exactly the image, without the padding of the
\* camera's blocks.
ImageIsCropped ==
  fresh => Shows(buffData, captureFtm, width, height)

\* The one combination left out: a YUV420 image whose width needs no padding
\* and whose height does (the whole buffer is copied, padding included).
PaddedPlanes == /\ captureFtm = "YUV420" /\ width % AlignW = 0
                /\ height % AlignH # 0

\* Every other image is stored without padding, planes in their places.
ImageIsRight ==
  fresh /\ ~PaddedPlanes => Shows(buffData, captureFtm, width, height)

\* retrieve reads no byte outside _buffData, and the callback that filled it
\* read none outside the camera's buffer.
ReadsInside == \A k \in DOMAIN copied : copied[k] # Outside

\* retrieve writes no byte outside the caller's memory.
FitsRoom == DOMAIN copied \subseteq 0 .. room - 1

=============================================================================
