----------------------------- MODULE CopyPixels -----------------------------
(***************************************************************************)
(* brcmjpeg_copy_pixels (client/brcmjpeg/brcmjpeg.c), which moves a        *)
(* picture between the caller's buffer and the slices of the codec: into   *)
(* slices to encode, out of slices to decode.  The two may differ in       *)
(* stride, height and, for YV12 and YUYV, in layout.                       *)
(*                                                                         *)
(* A copy is the function from the addresses it writes to the addresses it *)
(* reads, both from the start of their buffer.  The reference is where a   *)
(* sample of a picture lies in each of the layouts.                        *)
(***************************************************************************)
EXTENDS Integers, Sequences, FiniteSets

CONSTANTS
  Widths, Heights,  \* of the picture and of the caller's buffer
  SliceHeight,      \* rows of a slice (16 in the code)
  ShortBy           \* by how many bytes the caller's buffer may be too small

Formats == {"I420", "YV12", "I422", "YV16", "YUYV", "RGBA"}

CopySizes ==
  /\ Widths \subseteq Nat \ {0} /\ Heights \subseteq Nat \ {0}
  /\ \A n \in Widths \cup Heights \cup {SliceHeight} : n % 2 = 0
  /\ SliceHeight > 0 /\ ShortBy \subseteq Nat

VARIABLES
  request,  \* what is copied: format, direction and sizes
  slice,    \* the next slice
  written,  \* all that was written to the caller's buffer, or to the slice
  returned  \* what the last call returned; -1: none

pxvars == <<request, slice, written, returned>>

Least(a, b) == IF a < b THEN a ELSE b

\* mmal_raw_conversion: the codec's layout for a format of the caller.
Encoding(fmt) ==
  CASE fmt \in {"I420", "YV12"} -> "I420"
    [] fmt \in {"I422", "YV16", "YUYV"} -> "I422"
    [] OTHER -> "RGBA"

\* Bytes of a picture.
SizeOf(fmt, w, h) == CASE Encoding(fmt) = "I420" -> (w * h * 3) \div 2
                       [] Encoding(fmt) = "I422" -> w * h * 2
                       [] OTHER -> w * h * 4

\* The planes of one side: where each begins, its pitch and its rows.  full is
\* the height before line_offset is taken off.
Plane(d, p, h) == [data |-> d, pitch |-> p, height |-> h]
Planes(fmt, w, h, full) ==
  CASE Encoding(fmt) = "I420" ->
         <<Plane(0, w, h), Plane(w * full, w \div 2, h \div 2),
           Plane(w * full + (w * full) \div 4, w \div 2, h \div 2)>>
    [] Encoding(fmt) = "I422" ->
         <<Plane(0, w, h), Plane(w * full, w \div 2, h),
           Plane(w * full + (w * full) \div 2, w \div 2, h)>>
    [] OTHER -> <<Plane(0, 4 * w, h)>>

Swapped(fmt, ps) == IF fmt \in {"YV12", "YV16"} THEN <<ps[1], ps[3], ps[2]>> ELSE ps

\* Mutant: the chroma planes of I420 move by as many lines as the luma plane.
OffsetWhole(fmt, ps, offset) ==
  [i \in 1 .. Len(ps) |->
     [ps[i] EXCEPT !.data = @ + ps[i].pitch * offset
                              * (IF fmt = "YUYV" /\ i = 1 THEN 2 ELSE 1)]]

\* The line offset, on the caller's side.
Offset(fmt, ps, offset) ==
  [i \in 1 .. Len(ps) |->
     [ps[i] EXCEPT !.data = @ +
        (IF Encoding(fmt) = "I420" /\ i > 1 THEN (ps[i].pitch * offset) \div 2
         ELSE ps[i].pitch * offset * (IF fmt = "YUYV" /\ i = 1 THEN 2 ELSE 1))]]

\* The rows of one plane, one memcpy each.
CopyPlane(to, from) ==
  LET w == Least(to.pitch, from.pitch)
      h == Least(to.height, from.height)
      cells == (0 .. h - 1) \X (0 .. w - 1)
  IN {<<to.data + c[1] * to.pitch + c[2], from.data + c[1] * from.pitch + c[2]>> :
        c \in cells}

\* YUYV against the planes of I422: the address in the packed picture and the
\* address in the planes, pair of pixels by pair of pixels.
CopyPacked(yuyv, planes, packedWidth, planarWidth, h) ==
  LET width == Least(packedWidth, planarWidth)
      pairs == (0 .. h - 1) \X (0 .. (width \div 2) - 1)
      yuyvDiff == (packedWidth - width) * 2
      yDiff == planarWidth - width
      At(r, n) == yuyv.data + r * (4 * (width \div 2) + yuyvDiff) + 4 * n
      Luma(r, n) == planes[1].data + r * (2 * (width \div 2) + yDiff) + 2 * n
      Chroma(i, r, n) == planes[i].data + r * (width \div 2 + yDiff \div 2) + n
  IN UNION {{<<At(c[1], c[2]), Luma(c[1], c[2])>>,
             <<At(c[1], c[2]) + 1, Chroma(2, c[1], c[2])>>,
             <<At(c[1], c[2]) + 2, Luma(c[1], c[2]) + 1>>,
             <<At(c[1], c[2]) + 3, Chroma(3, c[1], c[2])>>} : c \in pairs}

Turned(pairs) == {<<p[2], p[1]>> : p \in pairs}

\* brcmjpeg_copy_pixels: the size it returns, 0 for a refusal, and what it
\* writes: pairs of an address of out and one of in.
CopyPixelsOf(out_size, in_size, fmt, out_w, out_h, in_w, in_h, offset, convert_from) ==
  LET oh == IF convert_from THEN out_h ELSE out_h - offset
      ih == IF convert_from THEN in_h - offset ELSE in_h
      outPlanes == Planes(fmt, out_w, oh, out_h)
      inPlanes == Swapped(fmt, Planes(fmt, in_w, ih, in_h))
      to == IF convert_from THEN outPlanes ELSE Offset(fmt, outPlanes, offset)
      from == IF convert_from THEN Offset(fmt, inPlanes, offset) ELSE inPlanes
      size == SizeOf(fmt, out_w, out_h)
      h == Least(ih, oh)
  IN IF \/ offset >= (IF convert_from THEN in_h ELSE out_h)
        \/ in_size < SizeOf(fmt, in_w, ih) \/ out_size < size
     THEN [size |-> 0, pairs |-> {}]
     ELSE [size |-> size,
           pairs |->
             IF fmt = "YUYV"
             THEN IF convert_from THEN Turned(CopyPacked(from[1], to, in_w, out_w, h))
                  ELSE CopyPacked(to[1], from, out_w, in_w, h)
             ELSE UNION {CopyPlane(to[i], from[i]) : i \in 1 .. Len(to)}]

-----------------------------------------------------------------------------
(* Its use, slice after slice, by brcmjpeg_encode and brcmjpeg_decode      *)

\* A picture of width and height in a buffer of at least that size.
PxInit ==
  /\ request \in {r \in [fmt : Formats, encode : BOOLEAN, width : Widths,
                         height : Heights, buffer_width : Widths,
                         buffer_height : Heights, short : ShortBy] :
                    /\ r.buffer_width >= r.width
                    /\ r.buffer_height >= r.height}
  /\ slice = 0 /\ written = {} /\ returned = -1

BufferSize == SizeOf(request.fmt, request.buffer_width, request.buffer_height)
              - request.short
SliceSize == SizeOf(request.fmt, request.width, SliceHeight)

\* RGBA is not cut into slices: its one slice has the height of the picture.
RowsOfSlice == IF request.fmt = "RGBA" THEN request.height ELSE SliceHeight

\* A slice is filled from the caller's buffer and sent to the encoder.
EncodeSlice ==
  /\ request.encode /\ returned # 0 /\ slice * RowsOfSlice < request.height
  /\ LET c == CopyPixelsOf(SizeOf(request.fmt, request.width, RowsOfSlice),
                           BufferSize, request.fmt, request.width, RowsOfSlice,
                           request.buffer_width, request.buffer_height,
                           slice * RowsOfSlice, TRUE)
     IN written' = c.pairs /\ returned' = c.size
  /\ slice' = slice + 1
  /\ UNCHANGED request

\* A slice from the decoder goes to the caller's buffer.
DecodeSlice ==
  /\ ~request.encode /\ returned # 0 /\ slice * RowsOfSlice < request.height
  /\ LET c == CopyPixelsOf(BufferSize,
                           SizeOf(request.fmt, request.width, RowsOfSlice),
                           request.fmt, request.buffer_width,
                           request.buffer_height, request.width, RowsOfSlice,
                           slice * RowsOfSlice, FALSE)
     IN written' = c.pairs /\ returned' = c.size
  /\ slice' = slice + 1
  /\ UNCHANGED request

PxNext == EncodeSlice \/ DecodeSlice
PxSpec == PxInit /\ [][PxNext]_pxvars

-----------------------------------------------------------------------------
(* Properties                                                              *)

\* Where sample (component c, column x, row y) of a picture in a buffer of w by
\* h pixels lies, in the format of the caller; c counts Y, U, V or R, G, B, A.
Sample(fmt, w, h, c, x, y) ==
  CASE fmt = "RGBA" -> 4 * (y * w + x) + c - 1
    [] fmt = "YUYV" -> IF c = 1 THEN 2 * (y * w + x)
                       ELSE 2 * y * w + 4 * x + (IF c = 2 THEN 1 ELSE 3)
    [] c = 1 -> y * w + x
    [] OTHER -> LET rows == IF Encoding(fmt) = "I420" THEN h \div 2 ELSE h
                    second == IF fmt \in {"YV12", "YV16"} THEN 3 ELSE 2
                IN w * h + (IF c = second THEN 0 ELSE (w \div 2) * rows)
                   + y * (w \div 2) + x

\* The samples of rows first to last of the picture.
Samples(fmt, w, first, last) ==
  IF fmt = "RGBA" THEN (1 .. 4) \X (0 .. w - 1) \X (first .. last)
  ELSE LET down == IF Encoding(fmt) = "I420" THEN 2 ELSE 1
       IN ({1} \X (0 .. w - 1) \X (first .. last))
          \cup ({2, 3} \X (0 .. (w \div 2) - 1)
                \X (first \div down .. ((last + 1) \div down) - 1))

\* Every sample of the picture is moved between its place in the caller's
\* buffer and its place in the slice.
PixelsArrive ==
  (slice > 0 /\ returned > 0) =>
    LET first == (slice - 1) * RowsOfSlice
        last == Least(first + RowsOfSlice, request.height) - 1
        Down(c) == IF c > 1 /\ Encoding(request.fmt) = "I420" THEN 2 ELSE 1
    IN \A s \in Samples(request.fmt, request.width, first, last) :
         LET mine == Sample(request.fmt, request.buffer_width,
                            request.buffer_height, s[1], s[2], s[3])
             its == Sample(Encoding(request.fmt), request.width, RowsOfSlice,
                           s[1], s[2], s[3] - first \div Down(s[1]))
         IN (IF request.encode THEN <<its, mine>> ELSE <<mine, its>>) \in written

\* Nothing is read or written outside the two buffers; a buffer of the caller
\* that is too small is refused before anything is copied.
PixelsInside ==
  LET its == SizeOf(request.fmt, request.width, RowsOfSlice)
  IN \A p \in written :
       /\ p[1] \in 0 .. (IF request.encode THEN its ELSE BufferSize) - 1
       /\ p[2] \in 0 .. (IF request.encode THEN BufferSize ELSE its) - 1
=============================================================================
