--------------------------- MODULE OmxParameters ---------------------------
(***************************************************************************)
(* The parameters of an OpenMAX IL port over an MMAL port: its definition  *)
(* read from and written to port->format, the port format, audio and video *)
(* codec parameters and roles, the format events of the component, the     *)
(* translation of the other parameters (mmalomx_core.c, mmalomx_buffer.c,  *)
(* mmalomx_roles.c, mmalomx_parameters.c, mmal_il.c).                      *)
(*                                                                         *)
(* The tables have a row of each shape: one to one, two encodings of one   *)
(* code, two codes of one encoding, none.                                  *)
(***************************************************************************)
EXTENDS Naturals, Sequences

CONSTANTS
  Sides,        \* widths and heights asked for or announced
  MaxCalls,     \* bound: calls of the client
  MaxRefusals,  \* bound: commits the component refuses
  MaxEvents,    \* bound: format events
  KeepsStride   \* does a client that changes the width leave the stride?

VARIABLES
  kind,         \* "video" or "audio"
  format,       \* port->mmal->format
  committed,    \* the format the component works with
  refused,      \* did the component refuse the last commit?
  num, size, sizeMin, \* buffer_num, buffer_size, buffer_size_min
  enabled, no_cropping, format_changed,
  encodings,    \* the port's cached list, << >> when there is none yet
  told,         \* what the client saw last, or was told to look at
  video,        \* intra period and profile at the component
  stored, param, answer, \* translated parameters at the component, the client's
                         \* structure, and what the last get put in it
  calls, refusals, events

dataVars == <<num, size, sizeMin>>
xlatVars == <<stored, param, answer>>
opvars == <<kind, format, committed, refused, dataVars, enabled, no_cropping,
            format_changed, encodings, told, video, xlatVars, calls, refusals, events>>

Larger(a, b) == IF a > b THEN a ELSE b

-----------------------------------------------------------------------------
(* Tables, each searched from its start                                    *)

Unused == "Unused"
Unknown == "UNKNOWN"
VideoTable == << <<"H264", "AVC">>, <<"MP2V", "MPEG2">>, <<"MP1V", "MPEG2">>,
                 <<Unknown, Unused>> >>
ColourTablePlanarFirst ==
  << <<"I420", "420Planar">>, <<"I420", "420PackedPlanar">>,
     <<"I420_SLICE", "420PackedPlanar">>, <<"RGB16", "RGB565">>, <<Unknown, Unused>> >>
ColourTable == << <<"I420", "420PackedPlanar">>, <<"I420_SLICE", "420PackedPlanar">>,
                  <<"I420", "420Planar">>, <<"RGB16", "RGB565">>, <<Unknown, Unused>> >>
AudioTable == << <<"MP4A", "AAC">>, <<"ALAW", "PCM">>, <<"PCM_SIGNED_LE", "PCM">>,
                 <<"PCM_UNSIGNED_BE", "PCM">>, <<"AC3", "DDP">>, <<"EAC3", "DDP">>,
                 <<Unknown, Unused>> >>

\* The first row with x in one column, the last row when none has.
Row(table, column, x) ==
  LET found == SelectSeq(table, LAMBDA row : row[column] = x)
  IN  IF found = << >> THEN table[Len(table)] ELSE found[1]

VideoCode(e) ==
  LET c == Row(VideoTable, 1, e)[2]
  IN  [compression |-> c,
       colour |-> IF c = Unused THEN Row(ColourTable, 1, e)[2] ELSE Unused]
AudioCode(e) == Row(AudioTable, 1, e)[2]
Code(e) == IF kind = "audio" THEN AudioCode(e) ELSE VideoCode(e)
EncodingOf(c) ==
  IF kind = "audio" THEN Row(AudioTable, 2, c)[1]
  ELSE IF c.compression # Unused THEN Row(VideoTable, 2, c.compression)[1]
  ELSE Row(ColourTable, 2, c.colour)[1]

\* Bytes per pixel of a row; 0: the encoding has no stride.
Pitch(e) == CASE e = "I420" -> 1 [] e = "RGB16" -> 2 [] OTHER -> 0
Stride(e, w) == Pitch(e) * w
WidthOf(e, stride) == IF Pitch(e) = 0 THEN 0 ELSE stride \div Pitch(e)

-----------------------------------------------------------------------------
(* What the client sees                                                    *)

One == 8    \* 1 << 16
FrameSize(w, h, cw, ch) ==
  [width |-> IF no_cropping \/ cw = 0 THEN w ELSE cw,
   height |-> IF no_cropping \/ ch = 0 THEN h ELSE ch]

Definition(f) ==
  LET shown == FrameSize(f.w, f.h, f.cw, f.ch) IN
  [code |-> Code(f.encoding), width |-> shown.width, height |-> shown.height,
   stride |-> Stride(f.encoding, f.w), slice |-> f.h,
   rate |-> IF f.rate[2] = 0 THEN 0 ELSE (f.rate[1] * One) \div f.rate[2],
   count |-> num, size |-> Larger(size, sizeMin)]

\* The parameter of the port's audio coding; absent fields are zeroed.
AudioParam(f) ==
  LET linear == f.encoding \in {"PCM_SIGNED_LE", "PCM_UNSIGNED_BE"}
  IN  [coding |-> AudioCode(f.encoding), channels |-> f.channels,
       bits |-> IF AudioCode(f.encoding) = "PCM" THEN f.bits ELSE 0,
       mode |-> IF linear THEN "linear" ELSE IF f.encoding = "ALAW" THEN "alaw" ELSE "none",
       big |-> f.encoding = "PCM_UNSIGNED_BE", signed |-> f.encoding = "PCM_SIGNED_LE",
       stream |-> IF f.encoding # "MP4A" THEN "none"
                  ELSE IF f.variant = "ADTS" THEN "MP4ADTS" ELSE "RAW",
       eac3 |-> f.encoding = "EAC3"]

AudioFormat(f, p) ==
  LET first == Row(AudioTable, 2, p.coding)[1]
  IN  [f EXCEPT !.channels = p.channels,
                !.bits = IF p.coding = "PCM" THEN p.bits ELSE @,
                !.variant = IF p.stream = "MP4ADTS" THEN "ADTS" ELSE "none",
                !.encoding = IF p.coding = "PCM" /\ p.mode = "linear"
                             THEN (IF p.signed THEN "PCM_SIGNED_LE" ELSE "PCM_UNSIGNED_BE")
                             ELSE IF p.coding = "DDP" /\ p.eac3 THEN "EAC3" ELSE first]

\* What a format event makes the client look at again.
Look(f) ==
  IF kind = "audio"
  THEN <<f.encoding, f.channels, f.bits>>
  ELSE LET d == Definition(f) IN <<d.code, d.width, d.height, d.stride, d.slice>>

-----------------------------------------------------------------------------
(* Buffer headers; flags are sets of names, one name for a bit of each kind *)

TimeUnknown == 99
FlagTable == << <<"KEYFRAME", "SYNCFRAME">>, <<"FRAME_END", "ENDOFFRAME">>, <<"EOS", "EOS">>,
                <<"CONFIG", "CODECCONFIG">>, <<"USER0", "bit 28">> >>
FlagsTo(from, to, flags) ==
  {FlagTable[i][to] : i \in {j \in DOMAIN FlagTable : FlagTable[j][from] \in flags}}

HeaderToOmx(h) ==
  [filled |-> h.length, offset |-> h.offset,
   time |-> IF h.pts = TimeUnknown THEN 0 ELSE h.pts,
   flags |-> FlagsTo(1, 2, h.flags)
             \cup (IF h.pts = TimeUnknown THEN {"TIME_UNKNOWN"} ELSE {})]

HeaderToMmalByTime(o) ==
  [length |-> o.filled, offset |-> o.offset, flags |-> FlagsTo(2, 1, o.flags),
   pts |-> IF o.time = 0 THEN TimeUnknown ELSE o.time]

HeaderToMmal(o) ==
  [length |-> o.filled, offset |-> o.offset, flags |-> FlagsTo(2, 1, o.flags),
   pts |-> IF "TIME_UNKNOWN" \in o.flags THEN TimeUnknown ELSE o.time]

-----------------------------------------------------------------------------
(* The component                                                           *)

\* The size of the buffers it needs for a format.
SizeFor(f) == IF Pitch(f.encoding) = 0 THEN 2 ELSE Pitch(f.encoding) * f.w * f.h

Accept(f) == /\ committed' = f /\ refused' = FALSE /\ sizeMin' = SizeFor(f)
             /\ UNCHANGED refusals
Refuse == /\ refusals < MaxRefusals /\ refusals' = refusals + 1 /\ refused' = TRUE
          /\ UNCHANGED <<committed, sizeMin>>

\* The format is written, whatever the component answers.
Commit(f) == format' = f /\ (Accept(f) \/ Refuse)

Plain == [encoding |-> "I420", variant |-> "none", w |-> 1, h |-> 1, cw |-> 1, ch |-> 1,
          rate |-> <<1, 3>>, colour |-> "c1", channels |-> 1, bits |-> 16]

OPInit ==
  /\ kind \in {"video", "audio"}
  /\ format = [Plain EXCEPT !.encoding = IF kind = "audio" THEN "PCM_SIGNED_LE" ELSE "I420"]
  /\ committed = format /\ refused = FALSE
  /\ num = 1 /\ size = 1 /\ sizeMin = 1
  /\ enabled = FALSE /\ no_cropping = FALSE /\ format_changed = FALSE
  /\ encodings = << >>
  /\ told = Look(format)
  /\ video = [intra |-> 0, profile |-> "p0"]
  /\ stored = [direct |-> 1, enum |-> 1, custom |-> 1]
  /\ param = [size |-> 12, port |-> 1] /\ answer = [of |-> "none", value |-> 0]
  /\ calls = 0 /\ refusals = 0 /\ events = 0

Called == calls < MaxCalls /\ calls' = calls + 1
KeepXlat == UNCHANGED xlatVars

-----------------------------------------------------------------------------
(* The port's definition and format                                        *)

Codes == {Code(e) : e \in IF kind = "audio" THEN {"MP4A", "AC3"} ELSE {"H264", "I420", "RGB16"}}

\* What a client may ask: what it read, or that with one thing changed.
Asked ==
  LET d == Definition(format) IN
  {d} \cup {[d EXCEPT !.count = 2]} \cup {[d EXCEPT !.code = c] : c \in Codes}
      \cup {[d EXCEPT !.width = w, !.stride = IF KeepsStride THEN @ ELSE Stride(format.encoding, w)] :
              w \in IF kind = "video" THEN Sides ELSE {}}

WrittenUncropped(d) ==
  LET e == EncodingOf(d.code)
      w == WidthOf(e, d.stride)
      f == [format EXCEPT !.variant = "none", !.encoding = e]
  IN  IF kind = "audio" THEN f
      ELSE [f EXCEPT !.w = IF w # 0 THEN w ELSE d.width,
                     !.cw = IF no_cropping THEN @ ELSE IF w # 0 THEN w ELSE d.width,
                     !.h = Larger(d.slice, d.height),
                     !.ch = IF no_cropping THEN @ ELSE Larger(d.slice, d.height),
                     !.rate = <<d.rate, One>>]

Written(d) ==
  LET e == EncodingOf(d.code)
      w == WidthOf(e, d.stride)
      f == [format EXCEPT !.variant = "none", !.encoding = e]
  IN  IF kind = "audio" THEN f
      ELSE [f EXCEPT !.w = IF w # 0 THEN w ELSE d.width,
                     !.cw = IF no_cropping THEN @ ELSE d.width,
                     !.h = Larger(d.slice, d.height),
                     !.ch = IF no_cropping THEN @ ELSE d.height,
                     !.rate = <<d.rate, One>>]

SetDefinition(d) ==
  /\ Called
  /\ num' = d.count
  /\ Commit(Written(d))
  /\ IF refused'
     THEN size' = Larger(d.size, sizeMin) /\ UNCHANGED format_changed
     ELSE /\ format_changed' = FALSE
          /\ size' = IF sizeMin' # sizeMin THEN sizeMin' ELSE Larger(d.size, sizeMin)
  /\ told' = Look(format')
  /\ KeepXlat
  /\ UNCHANGED <<kind, enabled, no_cropping, encodings, video, events>>

\* OMX_IndexParamVideoPortFormat, ...AudioPortFormat: a refusal is only logged.
SetPortFormat(c) ==
  /\ Called
  /\ Commit([format EXCEPT !.encoding = EncodingOf(c), !.variant = "none"])
  /\ told' = Look(format')
  /\ KeepXlat
  /\ UNCHANGED <<kind, num, size, enabled, no_cropping, format_changed, encodings, video, events>>

\* Getting a port format by its index fills the list the first time; without
\* an answer of the component it has the current encoding, from then on.
ListEncodings ==
  /\ encodings = << >> /\ Called
  /\ \/ encodings' = IF kind = "audio" THEN <<"EAC3", "ALAW">>
                     ELSE <<"MP1V", "I420_SLICE", "NOCODE">>
     \/ encodings' = <<format.encoding>>
  /\ KeepXlat
  /\ UNCHANGED <<kind, format, committed, refused, dataVars, enabled, no_cropping,
                 format_changed, told, video, refusals, events>>

SetListed(i) == SetPortFormat(Code(encodings[i]))

SetRole ==
  /\ Called
  /\ Commit(IF kind = "audio" THEN [format EXCEPT !.encoding = "MP4A"]
            ELSE [format EXCEPT !.encoding = "H264", !.w = 2, !.h = 2, !.rate = <<2, 1>>])
  /\ told' = Look(format')
  /\ KeepXlat
  /\ UNCHANGED <<kind, num, size, enabled, no_cropping, format_changed, encodings, video, events>>

SetAudioParam(p) ==
  /\ kind = "audio" /\ Called
  /\ Commit(AudioFormat(format, p))
  /\ told' = Look(format')
  /\ KeepXlat
  /\ UNCHANGED <<kind, num, size, enabled, no_cropping, format_changed, encodings, video, events>>

\* OMX_IndexParamColorSpace; the pixel aspect ratio goes the same way.
SetColour(c) ==
  /\ kind = "video" /\ Called
  /\ Commit([format EXCEPT !.colour = c])
  /\ KeepXlat
  /\ UNCHANGED <<kind, num, size, enabled, no_cropping, format_changed, encodings, told, video, events>>

SetNoCropping ==
  /\ kind = "video" /\ Called
  /\ no_cropping' = ~no_cropping
  /\ KeepXlat
  /\ UNCHANGED <<kind, format, committed, refused, dataVars, enabled, format_changed,
                 encodings, video, refusals, events>>
  /\ told' = Look(format)'

\* Frames between two intra frames; the intra period is set before the profile.
Word == 4   \* 2^32
Frames == (video.intra + Word - 1) % Word
SetVideoParam(frames, p) ==
  /\ kind = "video" /\ Called
  /\ \/ video' = [intra |-> (frames + 1) % Word, profile |-> p]
     \/ video' = [video EXCEPT !.intra = (frames + 1) % Word]  \* the profile is refused
     \/ UNCHANGED video
  /\ KeepXlat
  /\ UNCHANGED <<kind, format, committed, refused, dataVars, enabled, no_cropping,
                 format_changed, encodings, told, refusals, events>>

-----------------------------------------------------------------------------
(* The component's events and the port's state                             *)

Announced ==
  IF kind = "audio"
  THEN {[format EXCEPT !.channels = 2], [format EXCEPT !.encoding = "EAC3"]}
  ELSE {[format EXCEPT !.w = w, !.h = w, !.cw = c, !.ch = c] : w \in Sides, c \in {0, 1}}
       \cup {[format EXCEPT !.rate = <<2, 1>>], [format EXCEPT !.encoding = "I420_SLICE"]}

\* mmal_format_compare, and which differences the client is told of.
Differs(f, g) ==
  IF kind = "audio" THEN <<f.encoding, f.channels, f.bits>> # <<g.encoding, g.channels, g.bits>>
  ELSE <<f.encoding, f.w, f.h, f.cw, f.ch>> # <<g.encoding, g.w, g.h, g.cw, g.ch>>

EventFormatUncounted(f) ==
  /\ enabled /\ events < MaxEvents /\ events' = events + 1
  /\ format' = f
  /\ sizeMin' = SizeFor(f)
  /\ told' = IF Differs(f, format) THEN Look(f) ELSE told
  /\ KeepXlat
  /\ UNCHANGED <<kind, committed, refused, num, size, enabled, no_cropping, encodings, video,
                 format_changed, calls, refusals>>

EventFormat(f) ==
  /\ enabled /\ events < MaxEvents /\ events' = events + 1
  /\ format' = f
  /\ sizeMin' = SizeFor(f)
  /\ format_changed' = TRUE
  /\ told' = IF Differs(f, format) THEN Look(f) ELSE told
  /\ KeepXlat
  /\ UNCHANGED <<kind, committed, refused, num, size, enabled, no_cropping, encodings, video,
                 calls, refusals>>

Enable ==
  /\ ~enabled /\ enabled' = TRUE
  /\ KeepXlat
  /\ UNCHANGED <<kind, format, committed, refused, dataVars, no_cropping, format_changed,
                 encodings, told, video, calls, refusals, events>>

\* A format event the client did not answer is committed when the port goes.
Disable ==
  /\ enabled /\ enabled' = FALSE
  /\ format_changed' = FALSE
  /\ IF format_changed THEN Commit(format)
     ELSE UNCHANGED <<format, committed, refused, sizeMin, refusals>>
  /\ KeepXlat
  /\ UNCHANGED <<kind, num, size, no_cropping, encodings, told, video, calls, events>>

-----------------------------------------------------------------------------
(* The translated parameters.  A structure of the client's starts with     *)
(* nSize, nVersion, nPortIndex; a direct parameter is handed over from its *)
(* second word on, with its id and size over nVersion and nPortIndex.      *)

Header == 12   \* sizeof(MMALOMX_PARAM_OMX_HEADER_T)
Fits(of) == param.size >= Header

\* Only the first row of an enumeration's table is ever compared.  A custom
\* parameter cannot be set, and a get reads a structure nobody filled.
Enum == << <<1, 1>>, <<2, 2>> >>
EnumKnown(column, x) == Enum[1][column] = x

XlatSet(of, v) ==
  /\ kind = "video" /\ Called /\ Fits(of)
  /\ IF of = "custom" \/ (of = "enum" /\ ~EnumKnown(2, v)) THEN UNCHANGED stored
     ELSE stored' = [stored EXCEPT ![of] = v]
  /\ answer' = [of |-> "none", value |-> 0]
  /\ UNCHANGED <<kind, format, committed, refused, dataVars, enabled, no_cropping,
                 format_changed, encodings, told, video, param, refusals, events>>

\* After a direct get nSize is computed from the header that was put back.
XlatGet(of) ==
  /\ kind = "video" /\ Called /\ Fits(of)
  /\ ~(of = "enum" /\ ~EnumKnown(1, stored[of]))
  /\ \E v \in IF of = "custom" THEN {1, 2} ELSE {stored[of]} : answer' = [of |-> of, value |-> v]
  /\ param' = IF of = "direct" THEN [param EXCEPT !.size = param.port + 4] ELSE param
  /\ UNCHANGED <<kind, format, committed, refused, dataVars, enabled, no_cropping,
                 format_changed, encodings, told, video, stored, refusals, events>>

\* The client prepares its structure anew.
Prepare ==
  /\ param.size # Header /\ param' = [param EXCEPT !.size = Header]
  /\ UNCHANGED <<kind, format, committed, refused, dataVars, enabled, no_cropping, format_changed,
                 encodings, told, video, stored, answer, calls, refusals, events>>

-----------------------------------------------------------------------------
OPNext ==
  \/ \E d \in Asked : SetDefinition(d)
  \/ \E c \in Codes : SetPortFormat(c)
  \/ ListEncodings \/ \E i \in 1..Len(encodings) : SetListed(i)
  \/ SetRole \/ SetNoCropping
  \/ SetAudioParam(AudioParam(format))
  \/ SetAudioParam([AudioParam(format) EXCEPT !.channels = 2, !.stream = "MP4ADTS", !.eac3 = TRUE])
  \/ \E c \in {"c1", "c2"} : SetColour(c)
  \/ SetVideoParam(Frames, video.profile) \/ SetVideoParam(2, "p1")
  \/ \E f \in Announced : EventFormat(f)
  \/ Enable \/ Disable
  \/ \E of \in DOMAIN stored, v \in {1, 2} : XlatSet(of, v)
  \/ \E of \in DOMAIN stored : XlatGet(of)
  \/ Prepare

OPSpec == OPInit /\ [][OPNext]_opvars

-----------------------------------------------------------------------------
(* Properties                                                              *)

\* What a client reads is what the component works with, unless the
\* component refused it or announced it itself and the port was not yet
\* disabled since (mmalomx_buffer_event, mmalomx_commands_check_port_actions).
ReportedIsUsed == format = committed \/ format_changed \/ refused

\* Writing back the definition or the audio parameter just read changes
\* nothing the client sees but the sizes of buffers, whatever the cropping and
\* rate, for an encoding its code leads back to; an I420_SLICE becomes I420,
\* which has a stride (mmalomx_get_port_settings, mmalomx_set_port_settings,
\* mmalil_format_to_omx_audio_param, mmalil_omx_audio_param_to_format).
SeenBut(d) == [d EXCEPT !.size = 0]
WritesBack ==
  [][/\ SetDefinition(Definition(format)) /\ kind = "video"
           /\ EncodingOf(Code(format.encoding)) = format.encoding =>
          SeenBut(Definition(format)') = SeenBut(Definition(format))
     /\ SetAudioParam(AudioParam(format)) => AudioParam(format)' = AudioParam(format)]_opvars

\* A code the port lists can be chosen: it is the one read afterwards, unless
\* it stands for no code at all (mmalomx_ComponentGetParameter).
ListedIsChosen ==
  [][\A i \in 1..Len(encodings) : SetListed(i) => Code(format.encoding)' = Code(encodings[i])]_opvars

\* A client that looks again when it is told to knows the encoding and the
\* size of the frames at any time (mmalomx_buffer_event).
ClientUpToDate == told = Look(format)

\* A buffer that goes through a client unchanged is the same buffer, down to
\* an unknown or a zero time (mmalil_buffer_header_to_omx, ..._to_mmal); its
\* dts and FRAME_START are lost and are no part of it here.
BufferSame ==
  \A flags \in SUBSET {"KEYFRAME", "FRAME_END", "EOS", "CONFIG", "USER0"},
     pts \in {0, 5, TimeUnknown}, l \in 0..1, o \in 0..1 :
    LET h == [length |-> l, offset |-> o, flags |-> flags, pts |-> pts]
    IN  HeaderToMmal(HeaderToOmx(h)) = h

\* A translated parameter that is read without an error is what the component
\* holds (mmalomx_parameter_get_xlat).  A custom one is not.
ReadIsStored == answer.of # "none" => answer.value = stored[answer.of]

\* The second get with the same structure answers like the first.  It does
\* not: nSize is then nPortIndex + 4, which is refused.
GetsAgain == param.size = Header

\* A frame is not wider than its rows.  It is when a client changes the
\* width or the encoding and leaves the stride it read: the stride decides the
\* width, nFrameWidth the crop.
CropInside == kind = "video" => format.cw <= format.w
=============================================================================
