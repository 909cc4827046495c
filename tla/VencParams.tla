------------------------------- MODULE VencParams -------------------------------
(***************************************************************************)
(* The settings of the video encoder, in its three layers: the structures  *)
(* the OMX component reports (omx_video_encoder.cpp, omx_video_base.cpp),  *)
(* the copy of the driver's settings in venc_dev                           *)
(* (video_encoder_device.cpp), and the driver itself.  One set_parameter   *)
(* or set_config is a chain of ioctls any of which may fail; the calls     *)
(* before it have taken effect by then.                                    *)
(*                                                                         *)
(* A step of venc_dev is a function of a world w, the pair of venc_dev and *)
(* driver: it returns [ok, w].  w.bad is the number of ioctls until one    *)
(* fails (0: none will).                                                   *)
(*                                                                         *)
(* A second kind of session asks for the sequence header: get_parameter    *)
(* starts the driver, waits for the message thread to signal the answer,   *)
(* reads the header, and stops the driver in the same way.                 *)
(***************************************************************************)
EXTENDS Integers, Sequences, FiniteSets

CONSTANTS
  Codecs,       \* the components tried: "MPEG4", "H263", "H264"
  Frames,       \* frame sizes, <<width, height>>, a client asks for
  FrameRates,   \* frame rates in Q16
  Bitrates,     \* bit rates
  Counts,       \* buffer counts
  MinCount, MaxCount,  \* what the driver asks for (both ports)
  MaxIoctl,     \* bound: the ioctl that fails is one of the first so many of its call
  MaxCalls,     \* bound: the calls of a session in which nothing fails
  MaxFaulty,    \* bound: the calls of any other
  MaxHeaders    \* bound: the requests for the sequence header

QCIF == <<176, 144>>
MAX_RECON_BUFFERS == 4

ASSUME VencParamsAssumption ==
  /\ Codecs \subseteq {"MPEG4", "H263", "H264"}
  /\ MinCount \in Nat /\ MaxCount \in Nat /\ MinCount <= MaxCount
  /\ MaxIoctl \in Nat /\ MaxCalls \in Nat /\ MaxFaulty \in Nat /\ MaxHeaders \in Nat
-------------------------------------------------------------------------------
(* The profile and level tables: macroblocks per frame, per second, bits   *)
(* per second, level.  Profiles and levels of OMX and of the driver        *)
(* correspond one to one, except that MPEG4 level 6 is level 5 in OMX.     *)
mpeg4_profile_level_table ==
  [SP  |-> << <<99, 1485, 64000, "0">>, <<99, 1485, 64000, "1">>, <<396, 5940, 128000, "2">>,
              <<396, 11880, 384000, "3">>, <<1200, 36000, 4000000, "4a">>,
              <<1620, 40500, 8000000, "5">>, <<3600, 108000, 12000000, "5">> >>,
   ASP |-> << <<99, 1485, 128000, "0">>, <<99, 1485, 128000, "1">>, <<396, 5940, 384000, "2">>,
              <<396, 11880, 768000, "3">>, <<792, 23760, 3000000, "4">>,
              <<1620, 48600, 8000000, "5">> >>]

H264Rows(rates) ==
  << <<99, 1485, rates[1], "1">>, <<99, 1485, rates[2], "1b">>, <<396, 3000, rates[3], "11">>,
     <<396, 6000, rates[4], "12">>, <<396, 11880, rates[5], "13">>, <<396, 11880, rates[6], "2">>,
     <<792, 19800, rates[7], "21">>, <<1620, 20250, rates[7], "22">>, <<1620, 40500, rates[8], "3">>,
     <<3600, 108000, rates[9], "31">>, <<5120, 216000, rates[10], "32">>,
     <<8192, 245760, rates[10], "4">> >>
h264_profile_level_table ==
  LET base == H264Rows(<<64000, 128000, 192000, 384000, 768000, 2000000, 4000000,
                         10000000, 14000000, 20000000>>)
  IN [BASELINE |-> base, MAIN |-> base,
      HIGH |-> H264Rows(<<64000, 160000, 240000, 480000, 960000, 2500000, 5000000,
                          12500000, 17500000, 25000000>>)]

h263_profile_level_table ==
  [H263 |-> << <<99, 1485, 64000, "10">>, <<396, 5940, 128000, "20">>, <<396, 11880, 384000, "30">>,
               <<396, 11880, 2048000, "40">>, <<99, 1485, 128000, "45">>,
               <<396, 19800, 4096000, "50">>, <<810, 40500, 8192000, "60">>,
               <<1620, 81000, 16384000, "70">> >>]

Table(codec) ==
  CASE codec = "MPEG4" -> mpeg4_profile_level_table
    [] codec = "H263" -> h263_profile_level_table
    [] codec = "H264" -> h264_profile_level_table
Profiles(codec) == DOMAIN Table(codec)
DefaultProfile(codec) ==
  CASE codec = "MPEG4" -> "SP" [] codec = "H263" -> "H263" [] codec = "H264" -> "BASELINE"

(* The levels the switch of venc_set_profile_level knows: MPEG4 level 4 of *)
(* the ASP table is not among them.                                        *)
KnownLevels(codec) ==
  CASE codec = "MPEG4" -> {"0", "1", "2", "3", "4a", "5"}
    [] codec = "H263" -> {"10", "20", "30", "40", "45", "50", "60", "70"}
    [] codec = "H264" -> {"1", "1b", "11", "12", "13", "2", "21", "22", "3", "31", "32", "4"}

(* Q16ToFraction: the frame rate as num / 2^shift.                         *)
(* A power of 16 at most, as long as the number stays even.                *)
Log2(q) == CHOOSE p \in 0..16 : q % (2 ^ p) = 0 /\ (p = 16 \/ q % (2 ^ (p + 1)) # 0)
Q16ToFraction(q) ==
  LET power == Log2(q) IN [num |-> q \div (2 ^ power), shift |-> 16 - power]

MbPerFrame(size) == ((size[1] + 15) \div 16) * ((size[2] + 15) \div 16)
(* mb_per_frame * fps_num / fps_den, the product in 32 bits: with a        *)
(* denominator of 2^shift the quotient keeps 32 - shift bits.              *)
WideMbPerSec(size, fps) ==
  LET mb == MbPerFrame(size)
      den == 2 ^ fps.shift
  IN mb * (fps.num \div den) + (mb * (fps.num % den)) \div den
MbPerSec(size, fps) ==
  IF fps.shift < 2 THEN WideMbPerSec(size, fps)
  ELSE WideMbPerSec(size, fps) % (2 ^ (32 - fps.shift))
-------------------------------------------------------------------------------
None == "none"  \* a profile or level of 0
Max == "max"    \* the LevelMax values

(* Steps of venc_dev: a world w in, an outcome [ok, w] out.                *)
Yes(w) == [ok |-> TRUE, w |-> w]
No(w) == [ok |-> FALSE, w |-> w]
Then(r, Op(_)) == IF r.ok THEN Op(r.w) ELSE r
Anyway(r) == Yes(r.w)
(* One ioctl: w.bad counts down to the one that fails.                     *)
Ioctl(w, Done(_)) ==
  LET v == [w EXCEPT !.bad = IF @ = 0 THEN 0 ELSE @ - 1]
  IN IF w.bad = 1 THEN No(v) ELSE Yes(Done(v))
Quiet(w) == w

(* drv.refused records, for the properties, that the last one was refused. *)
SET_BASE_CFG(w) ==
  LET r == Ioctl(w, LAMBDA v : [v EXCEPT !.drv.size = v.dev.size, !.drv.fps = v.dev.fps,
                                         !.drv.bitrate = v.dev.rate])
  IN [r EXCEPT !.w.drv.refused = ~r.ok]
GET_INPUT_BUFFER_REQ(w) == Ioctl(w, LAMBDA v : [v EXCEPT !.dev.inReq = v.drv.in])
(* The size of an output buffer follows from the frame size.               *)
GET_OUTPUT_BUFFER_REQ(w) ==
  Ioctl(w, LAMBDA v : [v EXCEPT !.dev.outReq = v.drv.out, !.dev.outSize = v.drv.size])
SET_INPUT_BUFFER_REQ(w) == Ioctl(w, LAMBDA v : [v EXCEPT !.drv.in = v.dev.inReq])
SET_OUTPUT_BUFFER_REQ(w) == Ioctl(w, LAMBDA v : [v EXCEPT !.drv.out = v.dev.outReq])

(* The settings with a copy in venc_dev that is written when the ioctl     *)
(* succeeds; {} until then.                                                *)
Setting(w, name, value) ==
  Ioctl(w, LAMBDA v : [v EXCEPT !.drv.set[name] = {value}, !.dev.set[name] = {value}])
-------------------------------------------------------------------------------
(* Profile and level.                                                      *)
Covering(table, d) ==
  {i \in DOMAIN table : /\ MbPerFrame(d.size) <= table[i][1]
                        /\ MbPerSec(d.size, d.fps) <= table[i][2]
                        /\ d.rate <= table[i][3]}
First(S) == CHOOSE i \in S : \A j \in S : i <= j
Large(dev) == dev.codec = "MPEG4" /\ MbPerFrame(dev.size) >= 3600
LargeLevel(profile) == IF profile = "ASP" THEN "5" ELSE "6"

(* venc_validate_profile_level: the profile and level to ask for, or not   *)
(* ok.  For a large MPEG4 frame it writes the level into venc_dev itself.  *)
Validated(w, tables, profile, level) ==
  LET Answer(ok, v, l) == [ok |-> ok, w |-> v, p |-> profile, l |-> l]
      found == Covering(tables[profile], w.dev)
  IN IF profile \notin DOMAIN tables THEN Answer(FALSE, w, level)
     ELSE IF Large(w.dev)
       THEN Answer(TRUE, [w EXCEPT !.dev.level = LargeLevel(w.dev.profile)], level)
     ELSE IF found = {} THEN Answer(FALSE, w, level)
     ELSE Answer(TRUE, w, IF level = Max THEN tables[profile][First(found)][4] ELSE level)
venc_validate_profile_level(w, p, l) ==
  Validated(w, Table(w.dev.codec),
            IF p # None THEN p
            ELSE IF w.dev.pset THEN w.dev.profile ELSE DefaultProfile(w.dev.codec),
            IF l = None /\ ~w.dev.lset THEN Max ELSE l)

SetCodecProfile(w, p) ==
  IF w.dev.pset THEN Yes(w)
  ELSE Ioctl(w, LAMBDA v : [v EXCEPT !.drv.profile = p, !.dev.profile = p, !.dev.pset = TRUE])
SetProfileLevel(w, l) ==
  IF w.dev.lset THEN Yes(w)
  ELSE Ioctl(w, LAMBDA v : [v EXCEPT !.drv.level = l, !.dev.level = l, !.dev.lset = TRUE])

SetValidated(v, dev) ==   \* v: the answer above, for the settings dev
  IF ~v.ok \/ (~Large(dev) /\ v.l \notin KnownLevels(dev.codec)) THEN No(v.w)
  ELSE Then(SetCodecProfile(v.w, v.p),
            LAMBDA u : SetProfileLevel(u, IF Large(dev) THEN LargeLevel(v.p) ELSE v.l))
venc_set_profile_level(w, p, l) ==
  LET asked == IF p # None /\ l # None
               THEN [w EXCEPT !.dev.eProfile = p, !.dev.eLevel = l] ELSE w
  IN IF p = None /\ l = None /\ w.dev.pset /\ w.dev.lset THEN Yes(w)
     ELSE SetValidated(venc_validate_profile_level(asked, p, l), w.dev)

(* A new size, frame rate or bit rate asks for a new level; that there is  *)
(* none is only logged.                                                    *)
NewLevel_Kept(w) == Anyway(venc_set_profile_level(w, None, None))
NewLevel(w) == Anyway(venc_set_profile_level([w EXCEPT !.dev.lset = FALSE], None, None))
NewProfile(w, p, l) ==
  venc_set_profile_level([w EXCEPT !.dev.pset = FALSE, !.dev.lset = FALSE], p, l)

venc_get_profile_level(d) ==
  [profile |-> d.profile, level |-> IF d.level = "6" THEN "5" ELSE d.level]
venc_max_allowed_bitrate_check(d, bitrate) ==
  /\ d.eProfile \in Profiles(d.codec)
  /\ LET table == Table(d.codec)[d.eProfile]
     IN \A i \in DOMAIN table : table[i][4] = d.eLevel => bitrate <= table[i][3]
-------------------------------------------------------------------------------
(* The single settings of venc_dev.                                        *)
venc_set_target_bitrate_NoCfg(w, bitrate, config) ==
  LET Known(v) == [v EXCEPT !.drv.bitrate = bitrate, !.dev.target = bitrate]
  IN Then(Ioctl(w, Known), LAMBDA v : IF config THEN Yes(v) ELSE NewLevel(v))
venc_set_target_bitrate(w, bitrate, config) ==
  LET Known(v) == [v EXCEPT !.drv.bitrate = bitrate, !.dev.rate = bitrate, !.dev.target = bitrate]
  IN Then(Ioctl(w, Known), LAMBDA v : IF config THEN Yes(v) ELSE NewLevel(v))
venc_set_encode_framerate(w, q, config) ==
  LET fps == Q16ToFraction(q)
      Known(v) == [v EXCEPT !.drv.fps = fps, !.dev.fps = fps]
  IN Then(Ioctl(w, Known), LAMBDA v : IF config THEN Yes(v) ELSE NewLevel(v))
venc_set_color_format(w) == SET_BASE_CFG(w)  \* one input format in this build
venc_set_intra_period(w, b) ==
  Setting(w, "intra", IF w.dev.profile \in {"ASP", "MAIN", "HIGH"} THEN b ELSE 0)
venc_set_entropy_config(w, cabac) ==
  IF cabac /\ w.dev.profile = "BASELINE" THEN No(w)
  ELSE Setting(w, "entropy", IF cabac THEN "CABAC" ELSE "CAVLC")
venc_set_inloop_filter(w, mode) == Setting(w, "filter", mode)
venc_set_multislice_cfg(w, spacing) ==
  Setting(w, "slices", IF spacing # 0 THEN "CNT_MB" ELSE "OFF")
venc_set_voptiming_cfg(w, resolution) == Setting(w, "vop", resolution)
venc_set_session_qp(w, qp) == Setting(w, "qp", qp)
venc_set_ratectrl_cfg(w, mode) == IF mode = "other" THEN No(w) ELSE Setting(w, "rc", mode)
venc_set_intra_refresh(w, mbs) ==
  IF mbs = 0 THEN Setting(w, "refresh", 0)
  ELSE IF mbs < (w.dev.size[1] * w.dev.size[2]) \div 256 THEN Setting(w, "refresh", mbs)
  ELSE No(w)
(* The codec type is compared with OMX constants: only that of H263 is the *)
(* driver's own, so the header extension of MPEG4 is never set.            *)
venc_set_error_resilience(w, e) ==
  IF e.rvlc \/ (w.dev.codec # "H263" /\ e.partition) THEN No(w)
  ELSE Setting(w, "slices",
               CASE w.dev.codec # "H263" /\ e.resync -> "CNT_BYTE"
                 [] w.dev.codec = "H263" /\ e.partition -> "GOB"
                 [] OTHER -> "OFF")
venc_set_slice_delivery_mode(w) ==
  IF w.dev.set["slices"] = {"CNT_MB"} THEN Ioctl(w, Quiet) ELSE Yes(w)
venc_set_flag(w) == Ioctl(w, Quiet)  \* extra data, header with IDR, VUI restriction
venc_set_intra_vop_refresh(w) == Ioctl(w, Quiet)
venc_set_meta_mode(w) == Ioctl(w, Quiet)

-------------------------------------------------------------------------------
(* venc_set_param and venc_set_config, by index.                           *)
PortDefinitionIn(w, d) ==
  LET rate == venc_set_encode_framerate(w, d.fps, FALSE)
      colour == Then(rate, venc_set_color_format)
      size == Then(colour, LAMBDA v : SET_BASE_CFG([v EXCEPT !.dev.size = d.size]))
      input == Then(size, GET_INPUT_BUFFER_REQ)
      output == Then(Then(input, GET_OUTPUT_BUFFER_REQ), SET_OUTPUT_BUFFER_REQ)
      Count(v) == IF d.count \in MinCount..MaxCount
                  THEN SET_INPUT_BUFFER_REQ([v EXCEPT !.dev.inReq = d.count]) ELSE Yes(v)
  IN Then(Then(output, Count), NewLevel)
PortDefinitionOut(w, d) ==
  Then(venc_set_target_bitrate(w, d.bitrate, FALSE),
       LAMBDA v : IF d.count \in MinCount..MaxCount /\ d.buf = v.dev.outSize
                  THEN SET_OUTPUT_BUFFER_REQ([v EXCEPT !.dev.outReq = d.count]) ELSE No(v))
(* A refused slice delivery mode is returned as an OMX error, which is true. *)
SliceDelivery(w) == Anyway(venc_set_slice_delivery_mode(w))
VideoBitrate(w, bitrate, mode) ==
  Then(venc_set_target_bitrate(w, bitrate, FALSE), LAMBDA v : venc_set_ratectrl_cfg(v, mode))
VideoMpeg4(w, p) ==
  LET timing == venc_set_voptiming_cfg(w, 30)
      profile == Then(timing, LAMBDA v : NewProfile(v, p.profile, p.level))
      period == Then(profile, LAMBDA v :
                  venc_set_intra_period(v, IF p.profile = "ASP" THEN p.bframes ELSE 0))
  IN Then(period, LAMBDA v : venc_set_multislice_cfg(v, p.spacing))
VideoH263(w, p) ==
  Then(NewProfile(w, p.profile, p.level), LAMBDA v : venc_set_intra_period(v, 0))
VideoAvc(w, p) ==
  LET period == Then(NewProfile(w, p.profile, p.level), LAMBDA v :
                  venc_set_intra_period(v, IF p.profile # "BASELINE" THEN p.bframes ELSE 0))
      entropy == Then(period, LAMBDA v : venc_set_entropy_config(v, p.cabac))
      filter == Then(entropy, LAMBDA v : venc_set_inloop_filter(v, "all"))
  IN Then(filter, LAMBDA v : venc_set_multislice_cfg(v, p.spacing))
CodecParam(w, p) ==
  CASE w.dev.codec = "MPEG4" -> VideoMpeg4(w, p)
    [] w.dev.codec = "H263" -> VideoH263(w, p)
    [] w.dev.codec = "H264" -> VideoAvc(w, p)
ConfigBitrate(w, bitrate) ==
  IF w.dev.check /\ ~venc_max_allowed_bitrate_check(w.dev, bitrate) THEN No(w)
  ELSE venc_set_target_bitrate(w, bitrate, TRUE)
Swap(size) == <<size[2], size[1]>>
CommonRotate(w) == SET_BASE_CFG([w EXCEPT !.dev.size = Swap(@)])

(* venc_start and venc_stop, with the reconstruction buffers: drv.recon is *)
(* the number the driver has been given, dev.recon the slots recorded.     *)
ReconCount(dev) ==
  IF dev.profile \in {"SP", "BASELINE", "H263"} THEN MAX_RECON_BUFFERS - 2 ELSE MAX_RECON_BUFFERS
pmem_allocate(w, slot) ==
  Ioctl(w, LAMBDA v : [v EXCEPT !.drv.recon = @ + 1, !.dev.recon = @ \union {slot}])
(* bitrate.target_bitrate holds anything before the first bit rate.        *)
Unset == -1
Garbage == {0, 2000000000}

venc_allocate_recon_buffers(w) ==
  LET after[n \in 0..MAX_RECON_BUFFERS] ==
        IF n = 0 THEN Ioctl(w, Quiet) ELSE Then(after[n - 1], LAMBDA v : pmem_allocate(v, n))
  IN after[w.dev.reconCount]
StartAllocated(w, target) ==
  IF w.dev.check /\ ~venc_max_allowed_bitrate_check(w.dev, target) THEN No(w)
  ELSE Then(venc_allocate_recon_buffers([w EXCEPT !.dev.reconCount = ReconCount(w.dev)]),
            venc_set_flag)
venc_start(w, garbage) ==
  StartAllocated(venc_set_profile_level(w, None, None).w,
                 IF w.dev.target = Unset THEN garbage ELSE w.dev.target)
(* A buffer the driver does not take back is given up all the same.        *)
pmem_free(w) ==
  LET after[n \in 0..MAX_RECON_BUFFERS] ==
        IF n = 0 THEN w
        ELSE IF n \notin w.dev.recon THEN after[n - 1]
        ELSE Ioctl(after[n - 1], LAMBDA v : [v EXCEPT !.drv.recon = @ - 1, !.dev.recon = @ \ {n}]).w
      freed == after[w.dev.reconCount]
  IN [freed EXCEPT !.dev.recon = @ \ (1..w.dev.reconCount)]
venc_stop(w) == venc_set_flag(pmem_free(w))
-------------------------------------------------------------------------------
VARIABLES
  dev,      \* venc_dev
  drv,      \* the driver (external)
  omx,      \* the settings the component keeps and reports
  running,  \* the driver was started by Idle -> Executing
  disabled, \* a port is disabled
  clean,    \* no call of the session has failed and no ioctl either
  calls,    \* calls made
  fresh,    \* the last call succeeded and asked for a new level
  session,  \* fixed: a session of settings or of sequence headers
  hdr, flags, pipe, messages  \* the header session, below
settings == <<dev, drv, omx, running, disabled, clean, calls, fresh>>
header == <<hdr, flags, pipe, messages>>
paramsVars == <<settings, session, header>>

Names == {"intra", "entropy", "slices", "refresh", "qp", "filter", "rc", "vop"}
(* venc_open: the first settings, then profile and level for them.         *)
venc_open(codec) ==
  LET unset == [n \in Names |-> {}]
      fps == [num |-> 30, shift |-> 0]
      w == [dev |-> [codec |-> codec, size |-> QCIF, fps |-> fps, rate |-> 64000,
                     target |-> Unset, profile |-> DefaultProfile(codec),
                     level |-> CASE codec = "MPEG4" -> "2" [] codec = "H263" -> "20"
                                 [] codec = "H264" -> "11",
                     pset |-> FALSE, lset |-> FALSE, eProfile |-> None, eLevel |-> None,
                     check |-> FALSE, set |-> unset, inReq |-> MinCount, outReq |-> MinCount,
                     outSize |-> QCIF, recon |-> {}, reconCount |-> MAX_RECON_BUFFERS],
            drv |-> [size |-> QCIF, fps |-> fps, bitrate |-> 64000, profile |-> None,
                     level |-> None, set |-> unset, in |-> MinCount, out |-> MinCount,
                     recon |-> 0, refused |-> FALSE],
            bad |-> 0]
  IN venc_set_profile_level(w, None, None).w

Fps15 == 15 * 65536
component_init(codec) ==
  [in |-> [size |-> QCIF, count |-> MinCount, bitrate |-> 64000, fps |-> Fps15],
   out |-> [size |-> QCIF, count |-> MinCount, bitrate |-> 64000, fps |-> Fps15, buf |-> QCIF],
   cfgFps |-> 2 * Fps15, cfgBitrate |-> 64000, paramBitrate |-> 64000, rotation |-> 0,
   profile |-> DefaultProfile(codec),
   level |-> CASE codec = "MPEG4" -> "0" [] codec = "H263" -> "10" [] codec = "H264" -> "1",
   proxy |-> FALSE, opaque |-> FALSE, library |-> FALSE, meta |-> FALSE, extra |-> FALSE]

ParamsInit ==
  /\ session \in {"settings", "header"}
  /\ \E codec \in Codecs :
       LET w == venc_open(codec)
       IN dev = w.dev /\ drv = w.drv /\ omx = component_init(codec)
  /\ running = FALSE /\ disabled = FALSE /\ clean = TRUE /\ calls = 0
  /\ fresh = FALSE
  /\ hdr = [pc |-> "idle", ok |-> TRUE, signalled |-> FALSE, result |-> None, calls |-> 0]
  /\ flags = {} /\ pipe = <<>> /\ messages = [state |-> "stopped", clearing |-> None]
-------------------------------------------------------------------------------
(* The calls.  Any one ioctl of a session may fail; clean says none has    *)
(* and that every call returned OMX_ErrorNone.                             *)
Faults == IF clean /\ calls < MaxFaulty THEN 0..MaxIoctl ELSE {0}
World(bad) == [dev |-> dev, drv |-> drv, bad |-> bad]
Met(bad, w) == bad # 0 /\ w.bad = 0   \* the ioctl that was to fail was issued

Call(name, bad, r, known) ==
  /\ (bad # 0 => Met(bad, r.w))
  /\ dev' = r.w.dev /\ drv' = r.w.drv /\ omx' = known
  /\ clean' = (clean /\ r.ok /\ bad = 0)
  /\ fresh' = (r.ok /\ name = "level")
  /\ calls' = calls + 1
  /\ UNCHANGED <<session, header>>

(* set_parameter works in Loaded or with a port disabled.                  *)
MaySet == ~running \/ disabled

(* dev_get_buf_req of the output port: a failure leaves the old values.    *)
Refreshed(r, known) ==
  LET g == GET_OUTPUT_BUFFER_REQ(r.w)
  IN IF g.ok THEN [r |-> [r EXCEPT !.w = g.w],
                   known |-> [known EXCEPT !.out.count = g.w.dev.outReq, !.out.buf = g.w.dev.outSize]]
     ELSE [r |-> [r EXCEPT !.w = g.w], known |-> known]
(* c2d_conv.init(): a second call unloads the library and fails.           *)
C2dInit(known, loads) == [ok |-> ~known.library /\ loads, library |-> ~known.library /\ loads]
update_profile_level(known, w) ==
  LET pl == venc_get_profile_level(w.dev)
  IN [known EXCEPT !.profile = pl.profile, !.level = pl.level]

set_PortDefinition_In(d, opaque, loads, bad) ==
  LET copied == [omx EXCEPT !.in = d]
      init == C2dInit(copied, loads)
      coloured == IF ~opaque THEN [copied EXCEPT !.proxy = FALSE]
                  ELSE IF omx.proxy THEN copied
                  ELSE [copied EXCEPT !.library = init.library, !.proxy = init.ok,
                                      !.opaque = @ \/ init.ok]
      refused == opaque /\ ~omx.proxy /\ ~init.ok
  IN /\ MaySet
     /\ \E r \in {PortDefinitionIn(World(bad), d)} :
          IF ~r.ok THEN Call("level", bad, r, omx)
          ELSE IF refused THEN Call("level", bad, No(r.w), coloured)
          ELSE \E f \in {Refreshed([r EXCEPT !.w = GET_INPUT_BUFFER_REQ(@).w], coloured)} :
                 Call("level", bad, f.r,
                      [f.known EXCEPT !.in.count = d.count, !.cfgFps = d.fps,
                                      !.cfgBitrate = d.bitrate, !.paramBitrate = d.bitrate])
     /\ UNCHANGED <<running, disabled>>

set_PortDefinition_Out(d, bad) ==
  LET r == PortDefinitionOut(World(bad), d)
  IN /\ MaySet
     /\ Call("level", bad, r,
             IF ~r.ok THEN omx
             ELSE update_profile_level([omx EXCEPT !.out = d, !.cfgFps = d.fps,
                                          !.cfgBitrate = d.bitrate, !.paramBitrate = d.bitrate], r.w))
     /\ UNCHANGED <<running, disabled>>

(* Only the input port; a frame rate for the output port is ignored.       *)
set_PortFormat_In(opaque, loads, bad) ==
  LET r == venc_set_color_format(World(bad))
      known == update_profile_level(omx, r.w)
      init == C2dInit(known, loads)
  IN /\ MaySet
     /\ IF ~r.ok THEN Call("other", bad, r, omx)
        ELSE IF ~opaque
          THEN Call("other", bad, r, [known EXCEPT !.proxy = FALSE, !.opaque = FALSE])
        ELSE IF omx.proxy THEN Call("other", bad, r, known)
        ELSE Call("other", bad, [r EXCEPT !.ok = init.ok],
                  [known EXCEPT !.library = init.library, !.proxy = init.ok,
                                !.opaque = @ \/ init.ok])
     /\ UNCHANGED <<running, disabled>>

set_Bitrate(bitrate, mode, bad) ==
  LET r == VideoBitrate(World(bad), bitrate, mode)
  IN /\ MaySet
     /\ Call("level", bad, r,
             IF ~r.ok THEN omx
             ELSE update_profile_level([omx EXCEPT !.paramBitrate = bitrate, !.cfgBitrate = bitrate,
                                          !.in.bitrate = bitrate, !.out.bitrate = bitrate], r.w))
     /\ UNCHANGED <<running, disabled>>

(* The codec's own structure, and the profile and level alone.             *)
set_Codec(p, bad) ==
  LET r == CodecParam(World(bad), p)
  IN /\ MaySet
     /\ Call("other", bad, r, IF r.ok THEN [omx EXCEPT !.profile = p.profile, !.level = p.level] ELSE omx)
     /\ UNCHANGED <<running, disabled>>
set_ProfileLevel(profile, level, bad) ==
  LET r == NewProfile(World(bad), profile, level)
  IN /\ MaySet
     /\ Call("other", bad, r,
             IF r.ok THEN [omx EXCEPT !.profile = profile, !.level = level] ELSE omx)
     /\ UNCHANGED <<running, disabled>>

(* Settings handed to venc_dev and remembered when it accepts: slice       *)
(* delivery, header with IDR and VUI flag, and the three after it.         *)
set_Setting(r, bad) ==
  /\ MaySet
  /\ Call("other", bad, r, omx)
  /\ UNCHANGED <<running, disabled>>

set_Quantization(bad) == set_Setting(venc_set_session_qp(World(bad), 9), bad)
set_IntraRefresh(mbs, bad) == set_Setting(venc_set_intra_refresh(World(bad), mbs), bad)
set_ErrorCorrection(e, bad) == set_Setting(venc_set_error_resilience(World(bad), e), bad)

set_MetaBufferMode(on, bad) ==
  LET mode == venc_set_meta_mode(World(bad))
      d == [omx.in EXCEPT !.count = 4]
      known == [omx EXCEPT !.meta = on]
      r == Then(mode, LAMBDA v : PortDefinitionIn(v, d))
      f == Refreshed(mode, known)
  IN /\ MaySet /\ on # omx.meta
     /\ IF ~mode.ok THEN Call("other", bad, mode, omx)
        ELSE IF on THEN Call("other", bad, r, [known EXCEPT !.in = d])
        ELSE Call("other", bad, f.r, f.known)
     /\ UNCHANGED <<running, disabled>>

(* The flag is changed before the driver is asked.                         *)
set_ExtraData(on, bad) ==
  LET r == venc_set_flag(World(bad))
      known == [omx EXCEPT !.extra = on]
      f == Refreshed(r, known)
  IN /\ MaySet
     /\ IF r.ok THEN Call("other", bad, f.r, f.known) ELSE Call("other", bad, r, known)
     /\ UNCHANGED <<running, disabled>>

set_MaxAllowedBitrateCheck(on) ==
  /\ MaySet
  /\ Call("other", 0, Yes([World(0) EXCEPT !.dev.check = on]), omx)
  /\ UNCHANGED <<running, disabled>>
(* set_config works in every state.                                        *)
config_Bitrate(bitrate, bad) ==
  LET r == ConfigBitrate(World(bad), bitrate)
  IN /\ Call("other", bad, r,
             IF r.ok THEN [omx EXCEPT !.cfgBitrate = bitrate, !.paramBitrate = bitrate,
                                      !.out.bitrate = bitrate] ELSE omx)
     /\ UNCHANGED <<running, disabled>>
config_Framerate(fps, bad) ==
  LET r == venc_set_encode_framerate(World(bad), fps, TRUE)
  IN /\ Call("other", bad, r,
             IF r.ok THEN [omx EXCEPT !.cfgFps = fps, !.out.fps = fps] ELSE omx)
     /\ UNCHANGED <<running, disabled>>
config_Other(r, bad) ==
  /\ Call("other", bad, r, omx)
  /\ UNCHANGED <<running, disabled>>
config_IntraPeriod(b, bad) == config_Other(venc_set_intra_period(World(bad), b), bad)
config_IntraVopRefresh(bad) == config_Other(venc_set_intra_vop_refresh(World(bad)), bad)
config_Rotate(degrees, bad) ==
  LET turn == (degrees - omx.rotation) \in {90, -90, 270, -270}
      r == IF turn THEN CommonRotate(World(bad)) ELSE Yes(World(bad))
      turned == [omx EXCEPT !.rotation = degrees, !.in.size = Swap(@), !.out.size = Swap(omx.in.size)]
  IN /\ Call("other", bad, r,
             IF ~r.ok THEN omx ELSE IF turn THEN turned ELSE [omx EXCEPT !.rotation = degrees])
     /\ UNCHANGED <<running, disabled>>

(* get_parameter refreshes the output port from the driver.                *)
get_PortDefinition_Out(bad) ==
  LET f == Refreshed(Yes(World(bad)), omx)
  IN /\ Call("other", bad, f.r, f.known)
     /\ UNCHANGED <<running, disabled>>

(* The driver starts with Idle -> Executing and stops on the way back.     *)
dev_start(garbage, bad) ==
  LET r == venc_start(World(bad), garbage)
  IN /\ ~running /\ Call("other", bad, r, omx) /\ running' = r.ok /\ UNCHANGED disabled
dev_stop(bad) ==
  LET r == venc_stop(World(bad))
  IN /\ running /\ Call("other", bad, r, omx) /\ running' = ~r.ok /\ UNCHANGED disabled
PortCommand(off) ==
  /\ disabled # off /\ disabled' = off
  /\ Call("other", 0, Yes(World(0)), omx) /\ UNCHANGED running

Codec == dev.codec
Levels == {Table(Codec)[p][i][4] : p \in {DefaultProfile(Codec)}, i \in {1, 4}}
Settings ==
  /\ session = "settings" /\ calls < (IF clean THEN MaxCalls ELSE MaxFaulty)
  /\ \E bad \in Faults :
    \/ \E size \in Frames, fps \in FrameRates, count \in Counts, opaque, loads \in BOOLEAN :
         /\ (loads \/ opaque)
         /\ set_PortDefinition_In([size |-> size, count |-> count, bitrate |-> omx.in.bitrate,
                                   fps |-> fps], opaque, loads, bad)
    \/ \E bitrate \in Bitrates, count \in Counts :
         set_PortDefinition_Out([omx.out EXCEPT !.bitrate = bitrate, !.count = count], bad)
    \/ \E opaque, loads \in BOOLEAN : (loads \/ opaque) /\ set_PortFormat_In(opaque, loads, bad)
    \/ \E bitrate \in Bitrates, mode \in {"VBR", "other"} : set_Bitrate(bitrate, mode, bad)
    \/ \E p \in Profiles(Codec), l \in Levels, b \in {0, 1}, cabac \in BOOLEAN :
         set_Codec([profile |-> p, level |-> l, bframes |-> b, spacing |-> b, cabac |-> cabac], bad)
    \/ \E p \in Profiles(Codec) \union {"unknown"}, l \in Levels : set_ProfileLevel(p, l, bad)
    \/ set_Quantization(bad)
    \/ \E mbs \in {0, 99} : set_IntraRefresh(mbs, bad)
    \/ \E rvlc, partition, resync \in BOOLEAN :
         set_ErrorCorrection([rvlc |-> rvlc, partition |-> partition, resync |-> resync], bad)
    \/ set_Setting(SliceDelivery(World(bad)), bad)
    \/ set_Setting(venc_set_flag(World(bad)), bad)
    \/ \E on \in BOOLEAN : set_MetaBufferMode(on, bad) \/ set_ExtraData(on, bad)
    \/ \E bitrate \in Bitrates : config_Bitrate(bitrate, bad)
    \/ \E fps \in FrameRates : config_Framerate(fps, bad)
    \/ \E b \in {0, 1} : config_IntraPeriod(b, bad)
    \/ config_IntraVopRefresh(bad)
    \/ \E degrees \in {0, 90, 180} : config_Rotate(degrees, bad)
    \/ get_PortDefinition_Out(bad)
    \/ \E garbage \in Garbage : dev_start(garbage, bad)
    \/ dev_stop(bad)
    \/ \E on \in BOOLEAN : bad = 0 /\ (set_MaxAllowedBitrateCheck(on) \/ PortCommand(on))
-------------------------------------------------------------------------------
(* The sequence header.  messages.state is the driver: an accepted START   *)
(* or STOP is answered later, in order, through pipe.                      *)
HeaderStep == session = "header" /\ UNCHANGED <<settings, session>>

Failed(f) == hdr' = [hdr EXCEPT !.pc = "idle", !.result = "failed"] /\ flags' = flags \ {f}

VideoSyntaxHdr ==
  /\ HeaderStep /\ hdr.pc = "idle" /\ hdr.calls < MaxHeaders
  /\ flags' = flags \union {"START"}
  /\ hdr' = [hdr EXCEPT !.pc = "start", !.ok = TRUE, !.result = None, !.calls = @ + 1]
  /\ UNCHANGED <<pipe, messages>>
venc_loaded_start ==
  /\ HeaderStep /\ hdr.pc = "start"
  /\ \/ /\ messages.state = "stopped"
        /\ messages' = [messages EXCEPT !.state = "starting"]
        /\ hdr' = [hdr EXCEPT !.pc = "startLock"] /\ UNCHANGED flags
     \/ Failed("START") /\ UNCHANGED messages
  /\ UNCHANGED pipe
(* From here on a signal is heard.                                         *)
TimedWait ==
  /\ HeaderStep /\ hdr.pc \in {"startLock", "stopLock"}
  /\ hdr' = [hdr EXCEPT !.pc = IF @ = "startLock" THEN "startWait" ELSE "stopWait",
                        !.signalled = FALSE]
  /\ UNCHANGED <<flags, pipe, messages>>
Woken ==
  /\ HeaderStep /\ hdr.pc \in {"startWait", "stopWait"} /\ hdr.signalled
  /\ hdr' = IF hdr.pc = "startWait" THEN [hdr EXCEPT !.pc = "header"]
            ELSE [hdr EXCEPT !.pc = "idle", !.result = IF hdr.ok THEN "ok" ELSE "failed"]
  /\ UNCHANGED <<flags, pipe, messages>>
TimedOut_AsSuccess ==
  /\ HeaderStep /\ hdr.pc \in {"startWait", "stopWait"} /\ ~hdr.signalled
  /\ hdr' = IF hdr.pc = "startWait" THEN [hdr EXCEPT !.pc = "header"]
            ELSE [hdr EXCEPT !.pc = "idle", !.result = IF hdr.ok THEN "ok" ELSE "failed"]
  /\ UNCHANGED <<flags, pipe, messages>>
TimedOut ==
  /\ HeaderStep /\ hdr.pc \in {"startWait", "stopWait"} /\ ~hdr.signalled
  /\ Failed(IF hdr.pc = "startWait" THEN "START" ELSE "STOP")
  /\ UNCHANGED <<pipe, messages>>
venc_get_seq_hdr ==
  /\ HeaderStep /\ hdr.pc = "header"
  /\ \E got \in BOOLEAN : hdr' = [hdr EXCEPT !.pc = "stop", !.ok = got]
  /\ flags' = flags \union {"STOP"}
  /\ UNCHANGED <<pipe, messages>>
venc_loaded_stop ==
  /\ HeaderStep /\ hdr.pc = "stop"
  /\ \/ /\ messages.state = "started"
        /\ messages' = [messages EXCEPT !.state = "stopping"]
        /\ hdr' = [hdr EXCEPT !.pc = "stopLock"] /\ UNCHANGED flags
     \/ Failed("STOP") /\ UNCHANGED messages
  /\ UNCHANGED pipe
(* async_message_process posts the answers; the message thread signals the *)
(* caller if its flag is set, and clears the flag after that.              *)
DriverAnswers ==
  /\ HeaderStep
  /\ \/ messages.state = "starting" /\ messages' = [messages EXCEPT !.state = "started"]
        /\ pipe' = Append(pipe, "START")
     \/ messages.state = "stopping" /\ messages' = [messages EXCEPT !.state = "stopped"]
        /\ pipe' = Append(pipe, "STOP")
  /\ UNCHANGED <<hdr, flags>>
LoadedDone ==
  /\ HeaderStep /\ pipe # <<>> /\ messages.clearing = None
  /\ pipe' = Tail(pipe)
  /\ IF Head(pipe) \in flags
     THEN /\ hdr' = [hdr EXCEPT !.signalled = @ \/ hdr.pc \in {"startWait", "stopWait"}]
          /\ messages' = [messages EXCEPT !.clearing = Head(pipe)]
     ELSE UNCHANGED <<hdr, messages>>
  /\ UNCHANGED flags
ClearPending ==
  /\ HeaderStep /\ messages.clearing # None
  /\ flags' = flags \ {messages.clearing}
  /\ messages' = [messages EXCEPT !.clearing = None]
  /\ UNCHANGED <<hdr, pipe>>

HeaderCall == VideoSyntaxHdr \/ venc_loaded_start \/ TimedWait \/ Woken \/ TimedOut
              \/ venc_get_seq_hdr \/ venc_loaded_stop
-------------------------------------------------------------------------------
ParamsNext ==
  \/ Settings
  \/ HeaderCall
  \/ DriverAnswers
  \/ LoadedDone
  \/ ClearPending

ParamsSpec == ParamsInit /\ [][ParamsNext]_paramsVars
-------------------------------------------------------------------------------

(* What venc_dev believes of the driver is true, also after a call that    *)
(* stopped half way: a profile or level it counts as set is the driver's,  *)
(* and so are bit rate, frame rate and every setting it has a copy of.     *)
(* Later decisions (level, B frames, CABAC, recon buffers) rest on it.     *)
(* The size is the exception: it is written into the copy before the       *)
(* SET_BASE_CFG that tells the driver (574, 1119) and is not restored.  So *)
(* the copy may have a size the driver never took, but only while the last *)
(* SET_BASE_CFG is one the driver refused: the next to succeed, be it of   *)
(* the colour format, ends that.  While nothing has failed the component   *)
(* agrees as well, and a stopped driver holds no reconstruction buffer.    *)
LayersAgree ==
  /\ dev.pset => dev.profile = drv.profile
  /\ dev.lset => dev.level = drv.level
  /\ dev.rate = drv.bitrate /\ dev.fps = drv.fps
  /\ dev.set = drv.set
  /\ dev.size # drv.size => drv.refused
  /\ clean => /\ omx.in.size = drv.size /\ dev.size = drv.size
              /\ omx.out.bitrate = drv.bitrate
              /\ omx.profile = drv.profile
              /\ omx.out.count = drv.out
              /\ ~running => drv.recon = 0

(* Unless the 32-bit product of macroblocks and frame rate wraps, a call   *)
(* that changes size, frame rate or bit rate and leaves a level set leaves *)
(* the lowest level of the table that covers the stream (or, for a large   *)
(* MPEG4 frame, the fixed one).                                            *)
NoWrap == MbPerSec(dev.size, dev.fps) = WideMbPerSec(dev.size, dev.fps)
LevelCovers ==
  IF Large(dev) THEN drv.level = LargeLevel(drv.profile)
  ELSE LET table == Table(Codec)[drv.profile]
           found == Covering(table, [dev EXCEPT !.rate = drv.bitrate])
       IN found # {} /\ drv.level = table[First(found)][4]
LevelCoversStream ==
  (fresh /\ dev.lset /\ NoWrap) => LevelCovers

(* A header that is reported came from a driver that was started and has   *)
(* stopped again: no signal meant for an earlier request is taken for the  *)
(* answer to a later one, and a timeout is not an answer.                  *)
HeaderOkMeansStopped == hdr.result = "ok" => messages.state = "stopped"
===============================================================================
