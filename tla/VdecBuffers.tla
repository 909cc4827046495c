------------------------------ MODULE VdecBuffers ------------------------------
(***************************************************************************)
(* The memory of the video decoder's buffers (omx_vdec.cpp): how a session *)
(* is set up, what set_parameter makes of the buffer requirement, how the  *)
(* slots of the two ports are filled and emptied, with and without colour  *)
(* conversion, and what component_deinit gives back.  The commands that    *)
(* move buffers between client and driver are the subject of OmxVdec; here *)
(* a command takes effect at once.                                         *)
(*                                                                         *)
(* A step of the component is a function of a world w, the component and   *)
(* its driver: it returns [ok, w].  w.bad is the number of system calls    *)
(* until one fails (0: none will).  Sizes are counted in words of 4 bytes, *)
(* so the roundings to a word are left out.  FREE_BUFFER is taken to       *)
(* succeed, as the code ignores its answer.                                *)
(***************************************************************************)
EXTENDS Integers, FiniteSets, FiniteSetsExt

CONSTANTS
  Kinds,      \* the components tried: [codec, secure, smooth, dmx]
  Resolutions,\* picture sizes, 1 the smallest
  Alignment,  \* of an output buffer; the driver's sizes are multiples of it
  ExtraSize,  \* the size of each kind of extradata the component appends
  HdrSize,    \* sizeof(OMX_OTHER_EXTRADATATYPE)
  MinIn, MinOut, MaxCount,  \* buffer counts: what the driver asks for, the bound
  Options,    \* the settings the client tries
  MaxCall,    \* bound: the call that fails is one of the first so many of its step
  MaxSet,     \* bound: the settings of a session
  MaxRounds   \* bound: the times a port is filled again

Slots == 0 .. MaxCount - 1
MaxRes == Max(Resolutions)
ASSUME VdecBuffersAssumption ==
  /\ MinIn \in 1 .. MaxCount /\ MinOut \in 1 .. MaxCount
  /\ Alignment \in Nat \ {0} /\ HdrSize \in Nat
  \* what the component appends fits in the rounding of one driver size
  /\ SumSet({ExtraSize[x] : x \in DOMAIN ExtraSize}) + HdrSize + 1 < Alignment
  /\ Kinds \subseteq [codec : {"avc", "mpeg4"}, secure : BOOLEAN, smooth : BOOLEAN,
                      dmx : BOOLEAN]

(* Extradata the driver writes itself (DRIVER_EXTRADATA_MASK).             *)
Mbmap == {"mbmap"}
Extra(x) == MapThenSumSet(LAMBDA k : ExtraSize[k], x \cap DOMAIN ExtraSize)
AlignUp(size) == ((size + Alignment - 1) \div Alignment) * Alignment
-------------------------------------------------------------------------------
Yes(w) == [ok |-> TRUE, w |-> w]
No(w) == [ok |-> FALSE, w |-> w]
Then(r, Op(_)) == IF r.ok THEN Op(r.w) ELSE r
(* One system call, with its effect when it succeeds.                      *)
Call(w, Done(_)) ==
  LET v == [w EXCEPT !.bad = IF @ = 0 THEN 0 ELSE @ - 1]
  IN IF w.bad = 1 THEN No(v) ELSE Yes(Done(v))
Quiet(w) == w

(* The driver works out its requirement anew when the picture size, the    *)
(* format or the extradata changes; otherwise it answers what was last set *)
Recompute(w) ==
  [w EXCEPT !.drv.op = [count |-> MinOut,
                        size |-> (w.drv.res + (IF w.drv.ext # {} THEN 1 ELSE 0)) * Alignment]]

(* A port without its arrays.  Memory is "kept" once the call that         *)
(* allocated it has succeeded, and an "orphan" when the call failed and    *)
(* left it behind.                                                         *)
NoMem == [s \in Slots |-> "none"]
NoPort == [hdr |-> 0, bits |-> {}, mem |-> NoMem]
NoColor == [on |-> FALSE, open |-> FALSE, count |-> 0, req |-> 0, mem |-> NoMem]
Kept(mem) == {s \in Slots : mem[s] = "kept"}

NoWorld(kind) ==
  [kind |-> kind, state |-> "none", pend |-> {}, outEnabled |-> TRUE, arb |-> FALSE,
   native |-> FALSE, useNative |-> FALSE, egl |-> FALSE, used |-> FALSE,
   ip |-> [count |-> 0, size |-> 0], op |-> [count |-> 0, size |-> 0],
   rc |-> [count |-> 0, size |-> 0], res |-> 0, smooth |-> FALSE, smoothRes |-> 0,
   ext |-> {}, dext |-> {}, inReconfig |-> FALSE, order |-> "display", reorder |-> FALSE,
   inp |-> NoPort, out |-> NoPort, heap |-> NoPort, phdr |-> [s \in Slots |-> MaxCount],
   inCnt |-> 0, desc |-> {}, descLen |-> 0, len |-> 0, cc |-> NoColor, mv |-> "none",
   vendor |-> FALSE, scratch |-> FALSE, display |-> "plain", ret |-> MaxCount,
   lost |-> FALSE, bad |-> 0,
   drv |-> [open |-> FALSE, res |-> 0, ext |-> {}, ip |-> [count |-> 0, size |-> 0],
            op |-> [count |-> 0, size |-> 0], reg |-> [inp |-> {}, out |-> {}],
            order |-> "display"]]
-------------------------------------------------------------------------------
(* Buffer requirements.                                                    *)
OpenConverter(w) == Call([w EXCEPT !.cc.open = FALSE], LAMBDA v : [v EXCEPT !.cc.open = TRUE])
(* allocate_color_convert_buf::update_buffer_req: the converter reads a    *)
(* picture of the driver and writes one of the same size in words.         *)
update_buffer_req(w) ==
  IF ~w.cc.on THEN Yes(w)
  ELSE Then(OpenConverter(w), LAMBDA v :
         IF v.res * Alignment > v.op.size
         THEN No([v EXCEPT !.cc.open = FALSE, !.cc.req = 0])
         ELSE Yes([v EXCEPT !.cc.req = Max({v.res * Alignment, v.op.size})]))

(* The size a client is told (allocate_color_convert_buf::get_buffer_req). *)
ClientSize(w) == IF w.cc.on THEN Max({w.cc.req, w.op.size}) ELSE w.op.size

set_buffer_req(w, prop) ==
  IF w[prop].size % Alignment # 0 THEN No(w)
  ELSE Then(Call(w, LAMBDA v : IF prop = "ip" THEN [v EXCEPT !.drv.ip = v.ip]
                               ELSE [v EXCEPT !.drv.op = v.op]),
            update_buffer_req)

(* Mutant: the extradata is left out of the size.                          *)
WithExtra_Bare(w, size) == AlignUp(size)
WithExtra(w, size) ==
  LET extra == Extra(w.ext)
  IN AlignUp(size + (IF extra > 0 THEN extra + HdrSize ELSE 0))
get_buffer_req(w, prop) ==
  Then(Call(w, LAMBDA v : [v EXCEPT ![prop] = IF prop = "ip" THEN v.drv.ip ELSE v.drv.op]),
  LAMBDA a : Then(Call(a, LAMBDA v : [v EXCEPT !.res = v.drv.res]),
  LAMBDA b :
    LET sized == [b EXCEPT ![prop].size = WithExtra(b, @)]
    IN IF b.inReconfig \/ sized[prop].size = b[prop].size THEN Yes(sized)
       ELSE set_buffer_req(sized, prop)))

SetPicres(w) == Call(w, LAMBDA v : Recompute([v EXCEPT !.drv.res = v.res]))

set_color_format(w, format) ==
  LET off == [w EXCEPT !.cc.on = FALSE, !.cc.open = FALSE]
  IN IF format = "tile" THEN Yes(off)
     ELSE Call(off, LAMBDA v : [v EXCEPT !.cc.on = TRUE])
(* The driver's format is the tiled one for every format it accepts, so    *)
(* SET_OUTPUT_FORMAT is never called again.                                *)
update_color_format(w, format) ==
  LET set == IF format = "other" THEN No(w) ELSE set_color_format(w, format)
      updated == update_buffer_req(set.w)
  IN [ok |-> set.ok /\ updated.ok, w |-> updated.w]

enable_extradata(w, x, enable) ==
  LET requested == IF enable THEN w.ext \cup x ELSE w.ext \ x
      driver == (requested \cap Mbmap) \cup (IF "frameinfo" \in requested THEN Mbmap ELSE {})
      noted == [w EXCEPT !.ext = requested]
      sized == AlignUp(w.op.size + (IF enable THEN Extra(x) ELSE -Extra(x)))
  IN IF w.state # "Loaded" THEN No(w)
     ELSE IF driver # w.dext
     THEN Then(Call([noted EXCEPT !.dext = driver],
                    LAMBDA v : Recompute([v EXCEPT !.drv.ext = driver])),
               LAMBDA v : get_buffer_req(v, "op"))
     ELSE IF w.ext \ Mbmap # requested \ Mbmap
     THEN set_buffer_req([noted EXCEPT !.op.size =
                            IF requested \ Mbmap = {} THEN sized - HdrSize ELSE sized], "op")
     ELSE Yes(w)
-------------------------------------------------------------------------------
(* component_init: the display is told of a secure session, the driver is  *)
(* opened and given codec, format and picture size.                        *)
OpenDriver(w) ==
  Call([w EXCEPT !.display = IF w.kind.secure THEN "securing" ELSE @,
                 !.smooth = w.kind.smooth],
       LAMBDA v : [v EXCEPT !.drv.open = TRUE, !.drv.ip = [count |-> MinIn, size |-> Alignment]])
SetUpCodec(w) ==
  Then(Call(w, Quiet), LAMBDA a :    \* SET_CODEC
  Then(Call(a, Quiet), LAMBDA b :    \* SET_OUTPUT_FORMAT
  LET c == IF b.smooth THEN Call(b, LAMBDA v : [v EXCEPT !.smoothRes = MaxRes]) ELSE Yes(b)
  IN Then(SetPicres([c.w EXCEPT !.res = IF b.smooth THEN MaxRes ELSE 1]), LAMBDA d :
     Then(get_buffer_req(d, "ip"), LAMBDA e : get_buffer_req(e, "op")))))
(* For AVC: the driver may leave the search for start codes to the         *)
(* component; an error of these two calls does not count.                  *)
SetUpDemux(w) ==
  LET ask == IF w.kind.dmx /\ ~w.kind.secure THEN Call(w, Quiet) ELSE No(w)
      set == Then(ask, LAMBDA v : Call(v, Quiet))
  IN [set.w EXCEPT !.kind.dmx = set.ok, !.scratch = w.kind.codec = "avc"]
InitDone(r) ==
  IF r.ok
  THEN Yes([r.w EXCEPT !.state = "Loaded",
                       !.display = IF r.w.kind.secure THEN "secure" ELSE @])
  ELSE No([r.w EXCEPT !.state = "failed", !.drv.open = FALSE])
component_init(w) ==
  InitDone(Then(Then(OpenDriver(w), SetUpCodec), LAMBDA v : Call(SetUpDemux(v), Quiet)))
-------------------------------------------------------------------------------
(* Slots.  Recording memory in a slot that holds some loses that.          *)
Record(w, port, i, mem) ==
  [w EXCEPT ![port].mem[i] = mem, !.lost = @ \/ w[port].mem[i] = "kept"]
NewArrays(w, port, n) ==
  [w EXCEPT ![port].hdr = n, ![port].mem = NoMem, !.lost = @ \/ Kept(w[port].mem) # {}]
FreeArrays(w, port) == NewArrays(w, port, 0)
FreeSlot(w, port, i) ==
  [w EXCEPT ![port].mem[i] = "none", !.drv.reg[port] = @ \ {i}]

alloc_map_ion_memory(w) == Then(Call(w, Quiet), LAMBDA v : Call(v, Quiet))
Mmap(w) == IF w.kind.secure THEN Yes(w) ELSE Call(w, Quiet)
(* SET_BUFFER: only then is the bit of the slot set.                       *)
Register(w, port, i, mem) ==
  Call(w, LAMBDA v : [v EXCEPT !.drv.reg[port] = @ \cup {i}, ![port].bits = @ \cup {i},
                               ![port].mem[i] = mem, !.ret = i])
FillSlot(w, port, i) ==
  Then(Then(alloc_map_ion_memory(w), Mmap), LAMBDA v :
    Register(Record([v EXCEPT !.ret = i], port, i, "orphan"), port, i, "kept"))
Free(w, port, n) == 0 .. n - 1 \ w[port].bits

allocate_desc_buffer(w, i) ==
  Call([w EXCEPT !.descLen = IF @ = 0 THEN w.ip.count ELSE @],
       LAMBDA v : [v EXCEPT !.desc = @ \cup {i}])
allocate_input_buffer(w) ==
  LET v == IF w.inp.hdr = 0 THEN NewArrays(w, "inp", w.ip.count) ELSE w
      free == Free(v, "inp", v.ip.count)
      filled == FillSlot(v, "inp", Min(free))
  IN IF free = {} THEN No(v)
     ELSE IF ~v.kind.dmx THEN filled
     ELSE Then(filled, LAMBDA u : allocate_desc_buffer(u, u.ret))
(* The header the driver's buffer got is entered in m_phdr_pmem_ptr, and   *)
(* in m_input_free_q, whether the call succeeded or not.                   *)
Enter(r, i) == [ok |-> r.ok, w |-> [r.w EXCEPT !.phdr[i] = r.w.ret, !.ret = i]]
allocate_input_heap_buffer(w) ==
  LET v == IF w.heap.hdr = 0 THEN [w EXCEPT !.heap.hdr = w.ip.count] ELSE w
      free == Free(v, "heap", v.ip.count)
      i == Min(free)
  IN IF free = {} THEN No(v)
     ELSE Then(Call(v, LAMBDA u : [u EXCEPT !.heap.bits = @ \cup {i}, !.ret = MaxCount]),
               LAMBDA u : Enter(allocate_input_buffer(u), i))
use_input_heap_buffers(w) ==
  LET v == IF w.heap.hdr = 0 THEN [w EXCEPT !.heap.hdr = w.ip.count] ELSE w
      r == Enter(allocate_input_buffer([v EXCEPT !.used = TRUE, !.ret = MaxCount]), v.inCnt)
  IN IF v.inCnt >= v.ip.count THEN No(v)
     ELSE [r EXCEPT !.w.inCnt = @ + 1]

free_input_buffer(w, i) ==
  IF w.inp.hdr = 0 \/ i >= w.ip.count \/ w.inp.mem[i] = "none" THEN w
  ELSE [FreeSlot(w, "inp", i) EXCEPT !.desc = @ \ {i}]
free_input_buffer_header(w) ==
  LET v == [FreeArrays(w, "inp") EXCEPT !.used = FALSE]
  IN IF w.arb THEN [v EXCEPT !.heap.hdr = 0, !.phdr = [s \in Slots |-> MaxCount]] ELSE v
-------------------------------------------------------------------------------
(* The motion vector buffer of AVC goes with the output headers.           *)
vdec_alloc_h264_mv(w) ==
  Then(Call(w, Quiet), LAMBDA a : Then(Then(alloc_map_ion_memory(a), Mmap), LAMBDA b :
    Call(b, LAMBDA v : [v EXCEPT !.lost = @ \/ v.mv = "kept", !.mv = "kept"])))
vdec_dealloc_h264_mv(w) == [w EXCEPT !.mv = "none"]
allocate_output_headers(w) ==
  LET v == NewArrays(w, "out", w.op.count)
  IN IF w.kind.codec = "avc" THEN vdec_alloc_h264_mv(v) ELSE Yes(v)

OutputSlot(w, Fill(_, _)) ==
  Then(IF w.out.hdr = 0 THEN allocate_output_headers(w) ELSE Yes(w), LAMBDA v :
    LET free == Free(v, "out", v.op.count)
    IN IF free = {} THEN No(v) ELSE Fill([v EXCEPT !.len = v.op.size], Min(free)))
OutputMemory(v, i) == FillSlot(v, "out", i)
allocate_output_buffer(w) == OutputSlot(w, OutputMemory)
(* A buffer of the client: a gralloc handle, which is mapped, or memory    *)
(* described by a platform-private list (EGL images, PMEM).                *)
NativeSlot(v, i) ==
  Then(IF v.useNative THEN Yes(v) ELSE Mmap(v), LAMBDA u :
    Register(Record(u, "out", i, "orphan"), "out", i, "kept"))
use_output_buffer(w, size) ==
  OutputSlot(w, LAMBDA v, i :
    IF ~v.native THEN Register(v, "out", i, "none")
    ELSE IF size < v.op.size THEN No(v)
    ELSE NativeSlot(v, i))

(* Mutant: the motion vectors are kept.                                    *)
free_output_buffer_KeepsMv(w, i) ==
  IF w.out.hdr = 0 \/ i >= w.op.count THEN w ELSE FreeSlot(w, "out", i)
(* With native buffers the memory is only unmapped: it is the client's.    *)
(* What the component allocated itself, to convert from, is lost here.     *)
free_output_buffer(w, i) ==
  LET freed == [FreeSlot(w, "out", i) EXCEPT
                  !.lost = @ \/ (w.native /\ w.cc.on /\ w.out.mem[i] = "kept")]
  IN IF w.out.hdr = 0 THEN w
     ELSE LET v == IF i < w.op.count THEN freed ELSE w
          IN IF w.kind.codec = "avc" THEN vdec_dealloc_h264_mv(v) ELSE v
free_output_buffer_header(w) == [FreeArrays(w, "out") EXCEPT !.egl = FALSE]
-------------------------------------------------------------------------------
(* Colour conversion: the client gets headers of its own, one for every    *)
(* buffer of the driver.                                                   *)
init_members(w) ==
  [w EXCEPT !.cc.count = 0, !.cc.req = 0, !.cc.open = FALSE,
            !.lost = @ \/ Kept(w.cc.mem) # {}, !.cc.mem = NoMem]
(* If the client's half fails, the driver's half stays registered.         *)
Converted(w, drv, half) ==
  LET i == w.cc.count
  IN IF w.cc.count >= w.op.count THEN No(w)
     ELSE IF ~drv.ok THEN drv
     ELSE IF ~half.ok THEN No([half.w EXCEPT !.out.mem[drv.w.ret] = "orphan"])
     ELSE Yes([Record(half.w, "cc", i, "kept") EXCEPT !.cc.count = @ + 1, !.ret = i])
allocate_buffers_color_convert(w, bytes) ==
  IF ~w.cc.on THEN allocate_output_buffer(w)
  ELSE IF w.kind.secure \/ bytes > w.cc.req THEN No(w)
  ELSE LET drv == allocate_output_buffer(w)
       IN Converted(w, drv, Then(alloc_map_ion_memory(drv.w), Mmap))
color_convert_use_output_buffer(w, size) ==
  IF ~w.cc.on THEN use_output_buffer(w, size)
  ELSE IF ~w.native \/ w.kind.secure \/ size > w.cc.req THEN No(w)
  ELSE LET drv == allocate_output_buffer(w) IN Converted(w, drv, Mmap(drv.w))
color_convert_free_output_buffer(w, i) ==
  LET emptied == [w EXCEPT !.cc.mem[i] = "none", !.cc.count = @ - 1,
                           !.out.mem[i] = IF w.native THEN "none" ELSE @]
      last == IF emptied.cc.count = 0 THEN init_members(emptied) ELSE emptied
  IN IF ~w.cc.on THEN free_output_buffer(w, i)
     ELSE IF w.kind.secure \/ w.cc.count = 0 \/ i >= w.op.count THEN w
     ELSE free_output_buffer(last, i)
-------------------------------------------------------------------------------
(* allocate_buffer, use_buffer: a port that becomes full ends the command  *)
(* that waits for it.                                                      *)
InFull(w) == w.inp.hdr # 0 /\ 0 .. w.ip.count - 1 \subseteq w.inp.bits
OutFull(w) == w.out.hdr # 0 /\ 0 .. w.op.count - 1 \subseteq w.out.bits
Populated(w) ==
  LET idle == InFull(w) /\ OutFull(w) /\ "idle" \in w.pend
      v == IF idle THEN [w EXCEPT !.state = "Idle", !.pend = @ \ {"idle"}] ELSE w
  IN Yes(IF OutFull(v) THEN [v EXCEPT !.pend = @ \ {"outEn"}] ELSE v)
allocate_buffer(w, port) ==
  IF w.state = "Invalid" THEN No(w)
  ELSE Then(IF port = "out" THEN allocate_buffers_color_convert(w, ClientSize(w))
            ELSE IF w.arb THEN allocate_input_heap_buffer(w)
            ELSE allocate_input_buffer(w), Populated)
use_buffer(w, port, size) ==
  IF w.state = "Invalid" THEN No(w)
  ELSE Then(IF port = "inp" THEN use_input_heap_buffers(w)
            ELSE color_convert_use_output_buffer(w, size), Populated)
use_EGL_image(w) == use_buffer([w EXCEPT !.egl = TRUE], "out", w.op.size)
(* A native buffer handed over this way is mapped here.                    *)
use_android_native_buffer(w, size) ==
  LET v == [w EXCEPT !.useNative = TRUE]
  IN IF ~w.native THEN No(w)
     ELSE IF size < w.op.size THEN No(v)
     ELSE Then(Mmap(v), LAMBDA u : use_buffer(u, "out", size))

(* Mutant: the new requirement is not sent to the driver.                  *)
OutDisabled_NotSent(w) ==
  IF w.inReconfig THEN [w EXCEPT !.inReconfig = FALSE, !.op = w.rc] ELSE w
(* The end of a disable of the output port is where a new picture size     *)
(* takes effect.                                                           *)
OutDisabled(w) ==
  IF ~w.inReconfig THEN w
  ELSE LET r == set_buffer_req([w EXCEPT !.inReconfig = FALSE, !.op = w.rc], "op")
       IN IF r.ok THEN r.w ELSE [r.w EXCEPT !.state = "Invalid"]
InEmpty(w) == w.inp.hdr = 0 \/ 0 .. w.ip.count - 1 \cap w.inp.bits = {}
OutEmpty(w) == w.out.hdr = 0 \/ 0 .. w.op.count - 1 \cap w.out.bits = {}
Unloaded(w) ==
  IF "loading" \in w.pend /\ InEmpty(w) /\ OutEmpty(w)
  THEN [w EXCEPT !.state = "Loaded", !.pend = @ \ {"loading"}] ELSE w
FreeInput(w, i) ==
  LET slot == IF w.arb \/ w.used THEN w.phdr[i] ELSE i
      v == free_input_buffer([w EXCEPT !.inp.bits = @ \ {i}, !.heap.bits = @ \ {i}], slot)
  IN IF InEmpty(v) THEN free_input_buffer_header(v) ELSE v
NoOutputLeft(w) ==
  IF OutEmpty(w) THEN free_output_buffer_header([w EXCEPT !.out.bits = {}]) ELSE w
OutFlushed(w) ==
  IF "outDis" \in w.pend /\ OutEmpty(w)
  THEN OutDisabled([w EXCEPT !.pend = @ \ {"outDis"}]) ELSE w
FreeOutput(w, i) ==
  OutFlushed(NoOutputLeft(
    color_convert_free_output_buffer([w EXCEPT !.out.bits = @ \ {i}], i)))
MayFree(w, port) ==
  \/ w.state = "Idle" /\ "loading" \in w.pend
  \/ port = "out" /\ ~w.outEnabled
  \/ w.state \notin {"Executing", "Pause"}
free_buffer(w, port, i) == Unloaded(IF port = "inp" THEN FreeInput(w, i) ELSE FreeOutput(w, i))
-------------------------------------------------------------------------------
(* set_parameter, one operator for each index.                             *)
MaySet(w) == w.state = "Loaded" \/ "outEn" \in w.pend \/ ~w.outEnabled
SetOutputPort(w, o) ==
  Then(update_color_format(w, o.format), LAMBDA v :
    LET count == MinOut + o.more
    IN IF v.cc.on /\ ~v.cc.open THEN No(v)
       ELSE IF v.smooth /\ v.kind.secure /\ count > v.op.count + 2 THEN No(v)
       ELSE set_buffer_req([v EXCEPT !.op = [count |-> count,
                              size |-> ClientSize(v) + o.bigger * Alignment]], "op"))
SetInputPort(w, o) ==
  IF o.res # w.res
  THEN Then(SetPicres([w EXCEPT !.res = IF w.smooth /\ o.res < w.smoothRes
                                        THEN w.smoothRes ELSE o.res]),
            LAMBDA v : get_buffer_req(v, "op"))
  ELSE set_buffer_req([w EXCEPT !.ip.count = MinIn + o.more], "ip")
SetFramePacking(w, o) == IF w.kind.secure THEN No(w) ELSE Yes([w EXCEPT !.arb = o.on])
SetPictureOrder(w, o) ==
  LET v == [w EXCEPT !.reorder = @ /\ o.order # "decode", !.order = o.order]
  IN IF o.order = w.order THEN Yes(v)
     ELSE Call(v, LAMBDA u : [u EXCEPT !.drv.order = u.order])
SetExtraData(w, o) == IF w.kind.secure THEN No(w) ELSE enable_extradata(w, {o.x}, o.on)
(* The driver is asked also when enable_extradata failed.                  *)
DriverAnswer(r) == LET s == Call(r.w, Quiet) IN [ok |-> r.ok /\ s.ok, w |-> s.w]
SetPortDefExtraData(w) ==
  IF w.kind.secure THEN Yes(w)
  ELSE DriverAnswer(enable_extradata(w, {"portdef"}, TRUE))
SetReorder(w, o) ==
  IF w.order = "display" THEN Yes([w EXCEPT !.reorder = o.on])
  ELSE [ok |-> ~o.on, w |-> [w EXCEPT !.reorder = FALSE]]
SetAdaptive(w, o) ==
  Then(Call(w, Quiet), LAMBDA a :
  Then(SetPicres([a EXCEPT !.res = o.res]), LAMBDA b :
  Then(get_buffer_req(b, "op"), LAMBDA c :
       Yes([c EXCEPT !.smooth = TRUE, !.smoothRes = o.res]))))
set_parameter(w, o) ==
  IF w.state = "Invalid" \/ ~MaySet(w) THEN No(w)
  ELSE CASE o.p = "output" -> SetOutputPort(w, o)
         [] o.p = "input" -> SetInputPort(w, o)
         [] o.p = "format" -> update_color_format(w, o.format)
         [] o.p = "packing" -> SetFramePacking(w, o)
         [] o.p = "order" -> SetPictureOrder(w, o)
         [] o.p = "extra" -> SetExtraData(w, o)
         [] o.p = "portdef" -> SetPortDefExtraData(w)
         [] o.p = "syncframe" -> Call(w, Quiet)
         [] o.p = "native" -> Yes([w EXCEPT !.native = TRUE])
         [] o.p = "reorder" -> SetReorder(w, o)
         [] o.p = "adaptive" -> SetAdaptive(w, o)

update_picture_resolution(w) == Call(w, LAMBDA v : [v EXCEPT !.res = v.drv.res])
(* get_parameter(PortDefinition) of the output port asks the driver anew.  *)
update_portdef(w) == Then(update_picture_resolution(w), update_buffer_req)
set_config(w) == IF w.state = "Executing" THEN w ELSE [w EXCEPT !.vendor = TRUE]
-------------------------------------------------------------------------------
(* The driver finds another picture size in the stream.  In a secure       *)
(* session the error of interlaced material is overwritten by the answer   *)
(* of get_buffer_req.                                                      *)
start_port_reconfig(w, interlaced) ==
  Then(update_picture_resolution(w), LAMBDA a :
    LET asked == Call(a, Quiet)
        b == IF interlaced /\ ~a.kind.secure
             THEN [asked.w EXCEPT !.ext = @ \cup {"interlace"}] ELSE asked.w
        req == IF asked.ok THEN get_buffer_req([b EXCEPT !.inReconfig = TRUE], "rc") ELSE asked
    IN [req EXCEPT !.w.smoothRes = IF a.smooth THEN Max({@, a.res}) ELSE @])

(* handle_extradata: at is the place behind the frame where the next entry *)
(* goes.  The driver's terminator has no data, so behind the driver's      *)
(* entries nothing can be appended unless the client does not want them,   *)
(* in which case they are overwritten.                                     *)
NoTail == [want |-> {}, got |-> {}]
AppendExtra(t, x, w) ==
  IF x \in w.ext /\ t.at + ExtraSize[x] < w.len
  THEN [t EXCEPT !.at = @ + ExtraSize[x], !.got = @ \cup {x}] ELSE t
append_terminator_extradata(t, w) ==
  IF t.got = {} THEN {}
  ELSE IF t.at + ExtraSize["frameinfo"] < w.len THEN t.got \cup {"end"} ELSE {}
handle_extradata(w) ==
  LET start == [at |-> w.drv.res * Alignment, got |-> {}]
      all == AppendExtra(AppendExtra(AppendExtra(start, "interlace", w), "frameinfo", w), "portdef", w)
      end == IF w.dext # {} /\ w.ext \cap Mbmap # {} THEN {}
             ELSE append_terminator_extradata(all, w)
      wanted == w.ext \cap (DOMAIN ExtraSize \cup Mbmap)
  IN [want |-> IF wanted = {} THEN {} ELSE wanted \cup {"end"}, got |-> end]
-------------------------------------------------------------------------------
unsecureDisplay(w) == [w EXCEPT !.display = "plain"]
component_deinit(w) ==
  LET out == IF w.out.hdr = 0 THEN w
             ELSE FoldSet(LAMBDA i, v : free_output_buffer(v, i), w, 0 .. w.op.count - 1)
      inp == IF out.inp.hdr = 0 /\ out.heap.hdr = 0 THEN out
             ELSE FoldSet(LAMBDA i, v : free_input_buffer(v, i), out, 0 .. out.ip.count - 1)
      bare == free_output_buffer_header(free_input_buffer_header(inp))
  IN unsecureDisplay([bare EXCEPT !.scratch = FALSE, !.vendor = FALSE, !.drv.open = FALSE,
                                  !.state = "closed"])
-------------------------------------------------------------------------------
(* The client: it sets parameters and fills ports only when the component  *)
(* allows it, frees a port before it fills it again, and gives up after a  *)
(* call that failed.                                                       *)
VARIABLES
  w,     \* the component and its driver
  cl,    \* the client: the buffers it holds, its counters, and whether it gave up
  tail   \* the extradata behind the last frame: wanted, and delivered
vars == <<w, cl, tail>>

Init ==
  /\ \E kind \in Kinds : w = NoWorld(kind)
  /\ cl = [inp |-> {}, out |-> {}, sets |-> 0, rounds |-> 0, gave |-> FALSE]
  /\ tail = NoTail

(* The world of a step, one of whose system calls may fail.                *)
Worlds == {[w EXCEPT !.bad = b] : b \in IF cl.gave THEN {0} ELSE 0 .. MaxCall}
Step(v, c) ==
  /\ w' = [v EXCEPT !.bad = 0, !.ret = MaxCount]
  /\ cl' = [c EXCEPT !.gave = @ \/ v.state = "Invalid"]
  /\ tail' = NoTail
Tried(r, c) == Step(r.w, [c EXCEPT !.gave = @ \/ ~r.ok])
Empty == cl.inp = {} /\ cl.out = {}

Open == w.state = "none" /\ \E v \in Worlds : Tried(component_init(v), cl)
SetParameter ==
  /\ w.state = "Loaded" /\ w.pend = {} /\ Empty /\ ~cl.gave /\ cl.sets < MaxSet
  /\ \E v \in Worlds, o \in Options : Tried(set_parameter(v, o), [cl EXCEPT !.sets = @ + 1])
(* While the output port is disabled its count and size may be changed.    *)
SetDisabledPort ==
  /\ w.state = "Executing" /\ ~w.outEnabled /\ w.pend = {} /\ ~cl.gave /\ cl.sets < MaxSet
  /\ \E v \in Worlds, o \in {p \in Options : p.p = "output"} :
       Tried(set_parameter(v, o), [cl EXCEPT !.sets = @ + 1])
GetParameter ==
  /\ w.state \in {"Loaded", "Executing"} /\ w.out.hdr = 0 /\ ~cl.gave
  /\ \E v \in Worlds : Tried(update_portdef(v), cl)
SetConfig == w.state = "Loaded" /\ ~w.vendor /\ ~cl.gave /\ Step(set_config(w), cl)

GoIdle ==
  /\ w.state = "Loaded" /\ w.pend = {} /\ Empty /\ ~cl.gave /\ cl.rounds < MaxRounds
  /\ Step([w EXCEPT !.pend = {"idle"}], [cl EXCEPT !.rounds = @ + 1])
Filling(port) ==
  /\ ~cl.gave
  /\ \/ "idle" \in w.pend
     \/ port = "out" /\ "outEn" \in w.pend
(* What a call returns: the client holds the buffer.                       *)
Handed(r, port) ==
  Tried(r, [cl EXCEPT ![port] = IF r.ok THEN @ \cup {r.w.ret} ELSE @])
FillInput ==
  /\ Filling("inp") /\ ~InFull(w)
  /\ \E v \in Worlds :
       \/ ~w.used /\ Handed(allocate_buffer(v, "inp"), "inp")
       \/ /\ (cl.inp = {} /\ w.inCnt = 0) \/ w.used
          /\ Handed(use_buffer(v, "inp", v.ip.size), "inp")
FillOutput ==
  /\ Filling("out") /\ ~OutFull(w)
  /\ \E v \in Worlds :
       \/ ~w.egl /\ ~w.native /\ Handed(allocate_buffer(v, "out"), "out")
       \/ w.native /\ ~w.useNative /\ Handed(use_buffer(v, "out", ClientSize(v)), "out")
       \/ /\ w.native /\ (cl.out = {} \/ w.useNative)
          /\ Handed(use_android_native_buffer(v, ClientSize(v)), "out")
       \/ ~w.native /\ (cl.out = {} \/ w.egl) /\ Handed(use_EGL_image(v), "out")
Free_(port) ==
  /\ MayFree(w, port)
  /\ \/ cl.gave
     \/ "loading" \in w.pend
     \/ port = "out" /\ "outDis" \in w.pend
  /\ \E i \in cl[port], v \in Worlds :
       Step(free_buffer(v, port, i), [cl EXCEPT ![port] = @ \ {i}])
FreeIn == Free_("inp")
FreeOut == Free_("out")
GoExecuting == w.state = "Idle" /\ w.pend = {} /\ ~cl.gave /\ Step([w EXCEPT !.state = "Executing"], cl)
LeaveExecuting ==
  /\ w.state = "Executing" /\ (cl.gave \/ (w.pend = {} /\ w.outEnabled))
  /\ Step([w EXCEPT !.state = "Idle", !.pend = {}], cl)
GoLoaded ==
  /\ w.state = "Idle" /\ w.pend = {}
  /\ Step(Unloaded([w EXCEPT !.pend = {"loading"}]), cl)
DisableOutput ==
  /\ w.state = "Executing" /\ w.outEnabled /\ w.pend = {} /\ ~cl.gave
  /\ w.inReconfig
  /\ Step([w EXCEPT !.outEnabled = FALSE, !.pend = {"outDis"}], cl)
EnableOutput ==
  /\ w.state = "Executing" /\ ~w.outEnabled /\ w.pend = {} /\ ~cl.gave
  /\ Step([w EXCEPT !.outEnabled = TRUE, !.pend = {"outEn"}], cl)
Close ==
  /\ w.state \notin {"none", "failed", "closed"} /\ Empty
  /\ (w.state = "Loaded" /\ w.pend = {}) \/ cl.gave
  /\ Step(component_deinit(w), cl)

(* The driver meets another picture size, or returns a frame.              *)
Reconfig ==
  /\ w.state = "Executing" /\ w.outEnabled /\ w.pend = {} /\ ~w.inReconfig /\ ~cl.gave
  /\ cl.rounds < MaxRounds
  /\ \E v \in Worlds, res \in Resolutions \ {w.drv.res}, interlaced \in BOOLEAN :
       \E r \in {start_port_reconfig(Recompute([v EXCEPT !.drv.res = res]), interlaced)} :
          Step(IF r.ok THEN r.w ELSE [r.w EXCEPT !.state = "Invalid"],
               [cl EXCEPT !.rounds = @ + 1])
FrameDone ==
  /\ w.state = "Executing" /\ w.outEnabled /\ w.pend = {} /\ w.out.bits # {} /\ ~w.inReconfig
  /\ tail' = handle_extradata(w)
  /\ UNCHANGED <<w, cl>>
Over == w.state \in {"failed", "closed"} /\ UNCHANGED vars

Next ==
  \/ Open \/ SetParameter \/ SetDisabledPort \/ GetParameter \/ SetConfig \/ GoIdle
  \/ FillInput \/ FillOutput \/ FreeIn \/ FreeOut \/ GoExecuting \/ LeaveExecuting
  \/ GoLoaded \/ DisableOutput \/ EnableOutput \/ Close \/ Reconfig \/ FrameDone \/ Over
Spec == Init /\ [][Next]_vars
-------------------------------------------------------------------------------
(* As long as no call failed, component, client and driver agree.  The     *)
(* buffers the client holds are those whose bits are set and those         *)
(* registered with the driver; the arrays are as long as the count, and    *)
(* with colour conversion every buffer of the driver has its half for the  *)
(* client.  Picture size, requirement and picture order are what the       *)
(* driver was told, and timestamps are reordered only in display order.    *)
DriverAgrees ==
  ~cl.gave =>
    /\ w.out.bits = cl.out /\ w.drv.reg.out = cl.out
    /\ w.inp.bits = cl.inp /\ w.drv.reg.inp = cl.inp
    /\ w.out.hdr # 0 => w.out.hdr = w.op.count
    /\ w.inp.hdr # 0 => w.inp.hdr = w.ip.count
    /\ w.cc.on => w.cc.count = Cardinality(cl.out) /\ Kept(w.cc.mem) = cl.out
    /\ w.drv.open /\ ~w.inReconfig =>
         /\ w.op = w.drv.op /\ w.ip = w.drv.ip /\ w.res = w.drv.res
         /\ w.order = w.drv.order /\ w.dext = w.drv.ext
         /\ w.reorder => w.order = "display"

(* No memory a call handed out is forgotten, whatever call fails later,    *)
(* and a closed component holds none and has released the display          *)
(* (component_deinit, 5970-6103).                                          *)
NothingLost ==
  /\ ~w.lost
  /\ w.state = "closed" =>
       /\ Kept(w.inp.mem) = {} /\ Kept(w.out.mem) = {} /\ Kept(w.cc.mem) = {}
       /\ w.mv = "none" /\ w.desc = {} /\ w.display = "plain"

(* Whatever was enabled, in whatever order, the room behind a frame is     *)
(* enough: every entry the client wants is delivered with its terminator.  *)
(* Concealment maps are the exception (8364: they are dropped).            *)
ExtradataFits == tail.want \cap Mbmap = {} => tail.got = tail.want
===============================================================================
