# TLA+ models of the nozomi device tree

The repository is the Android device tree of the Sony Xperia S ("nozomi", msm8660). Much of it is
configuration and kernel headers; the programs it carries are the hardware abstraction libraries that
Android's services load (lights, audio, display, video codecs) and, under `patch/`, whole source files
of Android that this device replaces: the dynamic linker, the Binder parcel and the NFC stack among
them. They are C and C++ libraries called by several framework threads, with threads of their own and
a kernel driver or a chip on the other side. There are no tests and no design documents; what the code
promises is in its comments and in the interfaces it implements.

This directory holds TLA+ modules that model these libraries, the TLC runs that check them on small
instances, and TLAPS proofs of the results that matter most. `PROJECT.json` maps every definition
to the lines it models and lists runs, hazards, findings and theorems.

    tlc -config VdecInput.cfg MCVdecInput        # one run
    tlapm AudioOffloadProofs.tla                 # one proof module

## 1. Inventory

Each part: the state it keeps, its threads and operations, what is hard, and what correct means.

### Lights HAL — `liblight/lights.c`

State: `g_notification`, `g_battery` (the last request of each), `g_lock`; outside it, fourteen
sysfs attributes (trigger, two delays and brightness of three LED channels, two backlights).
`set_light_battery`, `set_light_notifications`, `set_light_backlight`, `set_light_buttons` are called by
any framework thread. Battery and notification share one RGB LED; a request writes up to twelve
files, and each write may fail unnoticed. Between calls the LED shows the winner of the arbitration; a
lit notification is never disturbed; every call returns.

### Video encoder — `media/mm-video-legacy/vidc/venc`

- *Component* (`omx_video_base.cpp`, `omx_video_encoder.cpp`): the IL state, `m_flags` (the pending
  bits), three event queues, buffer bitmaps, pending counters. The client blocks in `send_command` on a
  semaphore; the async thread posts the driver's messages; the message thread takes an event from
  `m_cmd_q` before `m_ftb_q` before `m_etb_q`. Messages overtake one another, a command is finished
  by answers to several driver calls, a late answer meets the next command, any driver call may fail.
  No buffer is lost or given out twice; Idle and Pause are reported after every buffer is back; every
  command completes.
- *Opaque input* (`mUseProxyColorFormat`): frames in a format the encoder does not know are converted into
  buffers of the component. Two pools rotate through four queues and the device, and a flush runs with
  `m_lock` held. Frames are converted once, in order, and come back.
- *Device* (`video_encoder_device.cpp`, `venc_dev`): a copy of the driver's settings; one `set_parameter` is
  a chain of ioctls any of which may be refused, profile and level are negotiated, and a request for
  the sequence header starts and stops the driver under a timeout. Component, copy and driver agree.

### Video decoder — `media/mm-video-legacy/vidc/vdec`

- *Component* (`omx_vdec.cpp`): as the encoder, but a flush leaves the queues alone until the driver
  acknowledged it, finished frames travel in `m_ftb_q`, the end of a port disable may be deferred, and a
  change of picture size disables, refills and enables the output port.
- *Buffers and parameters* (the same file): slots of both ports with their headers, ION memory, mappings and
  registration with the driver; colour conversion doubles them, native windows and EGL images bring
  their own; extradata is written behind a frame into room that other code has added up. Any system
  call may fail half-way; the client, the component and the driver agree and nothing is lost.
- *Bitstream parsers* (`frameparser.cpp`, `h264_utils.cpp`, `push_input_*`): when the client sends its
  stream cut anywhere, start codes or NAL lengths are found across buffers and frames are put together
  in buffers of the component. The driver gets whole frames, in order, each buffer is in one place and the
  input never waits for what cannot come.

### Audio HAL and audio libraries — `audio/`

- *Offload stream* (`hal/audio_hw.c`): `out->lock`, `pre_lock`, `adev->lock`, two condition variables, and a
  thread that makes the blocking calls on the compress device without the lock. The device outlives
  every call on it, and every call returns.
- *Routing and calls* (`hal/audio_hw.c`, `voice.c`, `msm8660/platform.c`): `usecase_list`,
  `snd_dev_ref_cnt`, mixer paths, mode, call. One stream's switch moves others, an open fails after the
  switch, several devices share a mixer path. Counts, routes and paths agree with the entries in use.
- *Offload effects* (`post_proc`): effects are attached to outputs that come and go and keep a
  pointer to the output's mixer. What the DSP plays is what the effects ask for.
- *Visualizer* (`visualizer`): a capture thread, two mutexes and a condition. A capture is the last samples.
- *Volume listener*, *voice processing*: the calibration level of the loudest stream on the loudspeaker;
  sessions of an input with masks of created, enabled and done effects.

### Display — `display/`

- *Composer* (`libhwcomposer`): SurfaceFlinger calls `prepare`, then `set`. MDPComp decides for every layer
  whether it gets an overlay pipe or is composed by the GPU or copybit; caches decide whether the
  framebuffer is redrawn; the uevent thread writes the external display's flags.
- *Pipes* (`liboverlay`): `configBegin`, `nextPipe`, `commit`, `configDone` over one book for all displays.
  A pipe changes displays only by being destroyed; every layer is shown once, in order, on a pipe that can
  play it; a framebuffer that is not redrawn holds the present content.
- *Copybit* (`libcopybit`): blits are collected and drawn later onto whatever the surfaces then are; a
  thread waits for the GPU and unmaps the buffers. Each blit is drawn as asked for, with its buffers mapped.

### Runtime — `patch/bionic/linker`, `patch/frameworks/native/libs/binder`

- *Linker*: libraries are found, bound, initialised, shared by counted groups and unloaded; init and fini
  functions run inside and may open and close libraries. Counts are users; bindings lead to what is
  loaded and initialised.
- *Parcel* (and the legacy copy of it): a growing block with an index of the objects in it and the
  references and descriptors it holds for them. Each is held once; the index is what reading finds.

### NFC stack — `patch/packages/apps/Nfc`, `patch/external/libnfc-nxp`

The JNI manager makes a request and waits on a semaphore in a frame of its own stack, which a callback
posts from the client thread; below it the library's and the hardware layer's state machines. Opening
fails at once, later or by a dying chip, and two waits time out with the answer still to come.

### Not modelled

Listed with reasons in `PROJECT.json`; see section 6.

## 2. Modules

| Module | Models | State and actions |
|---|---|---|
| `Lights` | `lights.c` | one variable per global and one for the files; a `set_light_*` action takes the mutex and queues its writes, `WriteAttribute` makes the next one (or fails), `Return` unlocks |
| `OmxComponent` | what an IL client may rely on | abstract: state, lent buffers, broken; `OmxVenc` and `OmxVdec` are checked to implement it (`KeepsContract`) |
| `OmxVenc` | encoder commands and frames | one action per event of the message thread, client call and driver message; `send_command_proxy` is split by command and state |
| `VencOpaque` | opaque input of the encoder | one action per event and per iteration of `push_input_buffer`; `pc` says where the message thread is |
| `VencParams` | encoder settings and sequence header | a step of `venc_dev` is a function from (copy, driver) to [ok, (copy, driver)]; a call is an action; the timed header request goes step by step |
| `MCVencInput` | the two above | a behaviour is about one of them |
| `OmxVdec` | decoder commands, frames, reconfiguration | as `OmxVenc` |
| `VdecBuffers` | decoder memory and settings | a client call is an action, a function of the world (component, driver), with the number of the system call that fails |
| `VdecStream` | the parsers and the arbitrary-bytes input | `Scan` is the parser's automaton over a source buffer; one action per message, per client buffer and per driver answer |
| `MCVdecInput` | the two above | a behaviour is about one of them |
| `AudioOffload` | the offload stream | a call is a sequence of steps, one for each place where the thread takes or drops a mutex, sleeps, or touches what another thread reads without it |
| `AudioRouting` | routing and calls | an operation runs with `adev->lock` held and is one action; `select_devices` and what it calls are operators from one record `adev` to the next |
| `OffloadEffects` | `post_proc` | one action per library call, which holds the lock throughout |
| `OffloadVisualizer` | `offload_visualizer.c` | a step holds `lock` from its beginning to its end; the thread waits, reads and is joined without it |
| `VolumeListener`, `VoiceProcessing` | the two libraries | one action per command |
| `AudioLibraries` | routing and the four libraries | they share neither state nor lock: a behaviour is one library's |
| `Overlay` | the pipe book | sets for the use and allocation bits, owner and state of each pipe; also the abstract specification of what the composer may do with it |
| `HwComposer` | `libhwcomposer` | extends `Overlay`, whose actions are conjuncts of its own; `hwc_prepare` takes one step per pipe operation, a display's `set` and each uevent are one step |
| `Copybit` | `copybit_c2d.cpp`, `hwc_copybit.cpp` | a call is one step (it holds `wait_cleanup_lock`) unless it sleeps; the thread goes step by step |
| `Display` | composer and copybit | they share no state: a behaviour is about one of them |
| `Parcel`, `LegacyParcel` | the two classes of `Parcel.cpp` | a call is a function of the world (parcel, references, descriptors, counter) with the number of the allocation that fails |
| `Parcels` | two parcels and a careful user | one action per call |
| `Linker` | `linker.cpp` | `stack` holds the calls in progress, since init and fini functions call back; a step runs up to the next such function |
| `MCRuntime` | parcels and linker | a behaviour is one of either |
| `Hal4Nfc`, `LibNfc` | `phHal4Nfc.c`, `phLibNfc.c` | calls and notifications as functions of a layer's state |
| `NfcTimeouts` | the timeout arithmetic of the JNI manager | functions |
| `NfcManager` | the JNI manager over the three | the concurrency lock is held by one call, which goes step by step; a call of the library and a message are a step each |
| `MC*` | | instances for TLC: which calls, commands, frames, streams, libraries and devices |
| `QueueLemmas` | | lemmas on queues whose entries name buffers, on sequences and on sets; induction over an interval |
| `LightsOpaqueProofs`, `AudioOffloadProofs`, `AudioLibrariesProofs`, `OmxVencProofs`, `OmxVdecProofs`, `DisplayProofs`, `NfcProofs` | | the theorems |

The modules `MCVencInput`, `MCVdecInput`, `AudioLibraries`, `Display` and `MCRuntime` put parts side by side
that do not interact, so that one run has their sum of states and not the product. Where parts do interact
they are composed: `HwComposer` takes the actions of `Overlay`, `NfcManager` calls `LibNfc` and that
`Hal4Nfc`. `OmxVdec` and `VdecBuffers` meet in the calls that fill and empty a port. `OmxVenc` and
`VencOpaque` meet in `m_etb_q`; `AudioOffload` and `AudioRouting` meet in `start_output_stream` and
`stop_output_stream`, which run under `adev->lock` (held as a step in the one, the whole content of an action
in the other).

External parts are modelled from how the code uses them: the codec drivers acknowledge accepted
commands in order and return a port's buffers before they acknowledge a flush or stop; the compress
device has a state and a buffer that is empty, partly filled or full, and unblocks its waiters on stop;
mixer paths are a set of names; SurfaceFlinger marks a list when its layers have changed and draws the
layers left to it; the 2D core draws what was flushed to it; the HCI layer below `Hal4Nfc` answers what it
was asked, or refuses, or falls silent; AudioFlinger disables an effect before it releases it.

## 3. Runs

| Run | Question and result |
|---|---|
| `lights` | Two threads, all four lights, a file that may refuse a write: the LED ends up showing the winner (`LedShowsWinner`), a lit notification is undisturbed even between two writes (`NotificationUndisturbed`). |
| `venc` | Three scenarios: a client that keeps the IL rules; one that sends any command in any state, one after the other, to a device that refuses calls; one whose commands overtake the completion of earlier ones, with submissions in between. `OneOwner` for all; for the first the component implements `OmxComponent` (`KeepsContract`) and every command completes (`CommandCompletes`). |
| `venc_input` | Settings of three encoders with any one ioctl failing, and requests for the header with late answers: `LayersAgree`, `LevelCoversStream`, `HeaderOkMeansStopped`. Opaque frames of every kind with failing calls and flushes: `FramesInOrder`. |
| `opaque_flush` | *Violation.* A flush that meets the EBD of a conversion buffer while a frame waits for it posts an event with `m_lock` held, and the message thread waits for itself. |
| `vdec` | A decoder session with frames in flight, every command and a change of picture size, with a careful and with a rough client and driver: `OneOwner`, `KeepsContract`, `DriverBuffersFit` (the driver decodes only into buffers made for its present requirement), `FlushesEnd`, `CommandCompletes`. |
| `vdec_input` | Sessions with settings, two fillings of the ports, a change of size, and any system call failing: `DriverAgrees`, `NothingLost`, `ExtradataFits`. A stream of each codec cut everywhere, with a flush at any moment: `StreamFramed`. |
| `offload_calls` | A playback thread with every call and a second thread that pauses, resumes and asks for the position, failing opens and writes, streams closed and opened again: `DeviceOutlivesCall`, `FlushIsQuiet`, `CallsReturn`. |
| `offload_lock_order` | *Violation.* `out_standby` sleeps with `adev->lock` held while a routing request of another thread holds `out->lock` and waits for `adev->lock`. |
| `audio_libraries` | Playback, recording and a call moved between speaker, headset and HDMI in every order with failing opens: `RefCountsUsers`, `MixerFollowsUsecases`, `SwitchMovesAll`. Effects created, moved, enabled and given parameters while outputs come and go: `DspFollows`. `CaptureIsLatest`, `GainFollowsVolume` and `MasksFollowEffects` for the other libraries. |
| `display` | Rounds of the primary display with every kind of composition, rounds of two displays with plugging, pausing, blanking and a failing commit: `UsesPipeBook` (the composer implements `OvSpec`), `FrameComplete`. Frames drawn by copybit with a failing call: `BlitsAreRight`, `WaiterServes`. |
| `runtime` | Two parcels of either class, any four calls, a failing allocation: `HeldOnce`, `ObjectsFound`. Any four opens, closes and settings over two file systems, nested in init and fini functions, with failing loads and links: `CountsAreUsers`, `BindingsReady`. |
| `nfc` | Four calls of the service, or of another client of the library, two faults, one event of the chip: `CallbackFindsFrame`, `StackMatchesService`, `WaitAnswered`, `TimeoutHonoured`. |

Each property is stated in a comment at its definition, with its exceptions: where the code is known to
do otherwise (section 5), the property says so instead of being weakened silently.

### Bounds, and why they are enough

- *lights*: two threads (a mutex serialises them), three colours that differ in one channel, in all or are
  black, one flash rate, one file that may fail. The proofs remove every one of these bounds.
- *venc*, *vdec*: one input and one or two output buffers (the code treats the buffers of a port alike; two
  are needed to have one returned and one in flight in the encoder, whose port commands look at counts; the
  decoder needs one of each and two picture sizes). `queued` and `unacked` of a scenario (in the decoder
  `MaxQueued` and `MaxUnacked`) stop the client from making calls while so many events or answers are
  outstanding; messages of the driver are never dropped. The encoder's three scenarios share out what one run
  cannot hold: the careful client has two output buffers and bounds of two; commands that make no sense and
  refused calls come one after the other, with bounds of one; overlapping commands (Idle, Executing, a flush
  of both ports, the output port's enable and disable) with bounds of two, and no call refused. In all of them
  frames are submitted during a flush. The decoder's client sends a command when it is owed nothing.
- *venc_input*: QCIF and 720p, two frame rates (one of them fractional) and two bit rates, which differ in
  level; sequences of three calls, one of the first two of which may fail at any of its first ten ioctls; two
  header requests, so that the answer to the first can meet the second. Two opaque frames and two buffers with
  every kind of frame, one failing call; the flush run has three frames, so that one waits while two buffers
  are busy.
- *vdec_input*: an AVC component (which has motion vectors and every extradata) and a secure one with smooth
  streaming; counts of one or two, so that a slot can be the last; up to two settings and two rounds of
  allocation, the second after a change of size; any of the first six system calls of a call fails. Streams of
  four to six units with bodies of up to three bytes, which contain the zeros a start code may begin with and
  units without a body; chunks from one byte to eleven put every cut at every place of a start code; two
  buffers on either side, so that one waits while the other is used.
- *offload*: two framework threads, one command waiting beside EXIT (`MaxCmds`): the thread runs one at a time
  and `out_flush`/`out_standby` depend only on the one it is in. A client is not stopped in the middle of a
  call by the bound; it does not start one that would exceed it.
- *audio_libraries*: the streams that interact (`LOW_LATENCY`, which drives a call, and `MULTI_CH`, which can
  only go to HDMI by `config/audio_policy.conf`), one output device of each kind, two input devices, two
  sources. Effects: each kind alone, and the pair that shares code paths, on two outputs; the capture buffer
  has five samples and periods of three, so that captures wrap in every way; two streams with five volumes,
  one of them below the table.
- *display*: the device's two RGB and two VG pipes and its four pipes per mixer. Up to three layers: with a
  base pipe and the framebuffer they need more pipes than there are. One commit may fail in a round, which is
  enough to have the fall-back run on released pipes. Copybit: two surfaces of a kind and lists of three
  blits, so that both limits are reached; one failing call.
- *runtime*: parcels of up to six words, of which an object takes two, so that growing, cutting and the search
  for an object meet objects at both ends; only one of the two is written to by every call. Linker: a diamond
  with a cycle and a weak reference, and a file system with two libraries of one soname, versions, a global
  library, a symbolic one, one that cannot be bound and one that cannot be loaded; one of the first three
  loads or links fails by itself.
- *nfc*: opening takes one call, so four calls reach every pair of calls after it and the closing; two faults
  make an answer late after a failure; one event meets each of the waits.

Deadlock checking is off where the client may stop making calls, the call budget ends, or the message
thread locks itself up (`venc`, `venc_input`, `opaque_flush`, `vdec`, `nfc`, `runtime`); elsewhere TLC
checks it, and `StreamFramed` says in `vdec_input` that a waiting source finds an answer on its way.

### Fairness

- `Lights`: the thread that holds `g_lock` goes on (weak fairness of its next write and of its return).
- `OmxVenc`, `OmxVdec`: the message thread runs, the driver answers what it accepted and finishes the buffers
  it has (in the encoder those of each port by themselves), and the client does its part of a command it sent
  (allocates or frees the buffers that the command waits for). A careful client of the encoder submits nothing
  while its state or a port changes. Nothing is assumed of the client beyond that, and nothing is claimed of a
  client or a driver that breaks the rules.
- `VencOpaque`: the message thread runs and the device finishes its frames; `opaque_flush` is a behaviour in
  which they do.
- `AudioOffload`: each thread goes on when it can (weak fairness). `pre_lock`, and `out->lock` at the end of
  `pthread_cond_wait`, are contended by several threads that may retake them at once; a thread that asks gets
  them in the end (strong fairness). For `out->lock` in `lock_output_stream` weak fairness suffices because
  only the holder of `pre_lock` asks for it: this is what `pre_lock` is for (`audio_hw.h:128`), and without it
  `CallsReturn` fails. The device plays what it has, and a device call that can return again and again does.
- The other modules have safety properties only and assume no fairness. Where waiting is the question
  (`VdecStream`, `NfcManager`, `Copybit`) an invariant says that whatever is waited for is on its way:
  `InputMoves`, `WaitAnswered`, `WaiterServes`.

## 4. Proofs

TLAPS checks these for every value of the constants that satisfies the modules' assumptions.

- **`LightsOpaqueProofs`**, two unrelated parts in one module. The lights HAL (assumption: colours are bytes,
  flash delays naturals, `NoThread` is not a thread): `Typing`; `LedCorrect` (`LedShowsWinner`) and
  `NotificationSafe` (`NotificationUndisturbed`). `LedShowsWinner` is not inductive, since it says nothing
  during a call. The invariant `Progress` says what is true half-way: the first `pos - 1` writes of a call on
  the LED are in effect, all of them are during other calls, and a battery call under a lit notification is
  about to write what is already there. The lemma `SharedWrites` (a call writes no file twice) is what keeps a
  later write from undoing an earlier one. `BrightnessIsAByte`: the weights of `rgb_to_brightness` add up to
  256, so the LCD driver is given a byte whatever the colour. The opaque input of the encoder (assumption:
  finitely many frames and buffers): `FramesKeepOrder` (`FramesInOrder`). The proof counts places: each action
  takes a frame from one place and puts it in another, so the count over all places stays, whatever the queues
  hold. For the order the invariant (`FramesInv`) adds that no frame waits in `m_opq_meta_q` behind an empty
  `psource_frame` until a call fails; without it a frame just sent would overtake those behind. Every refill
  of `psource_frame` is there to keep this true. After a failure it is false, and the order is lost. Counting
  and choosing from a sequence are lemmas of the module, proved by induction over sequences that grow
  (`GrownSequences`).
- **`AudioOffloadProofs`** (assumption: the offload thread is none of the clients; any number of threads,
  making any calls, with any failures). `Typing`, `DeviceSafe` (`DeviceOutlivesCall`) and `FlushQuiet`
  (`FlushIsQuiet`: the call the offload thread is in, not the commands that wait). The invariant `IInv` adds
  that whoever is at a place that needs `out->lock` holds it (`Mutex`), that `offload_thread_blocked` tells
  whether the offload thread is in a command (`BlockedIsCommand`: what `stop_compressed_output_l` relies on
  when it decides to wait). One proof step per action.
- **`DisplayProofs`** (assumption: the numbers of pipes are naturals). `BookSound` (`OvInv`), `RoundsClean`
  (`RoundLeavesUsedOpen`), `PipesHandedOver` (`HandOver`) and `UsedPipesKept` (`OnlyUnusedTaken`). The early
  return of `configDone` is what makes the invariant necessary: it is harmless only because an open pipe was
  used in this round or the last (`OpenIsRecent`) and the saved use bits are those of the last round whenever
  none is under way (`Saved`). `ComposerUsesPipeBook` is the refinement: every step of the composer is a step
  of `Overlay` or leaves the book alone, so these theorems speak of `libhwcomposer`. It needs an invariant of
  its own (`WorkInv`): what `hwc_prepare` has still to do names pipes and displays of the right kind, and
  `configDone` is called only where the book expects it. `FramesComplete` (`FrameComplete`; assumption:
  `ComposerAssumption`, the layers' flags agree as `isSupported` makes them) is about the frames themselves,
  for any layer lists and number of failing commits: a frame MDPComp composes is set with exactly the pipes
  the round used for the display, one for each layer that is not in the framebuffer, stacked as the list is,
  and an old framebuffer is shown only while it is right. The invariant (`FrameInv`) accounts for the pipes of
  a frame against the operations `hwc_prepare` has left (`Placed`): what is not to be got any more is
  allocated to the display, what is not to be committed any more is used, and nothing else is. `FbLayersSpan`
  shows that whatever MDPComp chooses leaves one contiguous batch in the framebuffer, which `Stacks` needs.
  `Images` follows the buffer MDPComp remembers from one frame to the next, past rounds in which the primary
  display is off or empty: it stays in step with `mCachedFrame` because every primary frame that is prepared
  is set. `WakeUps` proves `WaiterServes` of `Copybit`: the thread that sleeps, and the closer that waits for
  it, are never forgotten. Its invariant `WaitInv` says what is pending for whoever sleeps; the calls that
  draw are shown to leave exactly the fields the thread looks at (lemmas `*Alike`), and the clips of a stretch
  are a recursive function, whose values are found by induction over an interval. `BlitsStayRight`
  (`BlitsAreRight`) and `BlitsDrawAsAsked` (its first conjunct) let any number of calls fail. Blits are
  collected and drawn later, so the invariant is about the list: a blit that waits is right if it were drawn
  now, its surface is one of those counted so far and its two addresses stay mapped until the list is drawn
  (`Ready`, `Stays`); between the calls no waiting blit reads the temporary source buffer (`Settled`), and all
  go to the present destination while the surface type stays (`Towards`). These are what the six places that
  draw the list early are for. That `mapped_gpu_addr` names every mapping is a count (`CountInv`): the slots
  in use are at most the blits counted and the destinations mapped, since a failing `finish` may leave a
  destination in its slot. A list is drawn as soon as one of the three types reaches its limit, so a stretch
  finds four slots beyond the blits counted: one for its source, three for destinations. Hence this conjunct
  assumes at most three of these (`FewDestinations`), as many as `CopyBit` has render buffers; the run has
  three. `BlitsDrawAsAsked` needs no such bound.
- **`AudioLibrariesProofs`**. `VoiceMasks` (`MasksFollowEffects`): a session's enabled mask is the set of its
  active effects and its processed mask those that have seen the present buffer, also when active effects are
  released and created again. `GainFollows` (`GainFollowsVolume`, for streams on one device each: `OneDevice`,
  which the run's devices satisfy): the level noted is the last the HAL took, and unless it refused what the
  last check asked for that is the level of the loudest active stream: a refused level is not noted, so each
  later check asks again. `CaptureLatest` (`CaptureIsLatest`): what a client captures is the last samples in
  order, wherever the ring wraps, or silence where none came for a second, and the capture thread runs only
  while an output needs it. `DspPlaysEffects` (`DspFollows`): the modules of bass boost, virtualizer and
  equalizer are on where their effects ask for it, and the equalizer has its levels; reverbs and the strengths
  of the first two are left out (section 5). The invariant (`KindRight`, for each kind) adds that the enable
  flag says what the client asked for and whether a loudspeaker holds the effect off (`FlagRight`), that the
  module of an effect without a preset is off (`Told`), and that a module whose effect is elsewhere is off
  (`Absent`). A call touches one kind (`Touches`), so each call is shown to keep its own kind right and
  `OthersStay` does the rest.
- **`QueueLemmas`, `OmxVencProofs`, `OmxVdecProofs`** (assumption: finitely many buffers; any commands,
  failures and sizes). `VencOneOwner` and `VdecOneOwner` (`OneOwner`): no buffer is in two places, and none is
  lost before an error was reported. The encoder's holds for every scenario, thus with commands that overlap
  and submissions at any time. The invariant says of which buffers the queues speak (`Once`, `NamedIn`: a set
  for a queue) and that these sets, what the client holds and what the driver holds do not meet (`Shared`).
  `VencKeepsContract` is the refinement of `OmxComponent` by the encoder: it reports Idle or Loaded only with
  every buffer given back (`OmxComponent` asks nothing of Pause). It speaks of the careful client, and needs
  the whole protocol: at most one request of the client is on its way, as a command, a pending bit, a driver
  command, a driver answer or an event (`OneRequest`, `InStep`); the driver's calls are answered in order
  (`Ordered`); and while a request to stop is on its way nothing new is lent (`Lending`). `VdecKeepsContract`
  is the same for the decoder, whose invariant `Contract` is another one, since its queues wait for the
  driver's acknowledgement: a port whose flush has ended has lent nothing that is still on its way out
  (`Lending`), the driver is asked to stop once, after every flush (`Stopping`), and a flush of the client's
  is not over before the client is told (`Flushing`). It holds for the rough client and driver too.
  `VdecBuffersFit` (`DriverBuffersFit`) and `VdecFlushesEnd` (`FlushesEnd`) are about the two halves of a port
  disable, the client's last free and the end of the flush, which come in either order. Their invariant adds
  to `Contract` that a disable under way is the one command the client waits for and shuts the port
  (`Closing`), that a posted end finds the port without buffers and no request for a state pending (`Closed`),
  that a deferred end has a flush to wait for (`DeferredEnd`), which flush of the output port is under way
  (`FlushKnown`), and that the output buffers have the size in `op_buf`, which the driver was told (`Made`).
  They assume `OneAtATime`: no command disables both ports at once, as in the run. The hypothesis is needed:
  with that command TLC finds `FlushesEnd` violated (section 5, decoder). The settings of `VencParams` (the
  same module; assumptions: the three codecs, naturals as bounds; any frame sizes, rates and counts, any ioctl
  that fails). `LayersStayTrue` (`LayersAgree`) and `LevelsCover` (`LevelCoversStream`) share the invariant
  `SettingsInv`. The picture size may differ after a refused `SET_BASE_CFG`, until one succeeds. `LayersAgree`
  is not inductive by itself: that a level which is set is the driver's survives a new profile only because
  `venc_set_profile_level` sets the profile first (`Agree`), and that a stopped driver holds no reconstruction
  buffer needs which ones a running one holds (`Holding`). A call is a chain of ioctls that may break off at
  each; so every function of `venc_dev` has a lemma that says what its outcome keeps, complete or not (`Fine`;
  `Still` if the stream is left alone), and `ThenFine` composes them. Every call is then one lemma.
  `HeadersAnswered` (`HeaderOkMeansStopped`) needs that the flag of STOP is up only while a signal for it
  cannot be an old one (`StopFlag`), and that a START still in the pipe is its last message (`StartsLast`).
- **`NfcProofs`**. Three invariants of the manager over the whole stack, with the client's messages, the
  library's callbacks and the hardware layer's answers in any order, any number of service calls, faults and
  chip events: `CallbacksFindTheirFrames` (`CallbackFindsFrame`), `StackAlwaysMatchesService`
  (`StackMatchesService`) and `WaitsAreAnswered` (`WaitAnswered`). Assumption: `ConstantsAssumption` (frame
  numbers are positive, a message is told from a list). The invariant is `Inv` (`StackInvariant`). None of the
  three is inductive: that a wait is answered says nothing of an answer that comes late, or of the frame that
  a call left behind when it gave up. `Inv` adds the phases library and hardware layer are in together
  (`Shut`, `Refused`, `Opens`, `Idle`, `Asked`, `Downloading`, `Closing`, `Broken`); for every place the
  locked call can stand, the phase, the frames and the semaphores that belong to it (`PcOk`); and what another
  program that uses the library may hold (`ToolOk`). The proof goes message by message: `Turned` says what one
  message does, `Aloof` what leaves the calls alone, `Survives` and `Dies` how a step may end. After an abort
  only the frames are still spoken of, as in the run. `Timeout` (`TimeoutHonoured`): what the chip and the
  shared time-out keep is never shorter than what was asked for, in any sequence of settings and resets.

Only model-checked: every liveness property (fairness and `ENABLED` are outside the prover's reach), and the
invariants of the modules not named above. Modules that declare a RECURSIVE operator cannot be proved about
(`VdecStream`, `Linker`); `Parcel` and `AudioRouting` compute with folds, which the prover cannot unfold.
Where a recursion over data is a recursive function (`Others` of the codecs, `Clips` of `Copybit`), its values
are found by the lemma `Induction` of `QueueLemmas`, which speaks of a set and needs no operator parameter.
What `Scan` of `VdecStream` computes stays with TLC, which compares it with the borders of the whole stream in
`FramesWhole`.

## 5. Findings

1. `opaque_flush` — `execute_input_flush` holds the non-recursive `m_lock` while a handler it calls posts an
   event, which locks it again; the flush announced at `omx_video_base.cpp:1393` does not end.
2. `offload_lock_order` — `out_standby` waits for the offload thread with `adev->lock` held and retakes
   `out->lock`, against the order stated at `audio_hw.h:292`; with a routing request of another thread
   all three wait for ever.

### Seen while modelling

What follows was seen in the code and is in the models as the code has it, or is excluded by an assumption
that is named; no run reports it. Numbers are lines of the file in the heading.

**Encoder** (`omx_video_base.cpp`). The late answer to the stop of `free_buffer` completes a later request
for Idle before buffers are allocated (637, against the comment at 814). Idle is granted to
WaitForResources without buffers (1113). A refused frame keeps the state and is subtracted from the
pending counters twice (3478). The end of an input flush may be reported before EBDs that wait in
`m_etb_q` (493); and as `m_cmd_q` and `m_ftb_q` come first, a fast stream of output buffers can keep them
there for ever. `dev_flush`'s result is ignored (1319), as is a full queue in `post_event` (1466); the bit of a
slot is set before the last call that may fail (2957); `m_flags` is changed by two threads without a
lock (3022), and callbacks run with `m_lock` held (1396). Opaque: a refused `dev_use_buf` duplicates the
conversion buffer (4703); after a failed conversion a frame overtakes the queued ones (4632); EOS with
contents uses an uninitialised `Input_pmem_info` (4763); a second allocation finds a stale queue (2513).

**Encoder device** (`video_encoder_device.cpp`). The copy takes a picture size before `SET_BASE_CFG` and keeps
it when that is refused (574, 1119); a level chosen then is chosen for it. A failing slice delivery returns an
OMX error as a boolean (979); error resilience compares the driver's codec with OMX enums; `mb_per_frame *
fps_num` wraps for a fractional rate of a large frame, and the level is then too low (2873;
`LevelCoversStream` assumes `NoWrap`); metadata mode resets the frame rate; a failed start leaks
reconstruction buffers; a failed `venc_open` leaves the file; a header request that timed out leaves the
driver started; a start sends its ioctl before it locks the mutex, and then waits without a predicate (394),
so an answer that comes first costs the timeout.

**Decoder** (`omx_vdec.cpp`). Disabling both ports at once while executing: the event of the input port
during the output flush is deferred as the output port's, and the end of that flush reports the output port
disabled while the client still has buffers of it (709, 926; the runs leave the command out).
A port disable in WaitForResources, or without buffers, never completes; a refused flush is never answered;
2117 compares the state with a disjunction of states.

**Decoder buffers** (the same file). A refused `SET_BUFFER` leaves memory that freeing the headers loses, a
refused `SET_H264_MV_BUFFER` leaks; a failing conversion buffer leaves its driver half registered; freeing a
converted slot other than the last and allocating again reuses one that a client has; `m_in_alloc_cnt` is
never reset (4346, 7721); `UseBuffer` on the output port without native, PMEM or EGL memory dereferences
NULL when freed (4583); disabling the last extradata subtracts the header after the alignment (8504); the
terminator is checked with the size of another header (8432), and a driver terminator without data
drops the concealment map (8364); parameters may be set while buffers are partly allocated; a failed
secure start sends its START and never the END; in a reconfiguration the old size is reported (7990).

**Decoder input** (the same file, `frameparser.cpp`). When H.264's end of stream comes with data, 7434-7446
push the frame before the last without clearing the flag; `empty_this_buffer_proxy` then resets `h264_scratch`
(5773), so the last frame is lost and the end is told a frame early, against the comment at 7440 ("The
resulting EBD would trigger another push"). `VdecStream`'s client sends it in a buffer of its own. With NAL
lengths an empty last buffer makes the parser return an error and the component invalid (538). After an end of
stream without a flush `frame_count` is 1 (7183), so the next start code gives the empty destination back
(7155), and if the driver holds nothing the source waits for ever. `codec_config_flag` makes a flush keep the
parser's state (2413). A flush before the first VC-1 frame loses the vendor's configuration (7518); the check
of a VC-1 start code is a test for non-zero (7533). An access unit delimiter, and a header first seen after a
picture, stay with the frame before.

**Audio HAL** (`hal/audio_hw.c`). The offload thread is created before the stream's mutexes are initialised
(2206); a refused stream is freed with its thread running (2271); `offload_state` is reset without the mutex
(913); a flush leaves commands (897); a race on `send_new_metadata` (969); a first write that fails is never
started (1649). `select_devices` gives every playback stream a call's codec device (625), also one routed to
HDMI, which is then left behind when the call moves, although `msm8660/platform.h:21` says that any one
codec device can be enabled at a time; `in_call` stays set after a failed start of a call (`voice.c:230`);
`adev_close_output_stream` leaves `primary_output` dangling (2332); the use-case check looks at started
streams only (2278).

**Effects** (`audio/post_proc`, `visualizer`, `voice_processing`). Bass boost and virtualizer: a strength set
while there is no output, held off by the loudspeaker and started, is not sent when the headset comes
(`bass_boost.c:166`). INIT of an active effect clears the flag; `reverb_enable` never sends it and
`reverb_set_preset` sends it for a disabled effect; an active effect that is released leaves the DSP on.
`volume_listener.c`: malformed calls return with the lock held (385, 394, 418); a volume below the table keeps
the stale level (257); after the last stream the level stays; the loudspeaker is compared with `==` in one
place and `&` in another. `offload_visualizer.c`: a stalled capture that wraps is not silent as the comment at
852 has it: its first piece keeps the old samples and the clearing runs as far past the reply (861); and only
the first one is cleared, since the time stamp goes with it; with offload off a capture leaves the reply as it
was (822). A failing `pcm_open` makes the thread spin with the lock held (355); a failing `mixer_open` ends
it.

**Display.** `hwc.cpp:412`: `hwc_set_external` tests `isPause` again after `prepare` passed the paused display
over; with a RESUME in between it queues a buffer to a destroyed pipe, which `overlay.h:156` asserts never
to happen (`HwComposer` has the step). `hwc_uevents.cpp:123` deletes `mMDPComp` without a lock while
`hwc_prepare_external` may be about to call it. A pipe allocated and not committed stays with its display
when the use bits are those of the last round; a display that is unplugged while configuring leaves
`mExtDispConfiguring` set; after a failed commit the pipes already committed stay in use without a buffer.
`copybit_c2d.cpp`: a list that is full in the middle of a stretch is drawn and all unmapped, and the
stretch's other clips use unmapped addresses (1380); a failing `finish` keeps list, mappings and counts, and
at the limit the next stretch writes past the arrays (no failure is injected there); the state of a failing
stretch goes into the next layer's; plane alpha 0 disables blending (1434); a failed allocation keeps its new
size; closing while the thread is at its loop head leaves the mappings of a pending time stamp.

**Parcel** (`Parcel.cpp`). `restartWrite` reallocates before the objects are released (1710) and does not
count a first allocation (1718); truncation does not update `mObjectsCapacity` (1836); `setDataSize` through
an object keeps its index entry (1759); `growData` uses `mDataSize`, so that a write behind it may be cut
(1691); a write into received memory is made in the driver's mapping; descriptors copied into a received
parcel are closed by two; the legacy class never closes those it owns. `readNativeHandle` closes what it has
not initialised (1380).

**Linker** (`linker.cpp`). A failing open whose root is RTLD_GLOBAL or NODELETE leaves its libraries loaded
and unconstructed (1570; the model stops there: `life` is "wedged"); such libraries inside another group
are freed with it; in a diamond a fini may run after that of what it needs; a fini that opens a library of the
group that is leaving gets a handle that is freed (excluded).

**NFC** (`com_android_nfc_NativeNfcManager.cpp`, `phLibNfc.c`, `phHal4Nfc.c`). After a timed-out deinitialize
or download the late callback writes a frame that is gone (1808, 164); a failed initialize leaves the
driver configured without a client thread, so that the next one waits for ever (640, 344); the flag `running` is
shared by the old and the new thread and nothing joins the old one (90; excluded); a download while off
leaves its thread (2408), and one error path unlocks what it has not locked (2332). A synchronous failure of
`phHal4Nfc_Open` leaves its context (447); a self test that ends in NFC_NOTIFY_ERROR is never reported (1093);
with some firmware libraries missing a download after closing always fails (127); a maximal NFC-A timeout can
shrink through the shared one of another technology.

## 6. Not modelled

- *Data without influence on the control*: volumes, mute, calibration, sample formats, crops and positions,
  fences, pixel formats, contents of tags and messages, time stamps of the decoder and its SEI and VUI.
- *Audio*: the telephony AFE-proxy streams (not offered by the audio policy), the extensions behind
  `AUDIO_FEATURE_*` flags (not built for this board), a blocking offload client, peak and RMS of the
  visualizer.
- *Encoder and decoder*: client callbacks that re-enter the component, a second allocation of the encoder's
  opaque buffers, tunnelling, PMEM output, a destination buffer of the parser that is too small. In `OmxVenc`
  and `OmxVdec` a client call is one step although it shares `m_flags` with the message thread without a lock.
- *Display*: the rotator, the virtual display, the idle invalidator (disabled by `system.prop`), the one-time
  set-up of the base pipe, gralloc, the services. The external display's composer is not deleted while it is
  in use (the code does not prevent it, and what happens then is undefined).
- *Runtime*: `ANDROID_DLEXT_FORCE_LOAD`, RELRO sharing, ifunc resolvers, self-relocation, zip archives; a
  parcel's user writes objects at its end and cuts between them.
- *NFC*: the layers below the hardware layer and the library's other files, Java's exceptions.
- *The rest of* `patch/` (hwui, Bluetooth, Looper and others): third-party files whose local changes are
  small. Scripts, headers and configuration have no behaviour of their own to check.

## 7. Plan

1. Proofs: the buffer books of `VdecBuffers`, whose calls are chains of steps as those of `VencParams` are.
2. Models that would follow: rotator sessions in `Overlay`, gralloc's handles, Looper.
