# TLA+ models of the Odys Space hardware abstraction layers

The repository is the CyanogenMod device tree of the Odys Space, an MSM7227 phone. Besides
configuration it holds the C++ libraries between Android and the kernel drivers: memory for
graphics buffers and the page-flipping display (`libgralloc`), the radio interface layer
(`libril`), the camera (`libcamera`), audio (`libaudio`), the blitter (`libcopybit`) and the
sensors (`libsensors`). The modules in this directory model the parts of them that share state
between threads, TLC checks the models on small instances, and TLAPS proves the main results
for all values of the constants.

## 1. Inventory

### gralloc: best-fit allocator (`libgralloc/allocator.cpp`)
*State*: the doubly linked chunk list `mList` (start, size, free, previous and next), `mHeapSize`.
*Operations*: `setSize`, `allocate`, `deallocate`, each under `mLock`; `alloc` splits a chunk in
up to three, `dealloc` merges it with free neighbours. *Hard*: long sequences of calls of mixed
sizes; sizes that are no multiple of a page. *Correct when*: the chunks partition the heap, free
neighbours are merged, buffers begin at a page, the smallest chunk that fits is taken.

### gralloc: userspace pmem allocator (`libgralloc/pmemalloc.cpp`)
*State*: the master descriptor (not yet made, open, or an error kept for good), the allocator
above, one sub-heap per buffer. *Operations*: `init_pmem_area` (once), `alloc_pmem_buffer`,
`free_pmem_buffer`. *Interacts* with the allocator and with `/dev/pmem`. *Hard*: only the
initialisation and the allocator's methods are atomic, every kernel call between them may fail.
*Correct when*: memory a client can reach belongs to no other buffer, and nothing is lost or
freed twice on an error path. The kernel pmem allocator beside it keeps no state.

### gralloc: buffer locking and mapping (`libgralloc/mapper.cpp`)
*State*: `lockState` (a count, WRITE, MAPPED), `writeOwner`, the flush flag, `base` of a handle;
`sMapLock`. *Operations*: register, unregister, lock, unlock, by any thread. *Hard*: `lockState`
is changed by compare-and-swap loops that test values read before. *Correct when*: a writer is
alone, the word agrees with the holders, a buffer is mapped once and its users get its address,
what the CPU wrote is flushed before the next user.

### gralloc: page flipping (`libgralloc/framebuffer.cpp`)
*State*: queue `disp` under `qlock`, `avail[2]` each under a lock of its own, `currentBuffer`,
`currentIdx`, the swap interval. *Operations*: `fb_post` (the client's thread), `disp_loop` (a
thread of its own), `fb_setSwapInterval`. *Interacts* with buffer locking: a posted buffer is
locked until its successor is on the display. *Hard*: two condition variables, a trylock, and two
ideas of which index comes before which. *Correct when*: posts return and are shown, indices stay
in step, a buffer on display or queued is not drawn into.

### gralloc: framebuffer handles (`libgralloc/gpu.cpp`, `mapFrameBufferLocked`)
*State*: `bufferMask`, `numBuffers`, the framebuffer's own handle. *Operations*: allocate (under
the module's lock) and free (without it). *Correct when*: no two handles share a slot.

### RIL: requests and the command socket (`libril/ril.cpp`)
*State*: `s_fdCommand`, `s_pendingRequests`, the listen and command events, `s_writeMutex`.
*Operations*: accept a client, read and dispatch requests, cancel on close, `RIL_onRequestComplete`
and `RIL_onUnsolicitedResponse` from any thread, the debug port. *Hard*: clients that disconnect
and reconnect while requests are under way, failing writes, `s_fdCommand` read without a lock.
*Correct when*: answers go to the client that asked, packets are not mixed, and the loop always
serves a client or listens for one.

### RIL: wake lock of unsolicited messages (`libril/ril.cpp`)
*State*: the wake lock, `s_last_wake_timeout_info`, one heap block per timer. *Operations*: grab,
send, cancel the timer before, arm a new one; the timer's callback. *Hard*: pointer and block are
shared by vendor threads and the dispatch thread without a lock. *Correct when*: the lock is
always released in the end, and no block is used after it is freed.

### RIL: event loop (`libril/ril_event.cpp`)
*State*: the watch table and `nfds`, the sorted timer list, the pending list, under `listMutex`.
*Operations*: add, delete, timer add and delete, the loop around `select`. *Hard*: events that
delete or add events from their callbacks, timers deleted by other threads.

### Other parts of the RIL
Start-up (`RIL_startEventLoop`, `RIL_register`), the kept NITZ message (freed and replaced by two
threads), and marshalling (conversion between parcels and structures, without state).

### Camera: threads and life cycle (`libcamera/QualcommCameraHardware.cpp`)
*State*: for each of the frame, autofocus, snapshot and encoder threads a running flag with a lock
and a condition; `mCameraRunning`, `mPreviewInitialized`, `mInSnapshotMode`, the heaps of frames and
pictures, the enabled messages; a weak singleton with `singleton_releasing`. *Operations*: start and
stop preview and recording, `releaseRecordingFrame`, `takePicture`, `cancelPicture`, `autoFocus`,
`cancelAutoFocus`, enabling and disabling of messages, `release`, `createInstance`. *Interacts* with
its own threads by flags and waits, with the client by callbacks. *Hard*: a flag set after the
thread that clears it is made, waits with `mLock` held, frames that wait for the client, a
destructor racing a new instance. *Correct when*: no two threads of a kind are in the object, a heap
is there for whoever uses it, the driver is asked for no preview during a picture, every wait ends.

### Camera: settings (`libcamera/QualcommCameraHardware.cpp`)
*State*: `mParameters`, what the driver was told, `mBrightness`, `mHJR`, the EXIF table. *Operations*:
`setParameters` (some thirty setters, each of which may refuse, store and tell the driver),
`getParameters` by the client, and the steps of a picture that read the settings. *Hard*: setters that
look at each other's settings, a driver that fails, clients with an old copy. *Correct when*:
settings that exclude each other are not stored together, the driver has what is stored, a picture
tells its own time and place.

### Audio (`libaudio/AudioHardware.cpp`, `AudioPolicyManager.cpp`)
*State*: mode, microphone, TTY, the remembered sound device, the output with its standby, the input
streams with state and descriptor, the filter tables and which of them are on. *Operations*: set mode,
microphone and parameters, route, write and read, standby, open and close inputs. *Interacts* with
the baseband's sound driver, the DSP and the threads of AudioFlinger. *Hard*: `mLock` guards some of
it; a lock given up between a look-up and a removal; driver calls that fail. *Correct when*: the driver
has what the code believes it has, and no thread waits for its own lock. The policy manager chooses
the device of a kind of sound, a pure function.

### Copybit (`libcopybit/copybit.cpp`)
*State*: flags and alpha of the device, and during a stretch the list of up to twelve requests.
*Operations*: open, close, `set_parameter`, `stretch`, `blit`. *Hard*: clipping through rotation,
flips and scale; a list that fills at the last rectangle, or fails half-way. *Correct when*: what was
asked for is drawn, once, and shows the right part of the source.

### Sensors, UsbController, recovery UI, i2c-tools, scripts
The sensors share two fields between `poll` and the control calls. `UsbController` reads and writes
sysfs files, the recovery UI is a table, i2c-tools is vendored, the rest is configuration: there is
nothing in them for a state machine to say.

## 2. Modules

| Module | Models | EXTENDS / INSTANCE |
|---|---|---|
| `BestFitHeap` | `allocator.cpp`, as operators on the sequence of chunks | |
| `PmemUserspace` | `pmemalloc.cpp`, userspace allocator, several threads | EXTENDS `BestFitHeap`, refines `RegionPool` |
| `RegionPool` | abstract: disjoint regions granted and returned | |
| `GrallocLock` | `mapper.cpp`, one handle, several threads | refines `ReadersWriter` |
| `ReadersWriter` | abstract: many readers or one writer | |
| `FbPost` | `fb_post`, `disp_loop`, `fb_setSwapInterval` | |
| `FbAlloc` | framebuffer handles of `gpu.cpp` | |
| `RilRequest` | command socket, requests, responses, debug port | |
| `RilWake` | wake lock, its timers and their blocks | |
| `RilEvent` | `ril_event.cpp`, with its users in `ril.cpp` | |
| `CamState` | the variables of the camera object, its locks as predicates, calls and returns | |
| `CamPreview`, `CamFocus`, `CamSnapshot`, `CamLife` | preview and recording, autofocus, pictures, release and `createInstance`: the calls and the threads they make | EXTENDS `CamState` |
| `Camera` | the four together, fairness, properties | EXTENDS the four |
| `CamSizes` | supported preview, picture and thumbnail sizes, as operators | |
| `CamParams` | `setParameters` and its setters, EXIF tags | EXTENDS `CamSizes` |
| `AudioPolicy` | `getDeviceForStrategy`, as an operator | |
| `AudioFilters` | reading AudioFilter.csv, and what post processing makes of it | |
| `AudioRoute` | the choice of the sound device in `doRouting` | EXTENDS `AudioPolicy`, `AudioFilters` |
| `AudioHardware` | the mixer, binder and record threads | EXTENDS `AudioRoute` |
| `Copybit` | `copybit.cpp` | |
| `PmemUserspaceProofs`, `GrallocLockProofs`, `RilEventProofs`, `CameraProofs`, `CamParamsProofs`, `AudioProofs` | theorems (section 5) | EXTENDS what they are about |
| `DisplayProofs`, `RilRequestProofs` | theorems about `FbPost`, `FbAlloc` and `Copybit`; about `RilRequest` and `RilWake` | EXTENDS them |
| `MC...` | the instance of each module for TLC | |

How the models correspond to the code:

- **BestFitHeap.** The linked list is the sequence of its chunks, `prev` and `next` are the
  neighbours. `Candidates`, `IsBestFit`, `Cut` and `AfterAlloc` are the scan and the splitting of
  `alloc`; `AfterDealloc` is the merge loop of `dealloc`. Sizes are in blocks of 32 bytes as in the
  code, the interface is in bytes.
- **PmemUserspace.** A buffer goes through the stages of the call that works on it. Actions are the
  steps other threads can see: the initialisation (one lock), each method of the allocator (one
  lock), and the kernel calls between, each with its failures. When `init_pmem_area_locked` cannot
  read the heap's size the code keeps an error, and so does the model.
- **GrallocLock.** Each thread's read of `lockState` and its compare-and-swap are two actions, so are
  the store of the owner, the map under `sMapLock`, setting MAPPED, the flush and the return. One
  handle is modelled, in the three kinds the code treats differently (made here, received,
  framebuffer).
- **FbPost.** The actions of `fb_post` and `disp_loop` are the critical sections under `qlock` and
  `avail[i].lock`. Drawing is what a client may do between posts with a buffer that is not locked.
  The interval is changed only between posts, as by the thread that posts. `Habits` is the set of
  interval sets a client may use; `{1}` is the client that never changes it.
- **FbAlloc.** A load and a store of `bufferMask` are two actions, as in the compiled `|=` and
  `&=`. Allocations exclude each other; `free_impl` excludes nobody.
- **RilRequest.** The dispatch thread's position in its loop and callbacks is `loop`; a thread that
  sends has a position of its own, `pc`, because `sendResponseRaw` runs in any thread. A close, the
  clearing of `s_fdCommand` and the cancelling of requests are separate steps. The kernel reuses
  descriptor numbers, so a thread that read `s_fdCommand` before a close writes to whatever
  connection has that number by then.
- **RilWake.** Blocks are addresses malloc may give again once freed. A use of a block that is not
  allocated sets `broken`, after which nothing is claimed.
- **RilEvent.** An event is named by its descriptor, or by the heap block it lies in when it is a
  timer's. The loop's copy of the descriptor set, the read of the first timer, `select`,
  `processTimeouts`, `processReadReadies` and each round of `firePending` are separate actions, as
  each takes `listMutex` or, in `firePending` and the read of the first timer, no lock at all. A
  pointer to a block that is freed becomes `Freed`, and using it ends the run as "crashed". Data
  arrives only while the loop is in `select`: what arrives elsewhere is seen by the next `select`
  and by nothing before it. RilRequest takes one ready event at a time; that loses nothing, since
  the event of the command socket always lies at an index below the debug port's and is served
  first.

- **CamState, CamPreview, CamFocus, CamSnapshot, CamLife, Camera.** A caller's place in a method is
  `pc`; `ret` is where it goes on after `stopPreviewInternal`. A mutex is no variable: who holds it
  follows from where the threads are, and is a predicate (`MLockHeld`, `MAfLockHeld`, ...). Each
  thread has a variable with its stage (`frame`, `af`, `snap`, `jpeg`), which is "born" between
  `pthread_create` and its first step, and a flag as in the code. A wait for a condition is a guard
  where the code loops over the flag and one thread at most can wait, and a stage of its own where it
  does not loop (the wait for a recording frame). Two callers may wait for the end of the snapshot thread,
  `takePicture` with `mLock` and `cancelPicture` without: they are asleep ("takeSleep", "cancelSleep") until
  `SnapEnds` wakes one of them, as `signal` does, and look at the flag again; waits return only when
  signalled. The client is external: it gives back the recording frames it has been given, in
  whatever thread (`ReleaseRecordingFrame` takes no `mLock`), and lets go of the object after `release`.
  The target is `TARGET_MSM7627`, which
  `storeTargetType` stores for this device; code of other targets is left out.
- **CamSizes, CamParams.** `mParameters` is a record, and so is what the driver was told; `lag` holds
  the settings that were stored and did not reach the driver. A call of `setParameters` is one action,
  as all of it runs under `mLock`: it goes through the setters in the code's order, each of which sees
  what those before it stored. A client changes an older copy of the settings (`held`) or a
  fresh one. A picture reads the settings twice (in `initRaw` and, without `mLock`, in
  `native_jpeg_encode`); `setParameters` may come in between. A picture may be taken on the preview of
  the last one or without any, as in `takePicture`. An entry of the EXIF table is a tag and the
  picture it tells of (`of`); most entries point to a static array that the next picture writes over
  (`Rewritten`), so that they tell of that one from then on. `tagged` counts the pictures since the table was
  emptied. The preview is running or not: what its threads do is `CamPreview`'s.
- **AudioPolicy, AudioFilters, AudioRoute, AudioHardware.** A bit mask of devices is a set of names.
  `doRouting` takes `mLock` in `RouteChoose` and gives it up in `RouteStore`; the actions between are
  its uses of the driver, of the microphone's setting and of the post processing. A thread that
  routes has its chosen route in `new`. Threads without the lock run a step between two uses of what
  is shared. `drv` is what the baseband was told last, and `rpcOk` says that its last call worked.
- **Copybit.** One device and one stretch at a time, as the compositor uses it. `NextRect` is a round of
  the loop over the region: clip, carry back to the source, skip what is empty, add to the list, send a
  full list. `Finish` sends what is left. The fields of a rectangle are unsigned of 32 bits, taken
  modulo `Modulus`.

## 3. Runs

Each run is a question put to one module. *States* is the number of distinct states.

| Run | Asks | States |
|---|---|---|
| `MCPmemUserspace` | Does the heap stay a merged partition owned by the buffers, and is the allocator a `RegionPool`, whatever fails? | 216,334 |
| `MCGrallocLock` | Is a writer alone, does the word agree with the holders, is the buffer mapped once and flushed, is it a `ReadersWriter`, is everybody answered? | 255,086 |
| `MCFbPost` | Do the two threads agree on the indices, is the client paced, and does every post return and get shown? | 157,629 |
| `MCFbAlloc` | With one thread, does the mask tell which slots are out? | 314 |
| `MCRilRequest` | Is what is pending the connected client's, does the loop, while it goes on, serve or listen, does every send return? | 357,798 |
| `MCRilRequestBail` | Does the loop go on after every way a connection ends? (no) | |
| `MCRilWake` | Does the wake lock always have somebody who will release it? | 74,999 |
| `MCRilEvent` | Does select sleep past nothing, do timers fire, and in order? | 666,240 |
| `MCCamera` | Do the camera's threads follow each other and find what they use, and does every call return? | 771,672 |
| `MCCamParams` | Are excluding settings never stored together, does the driver have what is stored, is each picture stamped with its own time, and the first of a preview with its own tags only? | 438,182 |
| `MCAudioHardware` | Does the baseband have the device and the microphone setting that are remembered? | 1,469,855 |
| `MCCopybit` | Is what was asked for drawn once, and does each piece show the right part of the source? | 289,824 |

What the less obvious properties of a run say: `HeapIsSound` is `HeapIsTiled` and `NoFragments`;
`MappedForUsers` is `HeldIsMapped` and `MappedOnce`; `QueueAgreed` is `IndicesAlternate` and
`HeadTaken`; `ClientPaced` is `QueueBounded` and `QueuedStaysLocked`; `SlotsAgree` is `MaskAgrees` and
`HandlesApart`; `DriverFollows` is `MicFollowsSwitch` and `RememberedIsSet`. `CallsReturn` names the
four states in which a camera call may wait for ever (section 4) and says there are no others.
What some of them leave open: `ServesOrListens` is about a loop that goes on (one that ended is
`ListensAgain`'s), and a client's socket that a failed write closed counts as watched. `InfosAccounted`
is about blocks lost or freed twice, not about the use of a freed one. `NeverSelfLocked` is about the
destructors that take `mLock`, not about an index that became stale. `ClipExact` is about stretches without a
scale, of whole sources.
The modules up to the RIL's have type invariants (`TypeOK`); those of `PmemUserspace`, `GrallocLock` and
`RilWake` are proved (section 5), and any of them can be added to the run of its module.

**Bounds, and why they are enough.**
- `MCPmemUserspace`: three buffers are the least with which a free chunk lies between two busy ones
  and is merged with both sides; the sizes are below, at and above a page, so that alignment leaves
  gaps, and the heap is not a whole number of pages, as `setSize` rounds it up. The proofs of
  section 5 remove these bounds.
- `MCGrallocLock`: three threads, the fewest with which two compete while a third holds the buffer.
- `MCFbPost`: three buffers, one more than there are indices. `MaxQueue` = 2 stops a client that
  alternates the interval from growing the queue; at interval 1 the queue never gets beyond it.
- `MCFbAlloc`: panels of one to four buffers, and five handles over a run, so that allocation fails
  on a full panel. The small state space is that of one thread and one mask.
- `MCRilRequest`: two requests and two connections, so that a late response finds a later client;
  one vendor thread and the dispatch thread, which sends as well, compete for `s_writeMutex`.
- `MCRilWake`: four messages from two threads and three blocks, so that an address is reused.
- `MCRilEvent`: two timers, one pending behind the other; delays 0 and 1 and a clock that stops at
  `MaxTime` = 2, so that timers are equal, out of order, expired at once, and in the future.
  Timers are armed for times before the last tick only, so that each can expire. The descriptor of
  a client lies above those of the sockets, so that `nfds` falls when it leaves, and the table has
  room for all four events, as it has in the program.
- `MCCamera`: two calls beside `startPreview`, which is free, so that every pair of calls meets every
  thread another call left behind: pictures after pictures, a focus or recording during a preview,
  a release under each. One caller makes the calls that take `mLock`, the other cancels a picture, which
  takes none: take, take, cancel is the least with which two callers wait for one snapshot thread.
  The proofs of section 5 are for any callers and calls. Recording is switched on and off as a message
  (`VIDEO_FRAME`); the others are as in the initial set. The two initial sets of messages make a preview with
  and without recording, and pictures with and without callbacks.
- `MCCamParams`: two calls, since a setter sees no more than the call before and its own, and two
  pictures, on one preview, on two or on none, as the second may find what the first left (the table of
  eleven entries is full after one tag of a second with a location). The two records of `Infos`
  are a sensor with a flash that is the vx6953, and one that is neither. All values of the settings that look at each other
  (effect, white balance, scene, ISO) are there, and for the others one that is accepted or
  one that is not, a frame rate that does not fit in 16 bits among them.
- `MCAudioHardware`: three calls of four threads, so that a route meets another route and a change of
  mode, of the microphone or of the inputs at each of its steps; two states of the policy, in and out of a
  call; a whole filter file and one with a broken line.
- `MCCopybit`: a screen of 4 by 3 pixels, every subset of six rectangles that tile it and the plane around
  it, lists of two requests instead of twelve, so that lists end full, begin anew and stay short;
  every rotation and flip, scales of 1/2, 1 and more than 1, crops, and sources the driver refuses.

**Deadlock** is checked in `MCFbAlloc`, `MCAudioHardware` and `MCCopybit`: when the bound on
calls is reached the audio threads still play, and copybit still opens and closes. In `MCAudioHardware` it
says little, as the mixer alone keeps the system going; there `NeverSelfLocked` is the property about
waiting. Elsewhere the system
may rightly stop: a client that posts no more, clients that all hold a buffer for good, a loop that
ended, a loop in `select` without timers, a camera that was released, or a bound on calls reached.

**Fairness** is stated in each module as `FairSpec`, and claims no more than a scheduler gives:
- `GrallocLock`, `RilWake`, `RilEvent`: a thread that is inside a call goes on (weak fairness of its
  steps). Nobody is obliged to begin a call or to unlock, and `RIL_register` may stop half-way.
- `FbPost`: the posting thread and `disp_loop` run when they wait for nothing. A thread that waits on
  a condition is not helped: it goes on only when it was signalled.
- `RilRequest`: weak fairness of the steps of a send, strong fairness of getting `s_writeMutex`:
  other threads may take the mutex again and again, but do not pass over a waiting thread for ever.
- `RilWake`, `RilEvent`: the dispatch thread serves timers, and time passes.
- `Camera`: a caller inside a call and each of the object's threads go on when they can (weak fairness;
  `mLock` is contended by one caller of the service, so nobody is passed over); the driver delivers,
  as its calls are steps of those threads; the client gives back the recording frames it has; time
  passes for `createInstance`. Nobody is obliged to begin a call.
- `CamParams`, `AudioHardware`, `Copybit` and `FbAlloc` claim nothing that needs fairness.

## 4. Where the code and its comments disagree

`MCRilRequestBail` ends in a violation of what a comment of the repository says: on a "fatal error or
end-of-stream" the loop is to "start listening for new connections again", but `blockingWrite`
closes a descriptor the event loop watches (`ril.cpp:1203`); `select` then fails and
`ril_event_loop` returns.

Other disagreements have a property in their module that no run checks. Each is violated; to see
how, put the property alone into the `.cfg` of its module.

| Property | In | What happens |
|---|---|---|
| `GrabbedBeforeUnlock` | `FbPost` | `disp_loop`'s first flip marks its own index as available, not the one before. At the second post the wait for the buffer before is over at once, and the buffer on display is unlocked before its successor was handed to the driver (`framebuffer.cpp:135-139`, `201-213`). |
| `HeadTaken` (`Spurious = TRUE`) | `FbPost` | The queue is not looked at again after the wait for it (`framebuffer.cpp:115`), so a spurious wake-up pops an empty queue. |
| `HandlesApart` (`Threads <- MCTwo`) | `FbAlloc` | `free_impl` clears a bit of `bufferMask` outside the lock under which `gralloc_alloc_framebuffer_locked` sets one (`gpu.cpp:331`); an update is lost and two handles get one slot. |
| `HandlesMapped` | `FbAlloc` | When `mmap` of the framebuffer fails, the next allocation finds the framebuffer's handle made and hands out addresses in memory that was never mapped. |
| `NoForeignResponse` | `RilRequest` | A completion reads `s_fdCommand` after it tested `cancelled`, without a lock (`ril.cpp:1213`), and may find the next client there. |
| `NotStale` | `RilWake` | `s_last_wake_timeout_info` is tested and written through without a lock, while the dispatch thread frees its block (`ril.cpp:2876`). |
| `OneReleases`, `HeldUntilTimer` | `RilWake` | A timer that is already firing when it is cancelled releases the lock of the message that cancelled it. |
| `NoWaitForCallback` (`CallbackLocks = TRUE`) | `Camera` | `deinitPreview` "DO[es] NOT WAIT" for the frame thread because it may be called from that thread's callback (`QualcommCameraHardware.cpp:2411-2426`), but `initPreview` does wait (line 2326), with `mLock`, for a thread whose callback may want `mLock`. |
| `PreviousReleaseDone` | `Camera` | "Wait until the previous release is done" (line 3354): `singleton_releasing` is set at the end of `release`, so `createInstance` in the middle of a release hands out the instance that is being released. |
| `EveryTagOfThisPicture` | `CamParams` | "Reset the Gps Information" (line 2809) empties the table, but only in a `startPreview` that starts a preview. A second picture without one appends to the first's entries: its altitude is the first's, which was copied; maker and model point to the stack of a thread that is gone; and tags beyond the eleventh are dropped. |
| `ThumbnailSmaller` | `CamParams` | "Thumbnail height should be smaller than Picture height" (line 2486): `initRaw` fits the thumbnail to the picture's size; `setParameters` may store a smaller size before the encoder looks at it, without `mLock`, in the snapshot thread. |
| `CallHeard` | `AudioHardware` | `setMode` forgets the device to "make sure" that the next routing tells the driver (`AudioHardware.cpp:297-299`), without `mLock`: a routing under way remembers its device after that, the next one changes nothing, and the ear piece stays mute in a call. |
| `PostProcOn` | `AudioHardware` | After "enable post processing" (line 1516) nothing may be on: `msm72xx_enable_postproc` takes one feature out of the mask with `mask &= ..._DISABLE`, and each `_DISABLE` is 0 (`AudioHardware.h:52-58`), so all of them go. |

`CallsReturn` holds with four exceptions, each of which is a wait of the camera that may last for ever:
- `ModeLeftSet`: `takePicture` sets `mInSnapshotMode` after it created the thread that clears it
  (`QualcommCameraHardware.cpp:3234`); if the thread is faster, the next `startPreview` waits.
- `EncoderLost`: when the encoder fails, `mJpegThreadRunning` stays set (line 3136), and the snapshot
  thread waits until `release` clears the flag, and with it the next `takePicture` or `cancelPicture`;
  `takePicture` has `mLock`, which `release` needs.
- `SignalLost`: `takePicture` and `cancelPicture` wait for the end of the snapshot thread on one condition,
  and line 3153 signals it once. When `cancelPicture` gets the signal, `takePicture` sleeps on with `mLock`
  held, though the thread is gone; the other way round `cancelPicture` sleeps until another picture ends.
- `ReleaseLost`: `startRecording` clears `mReleasedRecordingFrame`; the frame thread that was about to
  wait for that release waits (line 3592) until recording is stopped.

What else the models contain and the runs steer around:
- A client that alternates the swap interval gets ahead of the display without bound, as a flip
  frees indices that are queued again; hence `ClientPaced` is claimed for interval 1.
- A request of zero bytes gets offset 0 of the heap without a chunk (`allocator.cpp:81`). The
  callers ask for no empty buffers, and `SizesAssumption` says so.
- `firePending` holds a pointer to the next event over a callback, and takes events off
  `pending_list` without `listMutex` (`ril_event.cpp:206-217`); a timer removed by another thread at
  that time is used after it is freed. RilEvent has the case and ends there as "crashed".
- `processTimeouts` says "see if now >= ev->timeout" (`ril_event.cpp:171`) and tests `now > timeout`.
  The model follows the code: a timer fires one unit of the clock after its time.
- Settings whose driver call failed are stored all the same, and `setParameters` reports success
  (`QualcommCameraHardware.cpp:3299`); the frame rate and the brightness are then not sent again as long as
  the client asks for the same value. `lag` in CamParams is the set of such settings, and
  `DriverHasStored` claims nothing of them: it is about what is remembered and not sent again, never
  about what was refused.
- A magnifying stretch skips rectangles so narrow that they come to no source pixel
  (`copybit.cpp:395`): `Covered` claims completeness for the others. The widths it tests with `<= 0` are
  unsigned; an empty clip that should be negative passes. `ClipExact` is about whole sources, as the
  offset of a cropped one is added before the flip (`copybit.cpp:174-193`). An empty destination
  divides by zero (`MULDIV`); `CopybitAssumption` excludes it, as the compositor sends none.
- `doRouting` remembers a device although the driver refused it (`AudioHardware.cpp:1331`), so that it
  is not asked again: `DriverFollows` is about the time after a last call that worked.

## 5. Proofs

TLAPS proves, for every value of the constants, without the bounds of the runs:

- **`PmemUserspaceProofs`**, from `PageAssumption` (a page is a positive multiple of the 32-byte
  block), `HeapAssumption` and `SizesAssumption` (positive sizes), for any set of buffers:
  `TypeCorrect`, `HeapAlwaysSound`, `BusyChunksAlwaysOwned`, `NeverForeignSurface`, `AlwaysBestFit`,
  and `ImplementsPool`: `Spec => PoolSpec`, the refinement of `RegionPool`.
  It begins with lemmas about the list: replacing a run of chunks by others that fill the same place
  keeps a heap a heap (`SpliceKeepsHeap`), `alloc`'s cut fills the place of the chunk it cuts
  (`CutFills`), and both `alloc` and `dealloc` keep the heap, keep free chunks apart and touch no busy
  chunk but the one they are called for. There is no induction over the list: the code's single pass
  over the neighbours is enough because the list was merged before.
  The invariants are not inductive by themselves: that a chunk may be split in place says nothing
  of the buffers, and that memory is nobody else's follows only if busy chunks and buffers match
  one to one. `IInv` therefore adds `HeapInv` (chunks have positive sizes, ascend, tile the heap, no
  two free ones adjoin), `Ownership` (each buffer past the allocator has its chunk, each busy chunk
  a buffer, no two buffers the same offset) and `CallsUnderway` (no call is past the initialisation
  before the heap is there).
  `AlwaysBestFit` is about single steps from such a state: `alloc`'s rounding gives the first page
  boundary of a chunk (`FirstBoundary`), so the chunks it considers are exactly those with room for
  the request at some boundary (`CandidatesHaveRoom`), and it takes a smallest of them.
- **`GrallocLockProofs`**, from `NoThreadAssumption` and a finite set of threads: `TypeCorrect`,
  `WriterAlwaysAlone` and `LockWordAlwaysAgrees`. The count in `lockState` is tied to the number of
  holders by `CountHolders`; that a successful compare-and-swap puts the value of the word itself,
  changed by one, back into it makes one step of one thread a step of the count. `ReadFree` and
  `SwapUnlocks` say what a thread's stale read is still good for, `OwnerRecorded` that the owner test
  of unlock is about the right thread, `Quiet` and `MapsReceived` that no call is under way on a
  handle that is new or gone.
  On this rest `AlwaysMappedForUsers`, `AlwaysFlushedBeforeRelease` and
  `ImplementsLock`: `Spec => LockSpec`, the refinement of `ReadersWriter`, with a second invariant, `JInv`. `MapLockOK` says where `sMapLock` is held; `MappedBit` that no swap takes MAPPED back, so
  what a thread read as mapped is mapped; `MapCount` ties the number of mappings to the bit; `FlagUp` and
  `FlagSet` tie the flush flag to the writer, which the first invariant shows to be alone.
- **`DisplayProofs`**, posting: from `FbPostAssumption`, for any buffers, habits of the client and length of the
  queue: `CurrentAlwaysLocked`, and `QueueAlwaysAgreed` for waits that return only when signalled
  (`~Spurious`; with spurious ones it is false, section 4). That a sequence of any length alternates
  would take an induction; `IInv` says it of neighbours instead, at each place where two indices meet: in
  the queue (`InQueue`), between what was dequeued and the queue (`AtHead`, `InHand`), and at the end,
  where the next is put (`AtEnd`). `ChainAlternates` puts the pieces together.
  `AlwaysClientPaced` has the same hypothesis and is far from inductive: two posts in a row bound the
  queue, not one. `PInv` tells apart the first two posts (`Starting`) and the later ones
  (`Following`): a post of index 0 returns with nothing left to flip, but one of index 1 may return
  with its own flip still to come, since a flip can free index 0 a second time. `Unavailable` says
  which indices a flip has yet to free, and `LastQueued` that the buffer at the end of the queue is the
  one that is locked.
  *Framebuffer handles.* `SlotsAlwaysAgree` is about `FbAlloc`, which shares no state with `fb_post`. Its hypothesis is `OneThread`, as in the run (section 4 has what two threads do); the room on the
  panel and the number of handles are any. `ReadOK` says that what was loaded before an update of the
  mask is still true at the store, `HandlesOK` and `MadeOnce` that the slots that are out are within the
  framebuffer that was made; `FirstFreeIsWithin` counts: a mask with fewer bits than there are buffers
  leaves a slot within the framebuffer free.
  *The blitter.* `AlwaysCovered` and `AlwaysClipExact`, from `CopybitAssumption`: jobs of rectangles of ints
  and images whose sides are non-negative ints, any transform and format; `MAX_DIMENSION`, whose square
  and whose double are below 2^32; and a region iterator that returns rectangles which do not overlap, as
  Android's does. The number of rectangles and the length of the list are any. `CopybitInv` adds to the
  properties that the requests drawn or still in the list match the rectangles returned so far one to
  one, but for empty ones (`Follows`), until a request fails. The other half is arithmetic.
  `LengthIsTrue`: when an empty clip makes a negative length, its field wraps to one that no image which
  was not refused can hold, so what the driver draws is the clip (`DrawsTheArea`).
  `SomethingIsSomething`: unless the stretch magnifies, a clip with a pixel in it has a source pixel, and
  nothing overflows on the way (`ScalesToLength`). `SourceOfClip` gives the source of a piece in
  either orientation, and `SameColumn` that a flip counts the same column from the other edge.
- **`RilRequestProofs`**, from `RilAssumption`, for any vendor threads, blocks of a request and number of
  connections: `TypeCorrect`, `AlwaysCancelledInTime`, `AlwaysServesOrListens`, `AssertionsHold`,
  `NeverInterleaved`. The place of the loop in its callbacks tells which of the two sockets is in the watch
  table (`WatchOK`), and `s_fdCommand` is cleared before the socket leaves it, or, in `debugCallback`,
  after it was closed, when the next `select` fails (`FdOK`). A stream with a header alone belongs to the
  holder of `s_writeMutex`, unless it is closed and nobody writes to it any more.
  `LockAlwaysHasOwner` and `InfosAlwaysAccounted` are about `RilWake`, from no assumption on its constants:
  vendor threads send unsolicited messages beside the answers, and the two share no state. What its invariants lack of being inductive is `ServedIsOut`: the block the dispatch thread
  serves has left the timer list.
- **`RilEventProofs`**, from `EventAssumption`, for any timers, descriptors, threads, delays and sizes of the
  watch table: `EventTypesCorrect`, `SelectAlwaysCovers`, `AlwaysFiredInOrder`. The timer list is sorted and
  names allocated timers only (`TimersOK`); what is in `pending_list` is due, and not after anything in the
  timer list (`PendingOK`); the pointer `firePending` keeps over a callback is the head of the list or known
  to be stale (`WalkOK`); `nfds` is above every descriptor that is watched (`WatchOK`); and what the loop has
  read on its way to `select` is still so unless a byte for the wakeup pipe is on its way (`CalcOK`). The
  place where `ril_timer_add` inserts is the first of those it may be, from the library's `WFMin`.
- **`CameraProofs`**, for any callers, calls and messages: `ThreadsFollowEachOther`,
  `PreviewOutsideSnapshot`, `FocusOnlyOnPreview`. `IInv` says that one caller has `mLock` (`Alone`),
  that a running flag is up exactly while the thread exists (`FlagsOK`), that what a caller found at the end of a
  wait still holds while it has `mLock` (`WaitedOK`), and that `mInSnapshotMode` is set during a
  picture, but for the moment before `takePicture` sets it, in which it has `mLock` (`ModeOK`). The
  action properties follow from the invariant in the state before the step.
  `HeapsStayInUse` has the hypothesis `PictureMsgsTogether`: a client enables the messages for the raw and the
  compressed picture together, as the camera service does. Without it the property is false: with
  `CAMERA_MSG_RAW_IMAGE` alone the heap to display is never made.
- **`CamParamsProofs`**, for any edits of a client, failures of the driver and number of calls:
  `DriverAlwaysHasStored`, `EffectAlwaysNeedsAutoBalance`, `AlwaysStampedAsTaken`. All the setters run in
  one step, so the work is in the lemmas about that step: a white balance is stored only if the effect
  that is stored by then is not a tint (`StoredEffect`), and a setting that is stored and not told to the
  driver is one it has already (`TellsStored`).
  `AlwaysStampedAsTaken` is for any number of pictures and previews in any order.
  `TableOK` says that the table is empty until a picture is tagged, and has entries for the time from then on:
  the first picture's tags fit (`TagsOfPicture`), and what is appended drops nothing that is there
  (`AddTagsIs`). A later picture's own entries may not fit, but it writes over the array the first
  ones point to (`RewrittenIs`), so that the time is its own all the same (`EncodeStamps`).
- **`AudioProofs`**, from `AudioAssumption`, for any binder threads, inputs, policies and files:
  `NobodyLocksItself` and `DriverAlwaysFollows`. `IInv` says where `mLock` is held (`LockOK`), that a
  thread has a chosen route exactly that long (`NewOK`), that the setting it will send is the current
  one (`MicOK`), and that the driver has the remembered device or the one about to be (`DeviceOK`).
  Two lemmas carry most actions: a thread that has not got `mLock` keeps all of it (`ElsewhereKeeps`),
  and one that has it and goes on keeps who routes (`InsideKeeps`).

Only model-checked: everything under fairness (`LockAnswered`, `PostReturns`, `PostsShown`,
`SendReturns`, `SleepsAgain`, `TimerFires`, `CallsReturn`), which is out of the prover's reach.
`ListensAgain` is violated. Every other property of a passing run is a theorem.

## 6. Not modelled, and the plan

Left out for good: the kernel pmem allocator and the module glue (no state of their own),
marshalling in the RIL, the fake sensor, i2c-tools (vendored), `UsbController`, the recovery UI,
scripts and configuration. Inside the modelled parts:
- gralloc: sizes and memory types in `alloc_impl`, the copy of foreign buffers in `fb_post`,
  `fb_setUpdateRect`, opening of the devices.
- camera: the video thread, overlay and 720p recording of other boards, the allocation of the pools
  (a heap is there or not), cropping and zooming of an image, the layout of the ioctls, `dump`, and
  `camera_get_location`, which nothing calls. `native_jpeg_encode` reads the settings in one step, in which
  it also stores three references of the location in `mParameters` without `mLock` (lines 1866, 1883, 1903);
  no property is about these, and no setter reads them. A condition's spurious wake-up is left out.
- audio: volumes, the sizes and rates an input is asked for, dumps, `closeOutputStream` and the
  destructor (the service never calls them), and `checkMicMute`, `checkOutputStandby` and
  `getActiveInput_l`, which nothing calls. The policy's base class is not in the repository.
- logging everywhere.

To come, the most important first:
1. `SensorsPoll`: `poll` beside `activate` and `setDelay` (`sensors.cpp:66`); the kept NITZ
   message (`ril.cpp:2861`) and the start-up of the RIL (`ril.cpp:2493`).
2. The composition of page flipping with buffer locking: the lock `fb_post` takes is GrallocLock's,
   which FbPost has as a count.
