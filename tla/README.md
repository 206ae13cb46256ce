# ADBitFlow in TLA+

ADBitFlow is an EPICS areaDetector driver for cameras behind BitFlow frame
grabbers; the repository also carries the example programs of the BitFlow SDK.
This directory holds TLA+ models of both, TLC configurations that check them on
small instances, and TLAPS proofs about them.

Paths below are relative to the repository; `ADBitFlow.cpp` and `BFFeature.cpp` are
in `src/bitFlowApp/src`, the examples in `src/bitFlowApp/exampleSrc`.

1. [Inventory](#1-inventory)
2. [Modules](#2-modules)
3. [Runs](#3-runs), bounds and fairness
4. [Proofs](#4-proofs)
5. [What the code does that its words do not say](#5-what-the-code-does-that-its-words-do-not-say)
6. [Not modelled](#6-not-modelled)

## 1. Inventory

### The driver

| Part | Where | State | Operations |
|---|---|---|---|
| Constructor | `ADBitFlow.cpp` 80-203 | `numBFBuffers_`, `messageQueueSize_`, the parameters | clamps the sizes, connects, creates parameters, queue and event, launches the threads |
| Connection | 230-306 | `pBoard_`/`hBoard_`, `hDevice_` | opens the board, sets up the circular buffers, opens the GenTL device |
| Wait thread | 313-465 | `waitingForImages`, cached image mode and count, `imagesCollected`, `uniqueId_` | waits for the start event, waits for frames, marks buffers held (Windows), queues them, ends acquisitions |
| Processing threads | 467-672 | `wqe`, `pRaw` of each thread | take a message, allocate an NDArray, copy, give the buffer back, count, deliver, end the acquisition |
| Message queue | `pMsgQ_` | messages of buffer handle and id | blocking `send()` and `receive()` |
| Acquisition control | 739-775 | `ADAcquire`, board and camera | `startCapture`, `stopCapture` |
| Client writes | 674-690 and ADGenICam | the parameter library | `writeInt32`: Acquire, mode, counts, callbacks, region of interest |
| Region of interest | 692-737 | the circular buffers, `bitsPerPixel_` | frees and allocates the buffers |
| Shutdown | 209-222 | `exiting_`, `pBoard_` | stops and deletes the board at exit |
| GenICam nodes | `BFFeature.cpp` | node type and handle | read and write camera nodes |
| BitFlow SDK, camera | not in the repository | circular buffers, events | used through `CircularInterface` (Windows) or `Ci...` (Linux) |
| ADGenICam, asyn, EPICS | not in the repository | port lock, parameters, NDArrayPool | used |

The asyn port lock protects the parameters. The client writes parameters with the
lock held. `startCapture` starts camera and board and signals a binary event; the
wait thread takes the event without the lock, locks, resets the counter and waits
for frames - without the lock on Windows, with the lock on Linux. Each frame goes,
as a message, through the queue to one of the processing threads, which receives
without the lock, copies the pixels without the lock and does everything else with
it. An acquisition can be ended by the client (Acquire=0), by the wait thread (the
board aborted, or enough frames collected), by a processing thread (enough frames
counted, allocation failed) and by the board itself. `setROI` replaces the buffers
and `shutdown` deletes the board; neither waits for a thread.

### The examples

| Program | Threads | What it keeps |
|---|---|---|
| `CIsimple_Linux.c` | one, and the board | board and mapped buffers, a countdown of frames |
| `CiSimple_Windows.c` | main and `Thread` | board, buffers, display surface; two plain flags |
| `CiSimpleCallBack_Windows.c` | main and the SDK's call-backs | board, call-backs, display surface |
| `GenTLView.cpp` | main, acquisition and command thread | stream, buffers, `m_dequeued` under `m_poolMutex`, three flags; `LapAverager` for the frame rate |
| `GenTLInterfaceExample.cpp` | a console; an event viewer with a thread | handles and node maps of the open modules; event registration |
| `SubFileIterator.h` | none | a search handle (Windows) or the memory of `glob()` (Linux) |

### What is hard, and what makes each part correct

* Pipeline: the board's buffers are shared by board, wait thread, queue and
  processing threads, and the copies are made unlocked. Correct: one owner per
  buffer, intact data, no frame given out twice, no lost buffers or arrays.
* Queue: the sender holds the lock its receivers need. Correct: the queue always
  has room.
* Linux wait thread: it keeps the lock for a whole acquisition. Correct: buffers have
  one owner although they are never marked; an abort gives the lock back.
* Acquisition control: five places change ADAcquire; the wait thread and the
  processing threads count images with different counters and with parameters read
  at different times. Correct: exactly the images asked for, the acquisition ends,
  ADAcquire=0 means that the driver is at rest, an abort is always noticed.
* Region of interest and shutdown: they free what others use. Correct: nothing is
  used that was freed, and a copy is as long as its buffer.
* Start-up: threads are launched by a constructor that is still running, and it may
  return early. Correct: nothing is used before it exists.
* Node access: asking and reading are two calls, errors are discarded. Correct: a
  call that was asked about does what it says.
* Examples: threads and call-backs work on what main opens and closes, each call may
  fail, and a blocking wait must be woken. Correct: everything is given back once, not
  before its last use, and the program ends when told to.

`PROJECT.json` lists each hazard at its line, with the properties about it.

## 2. Modules

The driver:

| Module | Models | Builds on |
|---|---|---|
| `BFConfig` | the sizes the constructor derives from its arguments | |
| `BitFlowBoard` | frame grabber, camera and SDK calls, as the driver relies on them (external) | `BFConfig` |
| `ADBitFlow` | what both builds share: parameters, queue, processing threads, `startCapture`, `stopCapture`, the client; the ownership of buffers | `BitFlowBoard` |
| `ADBitFlowWin` | the wait thread of the Windows build, `Spec` and `FairSpec` of that driver | `ADBitFlow` |
| `ADBitFlowLinux` | the same for the Linux build | `ADBitFlow` |
| `ADBitFlowLife` | the Windows driver with `setROI` and `shutdown` | `ADBitFlowWin` |
| `ADBitFlowLinuxRoi` | the Linux driver with `setROI` and the geometry of the buffers | `ADBitFlowLinux` |
| `BFStartup` | `ADBitFlowConfig`, constructor and `connectCamera` of several drivers | |
| `BFFeature` | a GenICam node and the `BFFeature` object that reads and writes it | |
| `FrameFlow` | abstract: numbered frames are given out at most once, at most `Capacity` under way; implemented by `ADBitFlowWin` | |
| `AcquisitionContract` | abstract: an acquisition counts to its target and ends; implemented by `ADBitFlowLife` and `ADBitFlowLinuxRoi` | |

The examples: `CIsimple`, `CiSimpleWin`, `CiSimpleCallBack`, `GenTLView`,
`LapAverager` (a class of `GenTLView.cpp`), `NodeConsole` and `EventViewer` (two parts
of `GenTLInterfaceExample.cpp`), `SubFileIterator`.

Instances for TLC: `MCWin`, `MCLife`, `MCLinux`, `MCLinuxRoi`, `MCGenTL`; `MCSetup`
(start-up, or access to a node) and `MCExamples` (one of the seven small examples)
put parts that do not interact next to each other: in a behaviour only one moves.

Proofs: `ADBitFlowProofs` (lemmas for both builds), `ADBitFlowWinProofs`,
`ADBitFlowWinFlowProofs`, `ADBitFlowLifeProofs`, `ADBitFlowLinuxProofs`,
`ADBitFlowRoiProofs`, `SetupProofs` (start-up and node access), `ExampleProofs`.

### How state and steps of the driver correspond to the code

* `params` is the asyn parameter library restricted to the parameters that control
  anything: `ADAcquire`, `ADStatus`, `ADImageMode`, `ADNumImages`,
  `ADNumImagesCounter`, `NDArrayCounter`, `NDArrayCallbacks`.
* `startEvent`, `uniqueId`, `msgQ` are `startEventId_`, `uniqueId_`, `pMsgQ_`.
* `w` is the wait thread (program counter and locals), `p[t]` processing thread `t`.
  `p[t].raw` says that the thread's `pRaw`, which survives a turn of the loop, points
  to an array.
* `liveArrays` counts the NDArrays the driver has allocated and not released;
  `delivered` and `starts` are history.
* `bufStatus`, `content`, `doneQ`, `running`, `camera`, `cirEvent`, `frameCount` are
  the board and the camera. A buffer is `AVAILABLE`, `DONE` (filled, not returned),
  `RETURNED` (by `waitDoneFrame`, not yet marked) or `HOLD`.

A region between `lock()` and `unlock()` is one action: every other step that needs
the lock would have to wait for it. Where a region can block it is split: at `send()`
(`HoldFrame`, `SendMessage`; on Linux `GetFrame`, `SendMessage`) and at the Linux build's
`CiWaitNextUndeliveredFrame(-1)` (`waitNext`). While the wait thread is there, the
steps that need the lock are disabled (`LockFree`). `receive()` needs no lock.
`stopCapture` sleeps for a second between stopping the board and stopping the
camera, with the lock held: one action.

The frame number in a message is `cirHandle.FrameCount`; comparing it with the
buffer's `content` at the time of the copy shows whether the pixels are still those
of the frame. In `ADBitFlowLife` and `ADBitFlowLinuxRoi` the frames `1 .. freed` are
those whose memory was freed; a region is a size, and on Linux `bitsPerPixel_`, which
nothing but `setROI` sets, has its own variable. Pixels, timestamps and statistics are
left out.

In `BFStartup` a driver's objects (board, GenTL device, parameters, queue, event) are
members of a set the constructor's steps extend; threads run as soon as they are
launched and record what they use. In `BFFeature` numbers are counted in halves, so
that a float node has values that an integer node cannot have, and a local that the
SDK did not write is `Garbage`. What a client may expect to find after a write
(`Arrived`) is said without the conversion that the methods make.

Operators such as `Receive_Peek` or `Collected_OneMore`, commented as faulty
variants, are not part of any specification: each is a wrong form of the definition
after it, and putting it in that definition's place must break a property. They
show that the property has teeth.

### Assumptions about what is not in the repository

* `CircularInterface` with `CirErStop` fills a buffer only when it is
  `BIAVAILABLE`, and does not reuse a buffer between the return of `waitDoneFrame` and
  `setBufferStatus(BIHOLD)`. On Linux a delivered buffer is not filled before it is
  given back.
* Frames are returned oldest first. After BISTART, filled buffers of the previous
  acquisition are either forgotten or still returned (both are explored).
* The end of an acquisition is reported by every `waitDoneFrame` until the next
  BISTART. Under the fault `"once"` it may be reported once only, and BIABORT of a
  stopped board may not be reported at all.
* `ADGenICam::writeInt32` stores the value and, for Acquire, calls `startCapture` or
  `stopCapture`, with the lock held; there is no check whether an acquisition is
  going on. ADGenICam asks `isReadable` or `isWritable` before it reads or writes.
* `epicsMessageQueue` is FIFO and `send()` blocks while it is full.
* GenTL: a producer fills queued buffers in order; an `EventKill` that succeeds with
  nobody waiting ends the next `EventGetData`. An `EventKill` that fails has no effect.
* `CiCallBackRemove` returns when the call-back it removes does not run. `CiBrdClose` is
  not assumed to wait for a call-back that was never removed.
* `Application::exit()` of the examples' window library has an effect if it is called
  while `exec()` runs; before, it may be lost.

`Faults` chooses the failures an instance of the driver may produce: overrun,
spontaneous abort (reported in `RELEASE.md`), error statuses of `waitDoneFrame`, camera
commands without effect, an exhausted NDArrayPool, frames without data, failing calls
of `setROI` (`"setup"`), and `"once"`.

## 3. Runs

| Run | Question | Result |
|---|---|---|
| `win_pipeline` | Windows, two threads, two starts, client operations at any time, every fault: ownership, room in the queue, counted frames have given their buffers back, intact arrays, refinement of `FrameFlow`; no deadlock | holds |
| `win_settle` | one processing thread: are arrays delivered in order? Starts, stops, switched callbacks, overruns, aborts, failed commands and allocations at any time: is an aborted driver that nobody starts again at rest in the end? | holds |
| `win_contract` | a client that waits for each acquisition to end and changes the region, the mode and the number of images, or leaves, in between: refinement of `AcquisitionContract` with its liveness, rest when not acquiring, nothing freed in use | holds |
| `linux_pipeline` | the Linux build, every operation and failure at any time: ownership, what collected frames cost, an abort frees the lock | holds |
| `linux_roi` | the Linux build with the region changed in between: `AcquisitionContract` for as many images as buffers, and copies that read nothing but their buffers | holds |
| `setup` | two drivers configured one after the other on either build; every call of `BFFeature` on a node of every type and access, when nothing fails in between | holds |
| `examples` | the seven smaller examples: cleaning up, shared flags, call-backs, the ring of laps, node maps, event viewer, file iterators, and that they end | holds |
| `gentl_view` | `GenTLView` with every exec function, failing calls, and a user who kills, stops, queues and requeues in any order: a buffer has one holder or its queueing failed, a frame that came is taken up, the stream outlives the threads, and the program ends, with the exceptions below | holds |
| `v_queue` | fewer buffers asked for than the minimum | violated: the queue is too short |
| `v_leak` | `NDArrayCallbacks` switched during a copy | violated: the array leaks |
| `v_abort` | the NDArrayPool is exhausted | violated: the acquisition goes on |
| `v_linux` | a continuous acquisition of the Linux build | violated: no image is delivered |

Some properties say more than the table; each is commented where it is defined.

* `CountedFramesFreeBuffers`: at most as many buffers are held as frames were numbered
  and not counted. Frames that were given up (a failed allocation, no data) keep their
  buffers until the region is changed, which is what the code does and not what the
  property asks for.
* `AbortSettles` is about all the ways an abort meets a start: the wait thread may set
  ADAcquire back to 1 after a stop, may take an event that belongs to an acquisition
  that is over, and may stop an acquisition it does not know of; still ADAcquire becomes
  0, the wait thread waits for a start, no start is pending and the queue is empty. The
  run has the faults overrun, abort, command and alloc. It has neither an end that is
  reported only once (a start event left over then begins an acquisition that nobody
  ends), nor frames without data and changes of the mode (the wait thread has stopped
  the board, and no processing thread counts the last image: ADAcquire stays 1), nor
  waits that fail for ever: with each of these TLC finds ADAcquire at 1 for ever.
* `CopyReadsBuffer` has two parts: a frame to be copied is in a buffer that was not
  freed, whatever failed; and after a `setROI` that succeeded the size of the copy is
  that of the buffer. It is about the side that is read, see section 5 for the other.
* `CheckedCallsWork` is about calls during which the SDK does not fail and the camera does
  not change the node, and leaves out writing an enumeration as text (section 5).
* `ContractSpec` puts the two counters together: the wait thread stops collecting by
  its own count and cached parameters, the processing threads end the acquisition
  by the parameters of that moment.
* `GvEnds` is about one `EventKill` that must wake a thread wherever it is, with the
  user killing events too. The program need not end if that `EventKill` failed, if the
  user answered the question of the S command with something that is no number, or if a
  command ended the application before `exec()` (`NoEndPromised`). `GvFramesHandled`
  is about frames that come while the program runs, with the same exception for the S
  command.
* `GvOneHolder` counts a buffer whose queueing failed in the acquisition thread
  (`GenTLView.cpp` 1029-1031) as lost; `GvStreamOutlivesThreads` leaves out the failed
  start of line 401, and `CbUsesWhatExists` the call-back that is never removed.
* `EvEnds` is about an `EventKill` that succeeds; with a number of events given, it is about
  the Windows build only.

### Bounds

* `MaxFrames` (2 to 8): frames per behaviour. Three with two buffers means that a
  buffer is used again while the other is still owned. Where completion depends on
  frames (`win_contract`, `linux_roi`) there are enough for two acquisitions of two
  images with buffers wasted in between, so the bound never ends an acquisition.
* `Buffers`, `Threads` (2): each owner has a competitor. The proofs cover any
  number.
* `numBFBuffers`, `MinBuffers`, `DefaultBuffers`: the code's 10 and 100 scaled down to
  the number of buffers; only their order matters.
* `MaxStarts` (2): an acquisition and the one it interferes with.
* `ImageCounts`: 0 (which ends after one image, as Single does) and 2.
* `Sizes`, `Depths` (2 each): a region that changed and one that did not.
* `setup`: two drivers share or do not share a board; three threads, so that the loop
  that launches them has a middle. A node's values are -1/2, 0 and 1: the fraction below
  zero tells rounding down from losing the fraction.
* `examples`: countdowns of 0, 1 and 3 frames, a ring of three laps that wraps,
  `NcMaxOpens` = 6 handles (an interface and a device opened, closed and opened again),
  event limits 0 (none), 1 and 3, up to three files.
* `gentl_view`: two buffers, four frames, seven commands: each buffer goes
  round twice, with a kill, a requeue and a stop in between.
* Buffers and threads are interchangeable; the safety runs use that symmetry, the
  liveness runs do not.

Deadlock is checked in `win_pipeline`, `win_settle`, `v_leak` and `v_queue`, where the
client may stop the acquisition at any time (a blocked lock would disable it). It is
switched off where client or program may simply end, and for the Linux build, where the
lock can be held for ever (`v_linux`).

### Fairness

* The driver (`FairSpec`, `LifeSpec`, `RoiSpec`): the camera, once started, sends frames
  while a buffer is free; weak fairness of the wait thread and of every processing
  thread, which are endless loops without a condition for stopping. Nothing is assumed
  of the client. Nothing stronger is needed: frames and starts are bounded, so no thread
  is passed over for ever at the lock. `ContractSpec` is checked in instances without
  faults of the board: an overrun, for example, ends the acquisition with ADAcquire left
  at 1 (`ADBitFlow.cpp` 382-387).
* Examples (`CiFairness`, `CsFairness`, `EvFairness`, `GvSpec`): the program's threads
  run; in `CIsimple` frames that were asked for arrive. Events, keys and the user's
  commands need never come. `GenTLView` assumes that a user who was asked a question
  answers it, with a number or with something else, and that a line that was begun ends.

## 4. Proofs

All theorems hold for every value of the constants: any number of buffers, threads,
frames and starts, every set of faults, every choice of what the client may do. The
assumptions are those the modules name (`SizesAssumption`, `PoolsAssumption`,
`BoardAssumption`, `ClientAssumption`, `NoneAssumption`, `StartupAssumption`,
`FeatureAssumption`, and in `GenTLView` `BufferAssumption` and `ModeAssumption`, in
`LapAverager` `LapAssumption`) and those a theorem states.

### The driver, both builds

`ADBitFlowProofs` has the lemmas about what the builds share, with the lemma for each
step of a processing thread and of the client; the other modules use them.

| Theorem | Build | States |
|---|---|---|
| `TypeCorrect`, `LinuxTypeCorrect` | both | `Spec => []TypeOK` |
| `BuffersHaveOneOwner`, `LinuxBuffersHaveOneOwner` | both | `Spec => []OneOwner` |
| `SendNeverBlocks` | Windows | `[]RoomForEveryBuffer`, if `numBFBuffers >= MinBuffers` |
| `ArraysAreIntact` | Windows | `[]DeliveredIntact` |
| `FramesNeedBuffers` | Windows | `[]CountedFramesFreeBuffers` |
| `DriverIsFrameFlow` | Windows | `Spec => FlowSpec`, the refinement of `FrameFlow` |
| `OneThreadDeliversInOrder` | Windows | `[]DeliveredInOrder`, with one processing thread |
| `LinuxImagesCostBuffers` | Linux | `[]CollectedFramesHoldBuffers` |
| `LinuxAcquisitionFitsBuffers` | Linux | no acquisition collects more images than there are buffers |

* `TypeInv` strengthens `TypeOK` with two facts: a frame in `send()` has been numbered,
  and the threads that copy have an array each, counted by the cardinality of the
  set of such threads; so neither `uniqueId - 1` nor `liveArrays - 1` is ever negative.
* `OneOwner` is inductive together with `TypeInv`: wait thread, queue and processing
  threads hold distinct buffers, each with the status that protects it and with the
  frame its holder believes it to have. `Ownership` is the part both builds share,
  `ReturnedIntact` the Windows build's frame between `waitDoneFrame` and BIHOLD.
* `SendNeverBlocks`: queued messages map injectively to buffers other than the
  one in `send()`, so there are fewer of them than buffers; and then the queue is as
  deep as there are buffers. `v_queue` shows that the assumption is needed.
* `Numbering`, with which `FlowInv` extends `OneOwner`, says that no two frames under
  way or delivered have the same id, and that up to `receive()` ids and frame numbers
  increase together: at the board, in `send()`, in the queue and before what the threads
  took from it. With it each step of the driver is a step of `FrameFlow` or a stutter.
* `DeliveryOrder` continues the order to the delivered arrays when there is one thread.
* `CollectInv` adds to `CollectedFramesHoldBuffers` that in `send()` the frame in hand is
  held and not yet counted; while the wait thread has the lock no other step changes
  which buffers are held (`LockKeepsHeld`).

### One acquisition at a time

`ADBitFlowLifeProofs` and `ADBitFlowRoiProofs` are about `LifeSpec` and `RoiSpec`: the two
builds with `setROI`, the Windows build also with `shutdown`. They assume `Orderly`: while
ADAcquire is 1 the client changes at most `NDArrayCallbacks`, no board aborts by itself
and the NDArrayPool is not exhausted. Between acquisitions the client does anything, and
everything else may fail: overruns, frames without data, node commands, allocations and
read-backs in `setROI`.

| Theorem | Build | States |
|---|---|---|
| `RestAfterEachAcquisition` | Windows | `[]RestWhenNotAcquiring`, if node commands do not fail |
| `FreesNothingInUse` | Windows | `[]NothingFreedInUse` |
| `BoardDeletedLast` | Windows | `[]BoardOutlivesItsUsers` |
| `LinuxCopyReadsBuffer` | Linux | `[]CopyReadsBuffer`: the buffer is there whatever failed, and is as long as the copy unless the last `setROI` failed |
| `DriverKeepsContract`, `LinuxKeepsContract` | both | `Contract!Safety`, the safety part of `AcquisitionContract`, if no acquisition is Continuous |

* `Orderly` is needed: a stop, an abort of the board (the wait thread then calls
  `stopCapture`), a change of the image mode or an exhausted pool in the middle of an
  acquisition clears ADAcquire while frames are in use (section 5). A failed command
  matters only for the camera, which may then go on sending. A Continuous acquisition
  has no number of images that the contract could count to; the other theorems
  include it.
* `AcqInv` is inductive together with `TypeInv` and `OneOwner`: ADAcquire=0 means rest
  (`RestInv`); a start that the wait thread has not seen finds no held buffer (`StartInv`);
  while the wait thread takes frames its count is that of the frames held or counted
  (`GrabInv`), and when it has gone back to waiting no more were taken than asked for
  (`DrainInv`). So two counters kept by different threads agree without reading each
  other: the last frame to be counted is the last that was taken, and when it clears
  ADAcquire no buffer is held.
* `FreedInv`: as long as there are buffers, the frames in those that are not free were
  written since they were allocated, so what somebody works on was not freed; and buffers
  are freed only while ADAcquire is 0, when by `RestInv` nobody works on any. `ReadyInv`
  (Windows) and `BuffersInv`, `RegionInv` (Linux) say what holds when an allocation
  failed: nothing runs, or the size of the buffers is the one that copies are computed from.
* The refinement maps `busy` to ADAcquire with buffers to fill, `target` to the images
  asked for, and `count` to `ADNumImagesCounter`, taken as 0 from the start until the
  wait thread resets it. `AcquisitionContract` is split into `Safety`, which is proved,
  and `Spec`, which adds the end of each acquisition and stays with TLC.

### Start-up, node access, examples

These theorems are about each part's own specification (`StartupSpec`, `FeatureSpec`,
`CiSpec`, ...), which the runs `setup` and `examples` put next to each other.

| Theorem | States |
|---|---|
| `StartupTypeCorrect`, `NothingUsedTooEarly` | `StartupTypeOK`, `UsedExists`, for any number of drivers, boards and threads. `StartupInv` adds what each stage of the constructor has made and that a driver has threads only from the stage that launches them |
| `CheckedCallsDoWork`, `CheckedCallsNeedANode` | `CheckedCallsWork`, `CheckedCallsHaveANode`, for any values; `ConversionArrives` is the arithmetic of a float in an integer node. `FeatureInv` adds that an object that counts as implemented has an existing node, and that between the question and the call nothing changes unless the camera intervenes |
| `CiAlwaysCleansUp` | `CiCleansUp`: what is held at each label of the program |
| `CsFlagsSuffice` | `CsFlagsProtect`: where each thread can be for each value of the two flags |
| `CbCallBacksAreSafe` | `CbUsesWhatExists`: no call-back blits to a closed surface; the one of BFIntTypeCTab does not outlive main, the Gn2 one may |
| `EvThreadStaysInScope` | `EvThreadInScope`, for any number of events |
| `NcMapsAreOfOpenModules` | `NcMapsOfOpenModules`, for any number of commands: while a command closes and opens modules the console has no active node map |
| `SiShowsEachOnce` | `SiEachOnce`, for any number of files: while the iterator is good it stands at the file shown last |
| `BuffersAreAtOnePlace` | `GvOneHolder`, for any number of buffers, frames, errors and commands; a buffer whose queueing failed in the acquisition thread counts as lost |
| `StreamClosedLast` | `GvStreamOutlivesThreads`, without the failed start of line 401 |
| `RateIsOfLastLaps` | `LapRateIsOfLastLaps`, for every size of the ring and any number of laps |

`GvInv` speaks of `GenTLView`'s buffers as sets: each queue is without repetition, the three
queues and the acquisition thread's hand are disjoint and make up all buffers that are not
lost. Lemmas about sequences without repetition (`HeadTaken`, `Appended`, `Joined`,
`SeqOfSet`, `OccursOnce`) carry it through each queue operation and back to the counting of
`GvOneHolder`. `GvOrder` adds which threads exist at each step of main and that the stream is
open while they may use it.

`LapInv` says that the ring holds the last laps, each at its number modulo the size, and
that the log is in order of time; `RingLapIs` that the loop therefore meets them in that
order, wrapped or not; `RecentIsLast` that the recent ones are the last. What the
loop has after each turn is then the sum of adjacent differences: `LoopCounts` shows
that this closed form satisfies the recursive definition, and by `LeastNumber` (the least
turn after which the two would differ) that nothing else does. `LeastNumber` comes from
the library's well-founded order of finite sets, and `NearRemainders` and `RemainderOfSum`
are the arithmetic of the wrap.

Only model-checked: everything about liveness (`AbortSettles`, `AbortFreesLock`, the
liveness of `ContractSpec`, `CiEnds`, `CsQuitEnds`, `EvEnds`, `GvEnds`,
`GvFramesHandled`), which is out of the prover's reach. Every invariant of the passing
runs is the property of a theorem.

## 5. What the code does that its words do not say

With a run that shows it:

* `v_queue`: `ADBitFlow.cpp` line 140 sizes the queue by the argument where the comment
  at line 176 describes the clamped number of buffers. Without the invariant the same
  instance ends in a deadlock: the wait thread is in `send()` with the lock, the queue is
  full, and both processing threads have a message and wait for the lock. TLC reports it
  for the configuration with its INVARIANT line removed.
* `v_leak`: `NDArrayCallbacks` is read before and again after the copy (555, 637).
* `v_abort`: a failed allocation sets ADAcquire and leaves board and camera running
  (568), where the comment at 559 says that the acquisition must be aborted.
* `v_linux`: the Linux wait thread keeps the lock while it collects (417-456) until the
  acquisition is over (334). A continuous acquisition delivers nothing and locks up when the buffers are used
  up; `LinuxAcquisitionFitsBuffers` says that a Multiple acquisition gets no further than
  the number of buffers.

Met while modelling, described as the code has it:

* `setROI` and `shutdown` do not wait for the threads. `NothingFreedInUse`,
  `BoardOutlivesItsUsers` and `CopyReadsBuffer` hold for a client that uses them only while
  ADAcquire is 0 after acquisitions that ended by themselves. With a stop at any time TLC
  shows frames of the stopped acquisition still in use; shutting down during an
  acquisition deletes the board under the wait thread (217, where the comment at 770 says
  that ADAcquire=0 will tell the task to stop).
* Every array is allocated as NDUInt8 with one element per pixel and colour (471, 558), and
  `nCols * nRows * pixelSize` bytes are copied into it (540, 574): with more than 8 bits
  per pixel that is more than the array holds, in both builds. When CiBufferInterrogate
  fails, `setROI` returns with the new buffers in place and the parameters as they were
  written (724-728), and nothing keeps the client from starting.
* A failed allocation (568) and a frame without data (581) leave the frame's buffer held;
  only the region change that allocates new buffers frees it. A Single acquisition whose
  frame has no data leaves ADAcquire at 1 with the board stopped.
* `BFFeature::writeEnumString` (200) has an empty body: a write that was asked about
  neither reaches the node nor reports anything. A float written to an integer node loses
  its fraction (147), and a failed write is not told to the caller.
* The Linux build opens board 0, whatever `boardNum` says (288, documented at 72).
* `AcquisitionStart` and `AcquisitionStop` are written without asking whether the node
  exists (746), and `hDevice_` is opened for CoaXPress boards on Windows only (270): on
  other boards handle and type of the node are uninitialised (`BFFeature.cpp` 217).
* `CiSimple_Windows`: main waits for ever for a thread that could not create its
  display (331). `CIsimple_Linux`: a newline ends the program only when a frame comes (412).
* `GenTLInterfaceExample`: on Linux the event viewer waits for the user only (1164),
  although the comment at 1146 names the end of the thread too; a failed call on the way to
  a device closes the library and the console goes on (221).
* `GenTLInterfaceExample`: the results of EventKill are not looked at (1139, 1155, 1171); if
  one failed, the join after it could wait for ever.
* `CiSimple_Windows`: with -SepCam and without -Cam the camera that is closed at 472 was
  never set. `CiSimpleCallBack_Windows`: on a Gn2 the call-back of BFIntTypeZStart is not
  removed (157 removes the other), and it counts in a variable of main (179).
* `GenTLView`: the command S asks for a number with `m_poolMutex` held, until it is not 0
  (1158-1163); after an answer that is no number every further reading fails, and the
  acquisition thread and the destructor wait for ever. If `EventKill` fails in the
  destructor, the user is told that he may have to force the program to quit (299). A
  command thread that ends the application before `exec()` was entered (1451-1454) may
  not be heard.
* `GenTLView`: an `init()` whose `DSStartAcquisition` fails closes the stream while the
  acquisition thread uses it (401).

## 6. Not modelled

* Templates, operator screens, IOC applications and start-up scripts: no behaviour of
  their own, or generated.
* `Port`, `test_features`, `test_file_write`: calls that are passed on, and two
  straight-line programs without state between their calls.
* The console's commands that only read or write node values, `printData`,
  `printErrors`; `cleanPath` and file attributes: text, without state that lasts.
* Pixels, image headers, timestamps, statistics, colour modes: data no property is about.
  Which timestamp and id an array gets when the mode is changed during an acquisition is
  a choice of the client's and is left out too.
* The start of `processImageThread` with an `unlock()` it does not own (492): undefined on
  Windows and an error return on Linux; the model starts the thread without the lock.

Worth doing next: that the Linux build implements `FrameFlow`, too.
