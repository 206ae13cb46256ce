--------------------------- MODULE ADBitFlowRoiProofs ---------------------------
(***************************************************************************)
(* Proofs about ADBitFlowLinuxRoi: with one acquisition at a time a copy   *)
(* never reads past its buffer, whatever the board makes of a region, and  *)
(* the Linux build keeps the safety part of the AcquisitionContract.       *)
(***************************************************************************)
EXTENDS ADBitFlowLinuxRoi, ADBitFlowLinuxProofs

HasBuffers == geometry # NoBuffers

\* With buffers an acquisition is not aborted while the wait thread takes frames;
\* without them there are no frames.
BuffersInv ==
  /\ HasBuffers /\ (startEvent \/ w.pc # "idle") => cirEvent = "none"
  /\ ~HasBuffers => ~running /\ doneQ = <<>> /\ Held = {} /\ w.pc # "send"

\* There are buffers as soon as setROI has succeeded, and then the parameters agree
\* with them.
RegionInv ==
  /\ roiStatus \in {"none", "success", "error"}
  /\ roiStatus = "none" => ~HasBuffers
  /\ roiStatus = "success" => roiSize = geometry.size /\ bitsPerPixel = geometry.bits

\* The frames of all buffers that are not free were written since the buffers were
\* allocated.
FreedInv ==
  /\ freed \in Nat /\ freed <= frameCount
  /\ \A b \in Buffers : bufStatus[b] # "AVAILABLE" => content[b] > freed

RoiInv == BuffersInv /\ RegionInv /\ FreedInv

IInv == TypeInv /\ OneOwner /\ AcqInv /\ RoiInv

LEMMA IInvTypes ==
  ASSUME IInv
  PROVE  /\ BoardTypeOK /\ DriverTypeOK /\ SendType /\ SharedTypeInv /\ Ownership
         /\ w \in WaitThread /\ w.imagesCollected \in Nat
         /\ (w.handle # None) <=> (w.pc = "send")
         /\ params \in Params /\ params.ADAcquire \in {0, 1}
BY TypeInvShared DEF IInv, TypeInv, TypeOK, OneOwner, DriverTypeOK, Params, WaitThread

LEMMA IInvInit == RoiInit => IInv
<1> SUFFICES ASSUME RoiInit PROVE IInv
  OBVIOUS
<1>1. TypeInv /\ OneOwner
  BY TypeInit, OwnerInit DEF RoiInit
<1>2. DriverInit /\ w.pc = "idle" /\ ~startEvent
  BY DEF RoiInit, Init, DriverInit
<1>3. /\ \A b \in Buffers : bufStatus[b] = "AVAILABLE"
      /\ freed = 0 /\ frameCount = 0 /\ ~running /\ doneQ = <<>> /\ Held = {}
  BY <1>2 DEF RoiInit, DriverInit, BoardInit, Held
<1>4. geometry = NoBuffers /\ roiStatus = "none"
  BY DEF RoiInit
<1>5. RoiInv
  BY <1>2, <1>3, <1>4 DEF RoiInv, BuffersInv, RegionInv, FreedInv, HasBuffers
<1> QED BY <1>1, <1>2, <1>5, AcqInit DEF IInv

-----------------------------------------------------------------------------
\* Nothing is in use at rest.

LEMMA RestIsEmpty ==
  ASSUME IInv, Held = {}
  PROVE  /\ w.handle = None /\ msgQ = <<>>
         /\ \A t \in Threads : p[t].pc = "receive"
         /\ InUse = {}
<1>0. BoardTypeOK /\ DriverTypeOK /\ SendType /\ Ownership
  BY IInvTypes
<1>1. w.handle = None
  BY <1>0, IInvTypes DEF SendType, Handles, Ownership, SenderPins, Pinned, Held
<1>2. \A t \in Threads : p[t].pc = "receive"
  BY <1>0, ThreadElement DEF Ownership, ThreadsPin, Pinned, Held
<1>3. msgQ = <<>>
  <2>1. ~(1 \in 1 .. Len(msgQ))
    BY <1>0, QueueElement DEF Ownership, QueuePins, Pinned, Held
  <2>2. Len(msgQ) = 0
    BY <1>0, <2>1 DEF DriverTypeOK
  <2> QED BY <1>0, <2>2 DEF DriverTypeOK
<1> QED BY <1>1, <1>2, <1>3 DEF InUse

\* A frame in use is in a buffer that is not free.
LEMMA InUseHasBuffer ==
  ASSUME IInv, NEW f \in InUse
  PROVE  \E b \in Buffers : bufStatus[b] # "AVAILABLE" /\ content[b] = f
<1>0. BoardTypeOK /\ DriverTypeOK /\ Ownership /\ w \in WaitThread
  BY IInvTypes
<1>1. CASE w.handle # None /\ f = w.handle.frame
  <2>1. w.handle.buf \in Buffers /\ w.pc = "send"
    BY <1>0, <1>1, IInvTypes DEF WaitThread, Handles
  <2> QED BY <1>0, <1>1, <2>1 DEF Ownership, SenderPins, Pinned
<1>2. ASSUME NEW i \in 1 .. Len(msgQ), f = msgQ[i].frame
      PROVE  \E b \in Buffers : bufStatus[b] # "AVAILABLE" /\ content[b] = f
  BY <1>0, <1>2, QueueElement DEF Ownership, QueuePins, Pinned
<1>3. ASSUME NEW t \in Threads, p[t].pc # "receive", f = p[t].msg.frame
      PROVE  \E b \in Buffers : bufStatus[b] # "AVAILABLE" /\ content[b] = f
  BY <1>0, <1>3, ThreadElement DEF Ownership, ThreadsPin, Pinned
<1> QED BY <1>1, <1>2, <1>3 DEF InUse

-----------------------------------------------------------------------------
\* The steps of the pipeline.

LEMMA GetFrameTakes ==
  ASSUME IInv, GetFrame
  PROVE  Cardinality(Held') = Cardinality(Held) + 1
<1> DEFINE b == Head(doneQ)
<1>1. b \in Buffers /\ bufStatus[b] = "DONE" /\ BoardTypeOK
  BY IInvTypes DEF GetFrame, Ownership, BoardQueueDistinct, BoardTypeOK
<1>2. Held' = Held \cup {b} /\ b \notin Held
  BY <1>1 DEF GetFrame, Held, BoardTypeOK
<1> QED BY <1>2, HeldFinite, CardinalityAdd

LEMMA AcqWait == ASSUME IInv, WaitImage PROVE AcqInv'
<1>0. /\ AcqInv /\ DriverTypeOK /\ params \in Params /\ w \in WaitThread
      /\ w.imagesCollected \in Nat
  BY IInvTypes DEF IInv
<1>1. CASE TakeEvent
  <2>1. w'.pc = "woken" /\ ~startEvent' /\ UNCHANGED <<params, running, camera, bufStatus>>
    BY <1>0, <1>1 DEF TakeEvent, boardVars, WaitThread
  <2> QED BY <1>0, <1>1, <2>1, AcqSeen DEF TakeEvent, Held
<1>2. CASE BeginGrab
  <2>1. /\ w'.pc = "poll" /\ w'.imageMode = params.ADImageMode
        /\ w'.numImages = params.ADNumImages /\ w'.imagesCollected = 0
        /\ UNCHANGED <<startEvent, bufStatus>>
    BY <1>0, <1>2 DEF BeginGrab, boardVars, WaitThread
  <2> QED BY <1>0, <1>2, <2>1, AcqBegin DEF BeginGrab, Held
<1>3. CASE GetFrame
  <2>1. /\ w.pc = "poll" /\ w'.pc = "send" /\ w'.imageMode = w.imageMode
        /\ w'.numImages = w.numImages /\ w'.imagesCollected = w.imagesCollected
        /\ UNCHANGED <<params, startEvent, running, camera>>
    BY <1>0, <1>3 DEF GetFrame, WaitThread
  <2> QED BY <1>0, <1>3, <2>1, GetFrameTakes, AcqTake DEF Collecting
<1>4. CASE SendMessage
  <2> DEFINE counted == [w EXCEPT !.imagesCollected = w.imagesCollected + 1, !.handle = None]
  <2>1. w.pc = "send" /\ Held' = Held /\ UNCHANGED startEvent
    BY <1>4 DEF SendMessage, Held
  <2>2. /\ counted.imageMode = w.imageMode /\ counted.numImages = w.numImages
        /\ counted.imagesCollected = w.imagesCollected + 1
    BY <1>0 DEF WaitThread
  <2>3. CASE w' = [counted EXCEPT !.pc = "idle"] /\ params' = [params EXCEPT !.ADStatus = "Idle"]
    <3>1. w'.pc = "idle"
      BY <1>0, <2>3 DEF WaitThread
    <3> QED BY <1>0, <2>1, <2>3, <3>1, AcqNoMore DEF Collecting
  <2>4. CASE /\ ~Collected(counted)
             /\ w' = [counted EXCEPT !.pc = "poll"]
             /\ params' = [params EXCEPT !.ADStatus = "Waiting"]
    <3>1. /\ w'.pc = "poll" /\ w'.imageMode = w.imageMode /\ w'.numImages = w.numImages
          /\ w'.imagesCollected = w.imagesCollected + 1
      BY <1>0, <2>4 DEF WaitThread
    <3>2. ~(\/ w.imageMode = "Single"
            \/ w.imageMode = "Multiple" /\ w.imagesCollected + 1 >= w.numImages)
      BY <2>2, <2>4 DEF Collected
    <3> QED BY <1>0, <2>1, <2>4, <3>1, <3>2, AcqSent
  <2> QED BY <1>4, <2>3, <2>4 DEF SendMessage
<1>5. CASE NoNewData
  <2>1. /\ w.pc \in {"poll", "waitNext"} /\ w'.pc \in {"poll", "waitNext"}
        /\ w'.imageMode = w.imageMode
        /\ w'.numImages = w.numImages /\ w'.imagesCollected = w.imagesCollected
        /\ UNCHANGED <<startEvent, bufStatus>>
        /\ params' = [params EXCEPT !.ADStatus = "Waiting"]
    BY <1>0, <1>5 DEF NoNewData, boardVars, WaitThread
  <2> QED BY <1>0, <2>1, AcqGoesOn DEF Collecting, Held
<1>6. CASE GotAborted
  <2>1. /\ w.pc \in {"poll", "waitNext"} /\ w'.pc = "idle" /\ UNCHANGED <<startEvent, bufStatus>>
        /\ StopCapture([params EXCEPT !.ADStatus = "Idle"])
    BY <1>0, <1>6 DEF GotAborted, WaitThread
  <2>2. Held = {} /\ Held' = Held
    BY <1>6, <2>1 DEF GotAborted, IInv, RoiInv, BuffersInv, Held
  <2> QED BY <1>0, <2>1, <2>2, AcqStopped DEF Collecting
<1> QED BY <1>1, <1>2, <1>3, <1>4, <1>5, <1>6 DEF WaitImage

LEMMA BuffersWait == ASSUME IInv, WaitImage, UNCHANGED geometry PROVE BuffersInv'
<1>0. /\ BuffersInv /\ StartInv /\ w \in WaitThread /\ BoardTypeOK /\ DriverTypeOK
      /\ HasBuffers' = HasBuffers
  BY IInvTypes DEF IInv, AcqInv, RoiInv, HasBuffers
<1>1. CASE TakeEvent \/ BeginGrab \/ NoNewData
  <2>1. w'.pc # "send" /\ UNCHANGED <<running, doneQ, bufStatus, cirEvent>>
    BY <1>0, <1>1 DEF TakeEvent, BeginGrab, NoNewData, boardVars, WaitThread
  <2>2. startEvent \/ w.pc # "idle"
    BY <1>1 DEF TakeEvent, BeginGrab, NoNewData
  <2> QED BY <1>0, <2>1, <2>2 DEF BuffersInv, Held
<1>2. CASE GetFrame
  <2>1. HasBuffers /\ w.pc = "poll" /\ UNCHANGED cirEvent
    BY <1>0, <1>2 DEF GetFrame, BuffersInv
  <2> QED BY <1>0, <2>1 DEF BuffersInv
<1>3. CASE SendMessage
  <2>1. HasBuffers /\ w.pc = "send" /\ ~startEvent /\ UNCHANGED startEvent
    BY <1>0, <1>3 DEF SendMessage, BuffersInv, StartInv
  <2>2. w'.pc = "idle" \/ UNCHANGED cirEvent
    BY <1>0, <1>3 DEF SendMessage, WaitThread
  <2> QED BY <1>0, <2>1, <2>2 DEF BuffersInv
<1>4. CASE GotAborted
  <2>1. /\ w'.pc = "idle" /\ w.pc \in {"poll", "waitNext"}
        /\ UNCHANGED <<startEvent, doneQ, bufStatus>>
    BY <1>0, <1>4 DEF GotAborted, WaitThread
  <2>2. ~running'
    BY <1>4 DEF GotAborted, StopCapture, CirAbort
  <2> QED BY <1>0, <2>1, <2>2 DEF BuffersInv, StartInv, Held
<1> QED BY <1>1, <1>2, <1>3, <1>4 DEF WaitImage

LEMMA BuffersBoard ==
  ASSUME Orderly, IInv, LinuxBoard, UNCHANGED <<driverVars, geometry>>
  PROVE  BuffersInv'
<1>0. BuffersInv /\ HasBuffers' = HasBuffers
  BY DEF IInv, RoiInv, HasBuffers
<1>1. HasBuffers
  BY <1>0 DEF Orderly, LinuxBoard, FrameDone, SpontaneousAbort, BuffersInv
<1>2. UNCHANGED <<cirEvent, startEvent, w>>
  BY DEF Orderly, LinuxBoard, FrameDone, SpontaneousAbort, driverVars
<1> QED BY <1>0, <1>1, <1>2 DEF BuffersInv

LEMMA BuffersClient ==
  ASSUME Orderly, IInv, WriteStop \/ WriteParam \/ (HasBuffers /\ WriteStart), UNCHANGED geometry
  PROVE  BuffersInv'
<1>0. BuffersInv /\ RestInv /\ HasBuffers' = HasBuffers
  BY DEF IInv, RoiInv, AcqInv, HasBuffers
<1>1. CASE WriteParam
  BY <1>0, <1>1 DEF WriteParam, boardVars, BuffersInv, Held
<1>2. CASE WriteStop
  <2>1. w.pc = "idle" /\ ~startEvent
    BY <1>0, <1>2 DEF WriteStop, ClientMay, Orderly, RestInv
  <2>2. ~running' /\ UNCHANGED <<w, startEvent, doneQ, bufStatus>>
    BY <1>2 DEF WriteStop, StopCapture, CirAbort
  <2> QED BY <1>0, <2>1, <2>2 DEF BuffersInv, Held
<1>3. CASE HasBuffers /\ WriteStart
  <2>1. cirEvent' = "none"
    BY <1>3 DEF WriteStart, StartCapture, CirStart
  <2> QED BY <1>0, <1>3, <2>1 DEF BuffersInv
<1> QED BY <1>1, <1>2, <1>3

LEMMA BuffersProcess ==
  ASSUME Orderly, IInv, NEW t \in Threads, ProcessImage(t), UNCHANGED geometry
  PROVE  BuffersInv'
<1>0. BuffersInv /\ AcqInv /\ HasBuffers' = HasBuffers
  BY DEF IInv, RoiInv, HasBuffers
<1>1. CASE Receive(t) \/ AllocFails(t) \/ NullData(t) \/ BeginCopy(t)
  <2>1. UNCHANGED <<boardVars, startEvent, w>>
    BY <1>1, FrameNotCounted
  <2> QED BY <1>0, <2>1 DEF boardVars, BuffersInv, Held
<1>2. CASE SkipCopy(t) \/ FinishCopy(t)
  <2>1. p[t].msg.buf \in Held
    BY <1>0, <1>2, BusyWhileHeld, IInvTypes DEF SkipCopy, FinishCopy
  <2>2. HasBuffers
    BY <1>0, <2>1 DEF BuffersInv
  <2>3. UNCHANGED cirEvent \/ params'.ADAcquire = 0
    BY <1>2, IInvTypes DEF SkipCopy, FinishCopy, CompleteFrame, StopCapture, Params
  <2>4. UNCHANGED <<w, startEvent>> /\ ~startEvent
    BY <1>0, <1>2, FrameCounted, IInvTypes
  <2>5. params'.ADAcquire = 1 \/ w.pc = "idle"
    BY <1>0, <1>2, FrameCounted, IInvTypes
  <2> QED BY <1>0, <2>2, <2>3, <2>4, <2>5 DEF BuffersInv
<1> QED BY <1>1, <1>2 DEF ProcessImage

\* Only the board fills a buffer, with a frame of a new number; the others pass on what
\* a buffer holds, or free it.
LEMMA BuffersPassedOn ==
  ASSUME IInv, [Next]_vars
  PROVE  /\ frameCount' \in Nat /\ frameCount' >= frameCount
         /\ \A b \in Buffers : bufStatus'[b] # "AVAILABLE" =>
              \/ bufStatus[b] # "AVAILABLE" /\ content'[b] = content[b]
              \/ content'[b] = frameCount + 1
<1>0. BoardTypeOK /\ frameCount \in Nat
  BY IInvTypes DEF BoardTypeOK
<1>1. CASE LinuxBoard /\ UNCHANGED driverVars
  <2>1. ASSUME NEW c \in Buffers, FrameDone(c)
        PROVE  /\ frameCount' = frameCount + 1 /\ content'[c] = frameCount + 1
               /\ \A b \in Buffers \ {c} : bufStatus'[b] = bufStatus[b] /\ content'[b] = content[b]
    BY <1>0, <2>1 DEF FrameDone, BoardTypeOK
  <2>2. CASE SpontaneousAbort
    BY <1>0, <2>2 DEF SpontaneousAbort
  <2> QED BY <1>0, <1>1, <2>1, <2>2 DEF LinuxBoard
<1>2. CASE Client
  <2>1. UNCHANGED <<content, frameCount>>
    BY <1>2 DEF Client, WriteStart, WriteStop, WriteParam, StartCapture, CirStart, boardVars
  <2>2. \A b \in Buffers : bufStatus'[b] # "AVAILABLE" => bufStatus[b] # "AVAILABLE"
    BY <1>0, <1>2 DEF Client, WriteStart, WriteStop, WriteParam, StartCapture, CirStart, boardVars
  <2> QED BY <1>0, <2>1, <2>2
<1>3. CASE GetFrame
  <2>1. Head(doneQ) \in Buffers /\ bufStatus[Head(doneQ)] = "DONE"
    BY <1>0, <1>3, IInvTypes DEF GetFrame, Ownership, BoardQueueDistinct, BoardTypeOK
  <2> QED BY <1>0, <1>3, <2>1 DEF GetFrame, BoardTypeOK
<1>4. CASE TakeEvent \/ BeginGrab \/ SendMessage \/ NoNewData \/ GotAborted \/ UNCHANGED vars
  <2>1. UNCHANGED <<bufStatus, content, frameCount>>
    BY <1>4 DEF TakeEvent, BeginGrab, SendMessage, NoNewData, GotAborted, boardVars, vars
  <2> QED BY <1>0, <2>1
<1>5. ASSUME NEW t \in Threads, ProcessImage(t)
      PROVE  /\ UNCHANGED <<content, frameCount>>
             /\ \A b \in Buffers : bufStatus'[b] # "AVAILABLE" => bufStatus[b] # "AVAILABLE"
  BY <1>0, <1>5 DEF ProcessImage, Receive, AllocFails, NullData, BeginCopy, SkipCopy, FinishCopy,
              CompleteFrame, ReleaseBuffer, boardVars, BoardTypeOK
<1>6. CASE \E t \in Threads : ProcessImage(t)
  BY <1>0, <1>5, <1>6
<1> QED BY <1>1, <1>2, <1>3, <1>4, <1>6 DEF Next, WaitImage

\* All steps that leave the region as it is.
InPlaceStep == RoiBoard \/ RoiClient \/ RoiWait \/ \E t \in Threads : RoiProcess(t)

LEMMA InPlaceStepIsNext == InPlaceStep => Next /\ UNCHANGED regionVars
BY DEF InPlaceStep, RoiBoard, RoiClient, RoiWait, RoiProcess, Next, Client

LEMMA IInvInPlace == ASSUME Orderly, IInv, InPlaceStep PROVE IInv'
<1>0. /\ Next /\ [Next]_vars /\ UNCHANGED regionVars
      /\ UNCHANGED <<freed, roiSize, bitsPerPixel, geometry, roiStatus>>
  BY InPlaceStepIsNext DEF regionVars
<1>1. TypeInv' /\ OneOwner'
  BY <1>0, TypeStep, OwnerStep DEF IInv
<1>2. AcqInv' /\ BuffersInv'
  <2>1. CASE RoiBoard
    BY <1>0, <2>1, LinuxBoardIsBoard, AcqBoard, BuffersBoard, IInvTypes DEF RoiBoard, IInv
  <2>2. CASE RoiClient
    BY <1>0, <2>2, AcqClient, BuffersClient, IInvTypes DEF RoiClient, IInv, Client, HasBuffers
  <2>3. CASE RoiWait
    BY <1>0, <2>3, AcqWait, BuffersWait DEF RoiWait
  <2>4. ASSUME NEW t \in Threads, RoiProcess(t) PROVE AcqInv' /\ BuffersInv'
    BY <1>0, <2>4, AcqProcess, BuffersProcess, IInvTypes DEF RoiProcess, IInv
  <2> QED BY <2>1, <2>2, <2>3, <2>4 DEF InPlaceStep
<1>3. FreedInv'
  <2>0. FreedInv /\ freed \in Nat /\ frameCount \in Nat /\ BoardTypeOK
    BY IInvTypes DEF IInv, RoiInv, FreedInv, BoardTypeOK
  <2>1. freed' <= frameCount'
    BY <1>0, <2>0, BuffersPassedOn DEF FreedInv
  <2>2. ASSUME NEW b \in Buffers, bufStatus'[b] # "AVAILABLE" PROVE content'[b] > freed'
    <3>1. \/ bufStatus[b] # "AVAILABLE" /\ content'[b] = content[b]
          \/ content'[b] = frameCount + 1
      BY <1>0, <2>2, BuffersPassedOn
    <3>2. content[b] \in Nat
      BY <2>0 DEF BoardTypeOK
    <3> QED BY <1>0, <2>0, <3>1, <3>2 DEF FreedInv
  <2> QED BY <1>0, <2>0, <2>1, <2>2 DEF FreedInv
<1>4. RegionInv'
  BY <1>0 DEF IInv, RoiInv, RegionInv, HasBuffers
<1> QED BY <1>1, <1>2, <1>3, <1>4 DEF IInv, RoiInv

-----------------------------------------------------------------------------
\* The client's steps that change the buffers or start without any, all at rest.

LEMMA RestOwnsNothing ==
  ASSUME IInv, params.ADAcquire = 0, UNCHANGED <<w, msgQ, p>>, BoardQueueDistinct'
  PROVE  OneOwner'
<1>1. w.pc = "idle" /\ msgQ = <<>> /\ \A t \in Threads : p[t].pc = "receive"
  BY RestIsEmpty DEF IInv, AcqInv, RestInv
<1>2. SenderPins' /\ QueuePins' /\ ThreadsPin'
  BY <1>1 DEF SenderPins, QueuePins, ThreadsPin
<1> QED BY <1>2 DEF OneOwner, Ownership

LEMMA IInvSetROI == ASSUME Orderly, IInv, SetROI PROVE IInv'
<1>0. /\ AcqInv /\ RestInv /\ SharedTypeInv /\ TypeInv /\ frameCount \in Nat
      /\ BoardTypeOK
  BY IInvTypes DEF IInv, AcqInv, BoardTypeOK
<1>1. /\ params.ADAcquire = 0 /\ UNCHANGED <<driverVars, camera, frameCount>>
      /\ doneQ' = <<>> /\ running' = FALSE /\ freed' = frameCount
      /\ bufStatus' = [b \in Buffers |-> "AVAILABLE"] /\ content' = [b \in Buffers |-> 0]
      /\ cirEvent' \in {cirEvent, "ABORTED"}
  BY DEF SetROI, ClientMay, Orderly
<1>2. TypeInv'
  <2>1. <<>> \in Seq(Buffers)
    OBVIOUS
  <2>2. doneQ' \in Seq(Buffers)
    BY <1>1, <2>1
  <2>3. bufStatus' \in [Buffers -> BufferStates] /\ content' \in [Buffers -> Nat]
    BY <1>1 DEF BufferStates
  <2>4. BoardTypeOK'
    BY <1>0, <1>1, <2>2, <2>3 DEF BoardTypeOK
  <2>5. SharedTypeInv'
    BY <1>0, <1>1, <2>4 DEF SharedTypeInv, driverVars, DriverTypeOK, Copying
  <2> QED BY <1>0, <1>1, <2>5, TypeElsewhere DEF driverVars
<1>3. BoardQueueDistinct' /\ Held' = {}
  BY <1>1 DEF BoardQueueDistinct, Held
<1>4. OneOwner'
  BY <1>1, <1>3, RestOwnsNothing DEF driverVars
<1>5. AcqInv'
  <2>1. ~running' /\ ("command" \notin Faults => ~camera')
    BY <1>0, <1>1 DEF RestInv
  <2> QED BY <1>0, <1>1, <1>3, <2>1, AcqAtRest DEF driverVars
<1>6. BuffersInv'
  <2>1. w'.pc = "idle" /\ ~startEvent'
    BY <1>0, <1>1 DEF RestInv, driverVars
  <2> QED BY <1>1, <1>3, <2>1 DEF BuffersInv
<1>7. FreedInv'
  BY <1>0, <1>1 DEF FreedInv
<1>8. RegionInv'
  BY DEF SetROI, RegionSet, RegionInv
<1> QED BY <1>2, <1>4, <1>5, <1>6, <1>7, <1>8 DEF IInv, RoiInv

LEMMA IInvStartUnready == ASSUME Orderly, IInv, WriteStartUnready PROVE IInv'
<1>0. /\ AcqInv /\ RestInv /\ SharedTypeInv /\ TypeInv /\ BoardTypeOK /\ DriverTypeOK
      /\ params \in Params /\ RoiInv
  BY IInvTypes DEF IInv, AcqInv
<1>1. /\ params.ADAcquire = 0 /\ startEvent' = TRUE /\ ~HasBuffers /\ ~HasBuffers'
      /\ params' = [params EXCEPT !.ADAcquire = 1] /\ starts' = starts + 1
      /\ camera' = TRUE \/ camera' = camera
      /\ UNCHANGED <<running, bufStatus, content, doneQ, cirEvent, frameCount>>
      /\ UNCHANGED <<uniqueId, msgQ, w, p, liveArrays, delivered>>
      /\ UNCHANGED <<freed, roiSize, bitsPerPixel, geometry, roiStatus>>
  BY DEF WriteStartUnready, ClientMay, Orderly, CameraCommand, HasBuffers, regionVars
<1>2. TypeInv'
  <2>1. params' \in Params /\ BoardTypeOK'
    BY <1>0, <1>1 DEF Params, BoardTypeOK
  <2>2. SharedTypeInv'
    BY <1>0, <1>1, <2>1 DEF SharedTypeInv, DriverTypeOK, Copying
  <2> QED BY <1>0, <1>1, <2>2, TypeElsewhere
<1>3. OneOwner'
  BY <1>1, RestOwnsNothing DEF IInv, OneOwner, Ownership, BoardQueueDistinct
<1>4. AcqInv'
  BY <1>0, <1>1, AcqStart DEF Held
<1>5. BuffersInv' /\ RegionInv' /\ FreedInv'
  BY <1>0, <1>1 DEF RoiInv, BuffersInv, RegionInv, FreedInv, Held
<1> QED BY <1>2, <1>3, <1>4, <1>5 DEF IInv, RoiInv

LEMMA IInvStep == ASSUME Orderly, IInv, [RoiNext]_roiVars PROVE IInv'
<1>1. CASE InPlaceStep
  BY <1>1, IInvInPlace
<1>2. CASE SetROI
  BY <1>2, IInvSetROI
<1>3. CASE WriteStartUnready
  BY <1>3, IInvStartUnready
<1>4. CASE UNCHANGED roiVars
  <2>1. UNCHANGED <<vars, freed, roiSize, bitsPerPixel, geometry, roiStatus>>
    BY <1>4 DEF roiVars, regionVars
  <2>2. TypeInv' /\ OneOwner'
    BY <2>1, TypeStep, OwnerStep DEF IInv
  <2>3. UNCHANGED <<boardVars, params, startEvent, w>>
    BY <2>1 DEF vars, driverVars
  <2>4. AcqInv'
    BY <2>3, AcqUnchanged DEF IInv, boardVars, Held
  <2>5. BuffersInv' /\ RegionInv' /\ FreedInv'
    BY <2>1, <2>3 DEF IInv, RoiInv, BuffersInv, RegionInv, FreedInv, HasBuffers, boardVars, Held
  <2> QED BY <2>2, <2>4, <2>5 DEF IInv, RoiInv
<1> QED BY <1>1, <1>2, <1>3, <1>4 DEF RoiNext, InPlaceStep

LEMMA IInvAlways == Orderly => (RoiSpec => []IInv)
<1>1. ASSUME Orderly PROVE RoiSpec => []IInv
  <2>1. IInv /\ [RoiNext]_roiVars => IInv'
    BY <1>1, IInvStep
  <2> QED BY <2>1, IInvInit, PTL DEF RoiSpec
<1> QED BY <1>1

\* With one acquisition at a time a frame is copied from a buffer that is still there,
\* whatever regions were asked for before, and unless the last setROI failed the size of
\* the copy is computed from the geometry that the board gave that buffer.
THEOREM LinuxCopyReadsBuffer == ASSUME Orderly PROVE RoiSpec => []CopyReadsBuffer
<1>1. IInv => CopyReadsBuffer
  <2> SUFFICES ASSUME IInv, InUse # {}
               PROVE  /\ geometry # NoBuffers /\ \A f \in InUse : f > freed
                      /\ roiStatus # "error" =>
                           roiSize = geometry.size /\ bitsPerPixel = geometry.bits
    BY DEF CopyReadsBuffer
  <2>1. Held # {}
    BY RestIsEmpty
  <2>2. geometry # NoBuffers
    BY <2>1 DEF IInv, RoiInv, BuffersInv, HasBuffers
  <2>3. ASSUME NEW f \in InUse PROVE f > freed
    BY InUseHasBuffer DEF IInv, RoiInv, FreedInv
  <2>4. roiStatus # "error" => roiStatus = "success"
    BY <2>2 DEF IInv, RoiInv, RegionInv, HasBuffers
  <2> QED BY <2>2, <2>3, <2>4 DEF IInv, RoiInv, RegionInv
<1> QED BY <1>1, IInvAlways, PTL

-----------------------------------------------------------------------------
\* The Linux build keeps the contract.

\* The variables of the contract.
CBusy == params.ADAcquire = 1 /\ HasBuffers
CCount == IF startEvent \/ w.pc = "woken" THEN 0 ELSE params.ADNumImagesCounter
CVars == <<CBusy, Target, CCount>>

ContractStep == [Contract!Next]_CVars

\* No step but writing the image mode changes it.
LEMMA BoundedStep ==
  ASSUME Orderly, "Continuous" \notin ImageModes, IInv, Bounded, [RoiNext]_roiVars
  PROVE  Bounded'
<1>0. params \in Params
  BY IInvTypes
<1>1. CASE RoiClient
  BY <1>0, <1>1 DEF RoiClient, WriteStart, WriteStop, StopCapture, WriteParam, Bounded, Params
<1>2. CASE RoiWait
  BY <1>0, <1>2 DEF RoiWait, WaitImage, TakeEvent, BeginGrab, GetFrame, SendMessage, NoNewData,
       GotAborted, StopCapture, Bounded, Params
<1>3. ASSUME NEW t \in Threads, RoiProcess(t) PROVE Bounded'
  <2>1. CASE Receive(t) \/ AllocFails(t) \/ NullData(t) \/ BeginCopy(t)
    BY <2>1, FrameNotCounted DEF Bounded
  <2>2. CASE SkipCopy(t) \/ FinishCopy(t)
    BY <2>2, IInvTypes, FrameCounted DEF IInv, Bounded
  <2> QED BY <1>3, <2>1, <2>2 DEF RoiProcess, ProcessImage
<1>4. CASE RoiBoard \/ SetROI \/ UNCHANGED roiVars
  BY <1>4 DEF RoiBoard, SetROI, roiVars, vars, driverVars, Bounded
<1>5. CASE WriteStartUnready
  BY <1>0, <1>5 DEF WriteStartUnready, Bounded, Params
<1> QED BY <1>1, <1>2, <1>3, <1>4, <1>5 DEF RoiNext

LEMMA ContractUnmoved ==
  ASSUME UNCHANGED <<params, startEvent, w>>, geometry' = geometry \/ params.ADAcquire = 0
  PROVE  ContractStep
BY DEF ContractStep, CVars, CBusy, CCount, Target, HasBuffers

LEMMA ContractClient == ASSUME Orderly, IInv, RoiClient PROVE ContractStep
<1>0. /\ params \in Params /\ UNCHANGED geometry /\ HasBuffers' = HasBuffers
      /\ Target \in Nat \ {0} /\ RestInv
  BY IInvTypes, TargetPositive DEF RoiClient, regionVars, HasBuffers, IInv, AcqInv
<1>1. CASE WriteParam /\ params' = [params EXCEPT !.NDArrayCallbacks = ~@]
  <2>1. /\ UNCHANGED <<startEvent, w>> /\ params'.ADAcquire = params.ADAcquire
        /\ params'.ADNumImagesCounter = params.ADNumImagesCounter
        /\ params'.ADImageMode = params.ADImageMode /\ params'.ADNumImages = params.ADNumImages
    BY <1>0, <1>1 DEF WriteParam, Params
  <2> QED BY <1>0, <2>1 DEF ContractStep, CVars, CBusy, CCount, Target
<1>2. CASE WriteParam /\ params.ADAcquire = 0
  <2>1. /\ UNCHANGED <<startEvent, w>> /\ params'.ADAcquire = params.ADAcquire
        /\ params'.ADNumImagesCounter = params.ADNumImagesCounter
    BY <1>0, <1>2 DEF WriteParam, Params
  <2>2. params' \in Params
    BY <1>0, <1>2, ClientAssumption DEF WriteParam, Params
  <2>3. Target' \in Nat \ {0}
    BY <2>2 DEF Target, Params
  <2>4. Contract!Configure
    BY <1>2, <2>1, <2>3 DEF Contract!Configure, Target
  <2> QED BY <2>4 DEF ContractStep, Contract!Next
<1>3. CASE WriteStop /\ params.ADAcquire = 0
  <2>1. params' = params
    BY <1>0, <1>3 DEF WriteStop, StopCapture, Params
  <2> QED BY <1>0, <1>3, <2>1, ContractUnmoved DEF WriteStop
<1>4. CASE HasBuffers /\ WriteStart /\ params.ADAcquire = 0
  <2>1. /\ params'.ADAcquire = 1 /\ startEvent' = TRUE /\ HasBuffers'
        /\ params'.ADImageMode = params.ADImageMode /\ params'.ADNumImages = params.ADNumImages
    BY <1>0, <1>4 DEF WriteStart, StartCapture, Params
  <2>2. Contract!Start
    BY <1>4, <2>1 DEF Contract!Start, HasBuffers
  <2> QED BY <2>2 DEF ContractStep, Contract!Next
<1> QED BY <1>1, <1>2, <1>3, <1>4, OrderlyClient DEF RoiClient, Client, HasBuffers

LEMMA ContractWait == ASSUME IInv, RoiWait PROVE ContractStep
<1>0. /\ params \in Params /\ w \in WaitThread /\ HasBuffers' = HasBuffers
      /\ RestInv /\ StartInv /\ BuffersInv
  BY IInvTypes DEF RoiWait, regionVars, HasBuffers, IInv, AcqInv, RoiInv
<1>1. CASE TakeEvent
  <2>1. UNCHANGED params /\ startEvent /\ w'.pc = "woken"
    BY <1>0, <1>1 DEF TakeEvent, WaitThread
  <2> QED BY <1>0, <2>1 DEF ContractStep, CVars, CBusy, CCount, Target
<1>2. CASE BeginGrab
  <2>1. /\ params.ADAcquire = 1 /\ ~startEvent /\ w.pc = "woken"
        /\ UNCHANGED startEvent /\ w'.pc = "poll"
    BY <1>0, <1>2, IInvTypes DEF BeginGrab, RestInv, StartInv, WaitThread
  <2>2. /\ params'.ADAcquire = 1 /\ params'.ADNumImagesCounter = 0
        /\ params'.ADImageMode = params.ADImageMode /\ params'.ADNumImages = params.ADNumImages
    BY <1>0, <1>2 DEF BeginGrab, Params
  <2> QED BY <1>0, <2>1, <2>2 DEF ContractStep, CVars, CBusy, CCount, Target
<1>3. CASE GetFrame \/ SendMessage \/ NoNewData \/ GotAborted
  <2>1. w.pc \notin {"idle", "woken"} /\ w'.pc # "woken" /\ UNCHANGED startEvent
    <3>1. CASE GetFrame
      BY <1>0, <3>1 DEF GetFrame, WaitThread
    <3>2. CASE SendMessage
      BY <1>0, <3>2 DEF SendMessage, WaitThread
    <3>3. CASE NoNewData \/ GotAborted
      BY <1>0, <3>3 DEF NoNewData, GotAborted, WaitThread
    <3> QED BY <1>3, <3>1, <3>2, <3>3
  <2>2. /\ params'.ADNumImagesCounter = params.ADNumImagesCounter
        /\ params'.ADImageMode = params.ADImageMode /\ params'.ADNumImages = params.ADNumImages
        /\ ~GotAborted => params'.ADAcquire = params.ADAcquire
    BY <1>0, <1>3 DEF GetFrame, SendMessage, NoNewData, GotAborted, StopCapture, Params
  <2>3. GotAborted => ~HasBuffers
    BY <1>0 DEF GotAborted, BuffersInv
  <2> QED BY <1>0, <2>1, <2>2, <2>3 DEF ContractStep, CVars, CBusy, CCount, Target
<1> QED BY <1>1, <1>2, <1>3 DEF RoiWait, WaitImage

LEMMA ContractProcess ==
  ASSUME Orderly, IInv, Bounded, NEW t \in Threads, RoiProcess(t)
  PROVE  ContractStep
<1>1. CASE Receive(t) \/ AllocFails(t) \/ NullData(t) \/ BeginCopy(t)
  BY <1>1, FrameNotCounted, ContractUnmoved DEF RoiProcess, regionVars
<1>2. CASE SkipCopy(t) \/ FinishCopy(t)
  <2>0. /\ AcqInv /\ HasBuffers' = HasBuffers /\ BuffersInv
        /\ params.ADNumImagesCounter \in Nat /\ Target \in Nat
    BY IInvTypes, TargetPositive DEF IInv, RoiInv, RoiProcess, regionVars, HasBuffers, Params
  <2>1. HasBuffers
    BY <1>2, <2>0, BusyWhileHeld, IInvTypes DEF BuffersInv, SkipCopy, FinishCopy
  <2>2. /\ params.ADAcquire = 1 /\ ~startEvent /\ w.pc # "woken"
        /\ UNCHANGED <<startEvent, w>>
        /\ params'.ADImageMode = params.ADImageMode /\ params'.ADNumImages = params.ADNumImages
        /\ params'.ADNumImagesCounter = params.ADNumImagesCounter + 1
        /\ params'.ADNumImagesCounter <= Target
        /\ \/ params'.ADNumImagesCounter < Target /\ params'.ADAcquire = 1
           \/ params'.ADNumImagesCounter = Target /\ params'.ADAcquire = 0
    BY <1>2, <2>0, FrameCounted, IInvTypes
  <2>3. Contract!Image
    BY <2>0, <2>1, <2>2 DEF Contract!Image, Target, HasBuffers
  <2> QED BY <2>3 DEF ContractStep, Contract!Next
<1> QED BY <1>1, <1>2 DEF RoiProcess, ProcessImage

LEMMA ContractRoiStep ==
  ASSUME Orderly, IInv, Bounded, [RoiNext]_roiVars
  PROVE  ContractStep
<1>1. CASE RoiBoard \/ UNCHANGED roiVars
  BY <1>1, ContractUnmoved DEF RoiBoard, regionVars, roiVars, vars, driverVars
<1>2. CASE RoiClient
  BY <1>2, ContractClient
<1>3. CASE RoiWait
  BY <1>3, ContractWait
<1>4. CASE \E t \in Threads : RoiProcess(t)
  BY <1>4, ContractProcess
<1>5. CASE SetROI
  BY <1>5, ContractUnmoved DEF SetROI, ClientMay, Orderly, driverVars
<1>6. CASE WriteStartUnready
  <2>1. /\ ~HasBuffers /\ ~HasBuffers' /\ startEvent' = TRUE
        /\ params'.ADImageMode = params.ADImageMode /\ params'.ADNumImages = params.ADNumImages
    BY <1>6, IInvTypes DEF WriteStartUnready, regionVars, HasBuffers, Params
  <2>2. Contract!StartInVain
    BY <2>1 DEF Contract!StartInVain, HasBuffers
  <2> QED BY <2>2 DEF ContractStep, Contract!Next
<1> QED BY <1>1, <1>2, <1>3, <1>4, <1>5, <1>6 DEF RoiNext

LEMMA ContractInit ==
  ASSUME "Continuous" \notin ImageModes, RoiInit
  PROVE  Bounded /\ Contract!Init
<1>1. params.ADImageMode \in ImageModes /\ params.ADAcquire = 0 /\ params.ADNumImagesCounter = 0
  BY DEF RoiInit, Init, DriverInit
<1>2. Target \in Nat \ {0}
  BY IInvInit, IInvTypes, TargetPositive
<1> QED BY <1>1, <1>2 DEF Bounded, Contract!Init, Target

\* The Linux build keeps the contract's safety part under the same conditions as the
\* Windows build, although it processes no image before the last was collected.  That
\* an acquisition comes to its end is another matter: it does not if it asks for more
\* images than there are buffers.
THEOREM LinuxKeepsContract ==
  ASSUME Orderly, "Continuous" \notin ImageModes
  PROVE  RoiSpec => Contract!Safety
<1>1. RoiInit => IInv /\ Bounded /\ Contract!Init
  BY IInvInit, ContractInit
<1>2. IInv /\ Bounded /\ [RoiNext]_roiVars => (IInv /\ Bounded)' /\ [Contract!Next]_(Contract!vars)
  BY IInvStep, BoundedStep, ContractRoiStep
     DEF ContractStep, CVars, CBusy, CCount, Target, HasBuffers, Contract!vars
<1> QED BY <1>1, <1>2, PTL DEF RoiSpec, Contract!Safety
=============================================================================
