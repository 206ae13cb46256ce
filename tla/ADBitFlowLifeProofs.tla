-------------------------- MODULE ADBitFlowLifeProofs --------------------------
(***************************************************************************)
(* Proofs about ADBitFlowLife: with one acquisition at a time the driver   *)
(* comes to rest after each, so that the region can be changed and the     *)
(* board deleted, and it keeps the safety part of the AcquisitionContract. *)
(***************************************************************************)
EXTENDS ADBitFlowLife, ADBitFlowWinProofs

\* With buffers an acquisition is not aborted while the wait thread takes frames;
\* without them there are no frames.
ReadyInv ==
  /\ ready /\ (startEvent \/ w.pc # "idle") =>
       /\ cirEvent # "ABORTED"
       /\ w.pc = "got" => w.status # "ABORTED"
  /\ ~ready =>
       /\ ~running /\ doneQ = <<>> /\ Held = {}
       /\ w.pc # "send"
       /\ w.pc = "got" => w.status # "OK"

\* The frames of all buffers that are not free were written since the buffers were
\* allocated; and the board is deleted at rest.
FreedInv ==
  /\ freed <= frameCount
  /\ boardOpen => \A b \in Buffers : bufStatus[b] # "AVAILABLE" => content[b] > freed
  /\ ~boardOpen => params.ADAcquire = 0

LifeInv ==
  /\ freed \in Nat /\ ready \in BOOLEAN /\ boardOpen \in BOOLEAN
  /\ ReadyInv /\ FreedInv

IInv == TypeInv /\ OneOwner /\ AcqInv /\ LifeInv

LEMMA IInvTypes ==
  ASSUME IInv
  PROVE  /\ BoardTypeOK /\ DriverTypeOK /\ SendType /\ SharedTypeInv
         /\ Ownership /\ ReturnedIntact
         /\ w \in WaitThread /\ w.imagesCollected \in Nat
         /\ (w.handle # None) <=> (w.pc = "send" \/ (w.pc = "got" /\ w.status = "OK"))
         /\ params \in Params /\ params.ADAcquire \in {0, 1}
BY TypeInvShared DEF IInv, TypeInv, TypeOK, OneOwner, DriverTypeOK, Params, WaitThread

LEMMA IInvInit == LifeInit => IInv
<1> SUFFICES ASSUME LifeInit PROVE IInv
  OBVIOUS
<1>1. TypeInv /\ OneOwner
  BY TypeInit, OwnerInit DEF LifeInit
<1>2. DriverInit /\ w.pc = "idle" /\ ~startEvent /\ ready = TRUE /\ boardOpen = TRUE
  BY DEF LifeInit, Init, DriverInit
<1>3. \A b \in Buffers : bufStatus[b] = "AVAILABLE"
  BY <1>2 DEF DriverInit, BoardInit
<1>4. freed = 0 /\ frameCount = 0
  BY <1>2 DEF LifeInit, DriverInit, BoardInit
<1>5. LifeInv
  BY <1>2, <1>3, <1>4 DEF LifeInv, ReadyInv, FreedInv
<1> QED BY <1>1, <1>2, <1>5, AcqInit DEF IInv

-----------------------------------------------------------------------------
\* Nothing is in use at rest.

LEMMA RestIsEmpty ==
  ASSUME IInv, Held = {}
  PROVE  /\ w.pc # "send" /\ msgQ = <<>>
         /\ \A t \in Threads : p[t].pc = "receive"
<1>0. BoardTypeOK /\ DriverTypeOK /\ SendType /\ Ownership
  BY IInvTypes
<1>1. w.pc # "send"
  BY <1>0 DEF SendType, Handles, Ownership, SenderPins, Pinned, Held
<1>2. \A t \in Threads : p[t].pc = "receive"
  BY <1>0, ThreadElement DEF Ownership, ThreadsPin, Pinned, Held
<1>3. msgQ = <<>>
  <2>1. ~(1 \in 1 .. Len(msgQ))
    BY <1>0, QueueElement DEF Ownership, QueuePins, Pinned, Held
  <2>2. Len(msgQ) = 0
    BY <1>0, <2>1 DEF DriverTypeOK
  <2> QED BY <1>0, <2>2 DEF DriverTypeOK
<1> QED BY <1>1, <1>2, <1>3

LEMMA InUseEmpty ==
  ASSUME IInv, params.ADAcquire = 0
  PROVE  InUse = {} /\ w.pc = "idle"
<1>1. w.pc = "idle" /\ Held = {}
  BY DEF IInv, AcqInv, RestInv
<1>2. w.handle = None
  BY <1>1, IInvTypes
<1>3. msgQ = <<>> /\ \A t \in Threads : p[t].pc = "receive"
  BY <1>1, RestIsEmpty
<1> QED BY <1>1, <1>2, <1>3 DEF InUse

\* A frame in use is in a buffer that is not free.
LEMMA InUseHasBuffer ==
  ASSUME IInv, NEW f \in InUse
  PROVE  \E b \in Buffers : bufStatus[b] # "AVAILABLE" /\ content[b] = f
<1>0. BoardTypeOK /\ DriverTypeOK /\ Ownership /\ ReturnedIntact /\ w \in WaitThread
  BY IInvTypes
<1>1. CASE w.handle # None /\ f = w.handle.frame
  <2>1. w.handle.buf \in Buffers
    BY <1>0, <1>1 DEF WaitThread, Handles
  <2>2. w.pc = "send" \/ (w.pc = "got" /\ w.status = "OK")
    BY <1>1, IInvTypes
  <2> QED BY <1>0, <1>1, <2>1, <2>2 DEF Ownership, SenderPins, ReturnedIntact, Pinned
<1>2. ASSUME NEW i \in 1 .. Len(msgQ), f = msgQ[i].frame
      PROVE  \E b \in Buffers : bufStatus[b] # "AVAILABLE" /\ content[b] = f
  BY <1>0, <1>2, QueueElement DEF Ownership, QueuePins, Pinned
<1>3. ASSUME NEW t \in Threads, p[t].pc # "receive", f = p[t].msg.frame
      PROVE  \E b \in Buffers : bufStatus[b] # "AVAILABLE" /\ content[b] = f
  BY <1>0, <1>3, ThreadElement DEF Ownership, ThreadsPin, Pinned
<1> QED BY <1>1, <1>2, <1>3 DEF InUse

-----------------------------------------------------------------------------
\* The steps of the pipeline.

\* At rest only the client can do something.
LEMMA RestIsQuiet ==
  ASSUME IInv, params.ADAcquire = 0
  PROVE  ~WaitImage /\ \A t \in Threads : ~ProcessImage(t)
<1>1. w.pc = "idle" /\ ~startEvent /\ msgQ = <<>> /\ \A t \in Threads : p[t].pc = "receive"
  BY RestIsEmpty DEF IInv, AcqInv, RestInv
<1>2. ~WaitImage
  BY <1>1 DEF WaitImage, TakeEvent, BeginGrab, WaitDoneFrame, HoldFrame, SendMessage,
              GotStopped, GotAborted, GotError
<1>3. \A t \in Threads : ~ProcessImage(t)
  BY <1>1 DEF ProcessImage, Receive, AllocFails, NullData, BeginCopy, SkipCopy, FinishCopy
<1> QED BY <1>2, <1>3

LEMMA HoldFrameTakes ==
  ASSUME IInv, HoldFrame
  PROVE  Cardinality(Held') = Cardinality(Held) + 1
<1> DEFINE b == w.handle.buf
<1>1. b \in Buffers /\ bufStatus[b] = "RETURNED" /\ BoardTypeOK
  BY IInvTypes DEF HoldFrame, WaitThread, Handles, ReturnedIntact
<1>2. Held' = Held \cup {b} /\ b \notin Held
  BY <1>1 DEF HoldFrame, Held, BoardTypeOK
<1> QED BY <1>2, HeldFinite, CardinalityAdd

\* A frame that waitDoneFrame returns is not held yet.
LEMMA WaitDoneFrameKeepsHeld == ASSUME IInv, WaitDoneFrame PROVE Held' = Held
<1>1. CASE ReturnFrame
  <2>1. Head(doneQ) \in Buffers /\ bufStatus[Head(doneQ)] = "DONE" /\ BoardTypeOK
    BY <1>1, IInvTypes DEF ReturnFrame, Ownership, BoardQueueDistinct, BoardTypeOK
  <2> QED BY <1>1, <2>1 DEF ReturnFrame, Held, BoardTypeOK
<1>2. CASE ReturnEvent \/ UNCHANGED boardVars
  BY <1>2 DEF ReturnEvent, boardVars, Held
<1> QED BY <1>1, <1>2 DEF WaitDoneFrame

LEMMA AcqWait == ASSUME IInv, WaitImage PROVE AcqInv'
<1>0. /\ AcqInv /\ DriverTypeOK /\ params \in Params /\ w \in WaitThread
      /\ w.imagesCollected \in Nat
  BY IInvTypes DEF IInv
<1>1. CASE TakeEvent
  <2>1. w'.pc = "woken" /\ ~startEvent' /\ UNCHANGED <<params, running, camera, bufStatus>>
    BY <1>0, <1>1 DEF TakeEvent, boardVars, WaitThread
  <2> QED BY <1>0, <1>1, <2>1, AcqSeen DEF TakeEvent, Held
<1>2. CASE BeginGrab
  <2>1. /\ w'.pc = "waitFrame" /\ w'.imageMode = params.ADImageMode
        /\ w'.numImages = params.ADNumImages /\ w'.imagesCollected = 0
        /\ UNCHANGED <<startEvent, bufStatus>>
    BY <1>0, <1>2 DEF BeginGrab, boardVars, WaitThread
  <2> QED BY <1>0, <1>2, <2>1, AcqBegin DEF BeginGrab, Held
<1>3. CASE WaitDoneFrame
  <2>1. /\ w.pc = "waitFrame" /\ w'.pc = "got" /\ w'.imageMode = w.imageMode
        /\ w'.numImages = w.numImages /\ w'.imagesCollected = w.imagesCollected
        /\ UNCHANGED <<params, startEvent>>
    BY <1>0, <1>3 DEF WaitDoneFrame, WaitThread
  <2> QED BY <1>0, <1>3, <2>1, WaitDoneFrameKeepsHeld, AcqGoesOn DEF Collecting
<1>4. CASE HoldFrame
  <2>1. /\ w.pc = "got" /\ w'.pc = "send" /\ w'.imageMode = w.imageMode
        /\ w'.numImages = w.numImages /\ w'.imagesCollected = w.imagesCollected
        /\ UNCHANGED <<params, startEvent, running, camera>>
    BY <1>0, <1>4 DEF HoldFrame, WaitThread
  <2> QED BY <1>0, <1>4, <2>1, HoldFrameTakes, AcqTake DEF Collecting
<1>5. CASE SendMessage
  <2> DEFINE counted == [w EXCEPT !.imagesCollected = w.imagesCollected + 1, !.handle = None]
  <2>1. w.pc = "send" /\ Held' = Held /\ UNCHANGED startEvent
    BY <1>5 DEF SendMessage, Held
  <2>2. /\ counted.imageMode = w.imageMode /\ counted.numImages = w.numImages
        /\ counted.imagesCollected = w.imagesCollected + 1
    BY <1>0 DEF WaitThread
  <2>3. CASE w' = [counted EXCEPT !.pc = "idle"] /\ params' = [params EXCEPT !.ADStatus = "Idle"]
    <3>1. w'.pc = "idle"
      BY <1>0, <2>3 DEF WaitThread
    <3> QED BY <1>0, <2>1, <2>3, <3>1, AcqNoMore DEF Collecting
  <2>4. CASE /\ ~Collected(counted)
             /\ w' = [counted EXCEPT !.pc = "waitFrame"]
             /\ params' = [params EXCEPT !.ADStatus = "Waiting"]
    <3>1. /\ w'.pc = "waitFrame" /\ w'.imageMode = w.imageMode /\ w'.numImages = w.numImages
          /\ w'.imagesCollected = w.imagesCollected + 1
      BY <1>0, <2>4 DEF WaitThread
    <3>2. ~(\/ w.imageMode = "Single"
            \/ w.imageMode = "Multiple" /\ w.imagesCollected + 1 >= w.numImages)
      BY <2>2, <2>4 DEF Collected
    <3> QED BY <1>0, <2>1, <2>4, <3>1, <3>2, AcqSent
  <2> QED BY <1>5, <2>3, <2>4 DEF SendMessage
<1>6. CASE GotStopped
  <2>1. /\ w.pc = "got" /\ w'.pc = "idle" /\ UNCHANGED <<startEvent, bufStatus>>
        /\ params' = [params EXCEPT !.ADStatus = "Idle"]
    BY <1>0, <1>6 DEF GotStopped, boardVars, WaitThread
  <2> QED BY <1>0, <2>1, AcqNoMore DEF Collecting, Held
<1>7. CASE GotAborted
  <2>1. /\ w.pc = "got" /\ w'.pc = "idle" /\ UNCHANGED <<startEvent, bufStatus>>
        /\ StopCapture([params EXCEPT !.ADStatus = "Idle"])
    BY <1>0, <1>7 DEF GotAborted, WaitThread
  <2>2. Held = {} /\ Held' = Held
    BY <1>7, <2>1 DEF GotAborted, IInv, LifeInv, ReadyInv, Held
  <2> QED BY <1>0, <2>1, <2>2, AcqStopped DEF Collecting
<1>8. CASE GotError
  <2>1. /\ w.pc = "got" /\ w'.pc = "waitFrame" /\ w'.imageMode = w.imageMode
        /\ w'.numImages = w.numImages /\ w'.imagesCollected = w.imagesCollected
        /\ UNCHANGED <<startEvent, bufStatus>>
        /\ params' = [params EXCEPT !.ADStatus = "Waiting"]
    BY <1>0, <1>8 DEF GotError, boardVars, WaitThread
  <2> QED BY <1>0, <2>1, AcqGoesOn DEF Collecting, Held
<1> QED BY <1>1, <1>2, <1>3, <1>4, <1>5, <1>6, <1>7, <1>8 DEF WaitImage

LEMMA ReadyWait == ASSUME IInv, WaitImage, UNCHANGED ready PROVE ReadyInv'
<1>0. /\ ReadyInv /\ StartInv /\ w \in WaitThread /\ BoardTypeOK /\ DriverTypeOK
      /\ ready \in BOOLEAN
  BY IInvTypes DEF IInv, AcqInv, LifeInv
<1>1. CASE TakeEvent \/ BeginGrab
  <2>1. w'.pc \in {"woken", "waitFrame"} /\ UNCHANGED <<running, doneQ, bufStatus, cirEvent>>
    BY <1>0, <1>1 DEF TakeEvent, BeginGrab, boardVars, WaitThread
  <2>2. startEvent \/ w.pc # "idle"
    BY <1>1 DEF TakeEvent, BeginGrab
  <2> QED BY <1>0, <2>1, <2>2 DEF ReadyInv, Held
<1>2. CASE WaitDoneFrame
  <2>0. /\ w.pc = "waitFrame" /\ w'.pc = "got" /\ Held' = Held
        /\ UNCHANGED running
    BY <1>0, <1>2, WaitDoneFrameKeepsHeld
       DEF WaitDoneFrame, WaitThread, ReturnFrame, ReturnEvent, boardVars
  <2>1. CASE doneQ # <<>> /\ UNCHANGED cirEvent /\ w'.status = "OK"
    BY <1>0, <1>2, <2>0, <2>1 DEF ReadyInv
  <2>2. CASE /\ cirEvent # "none" /\ cirEvent' \in {cirEvent, "none"}
             /\ UNCHANGED doneQ /\ w'.status = cirEvent
    BY <1>0, <1>2, <2>0, <2>2 DEF ReadyInv, BoardTypeOK
  <2>3. CASE UNCHANGED <<doneQ, cirEvent>> /\ w'.status = "ERROR"
    BY <1>0, <1>2, <2>0, <2>3 DEF ReadyInv
  <2>4. \/ doneQ # <<>> /\ UNCHANGED cirEvent /\ w'.status = "OK"
        \/ /\ cirEvent # "none" /\ cirEvent' \in {cirEvent, "none"}
           /\ UNCHANGED doneQ /\ w'.status = cirEvent
        \/ UNCHANGED <<doneQ, cirEvent>> /\ w'.status = "ERROR"
    BY <1>0, <1>2 DEF WaitDoneFrame, WaitThread, ReturnFrame, ReturnEvent, boardVars
  <2> QED BY <2>1, <2>2, <2>3, <2>4
<1>3. CASE HoldFrame
  <2>1. ready /\ cirEvent # "ABORTED" /\ UNCHANGED cirEvent /\ w'.pc = "send"
    BY <1>0, <1>3 DEF HoldFrame, ReadyInv, WaitThread
  <2> QED BY <2>1 DEF ReadyInv
<1>4. CASE SendMessage
  <2>1. ready /\ cirEvent # "ABORTED" /\ ~startEvent /\ UNCHANGED startEvent
    BY <1>0, <1>4 DEF SendMessage, ReadyInv, StartInv
  <2>2. w'.pc = "idle" \/ (w'.pc = "waitFrame" /\ UNCHANGED cirEvent)
    BY <1>0, <1>4 DEF SendMessage, WaitThread
  <2> QED BY <2>1, <2>2 DEF ReadyInv
<1>5. CASE GotStopped \/ GotAborted
  <2>1. w'.pc = "idle" /\ w.pc = "got" /\ UNCHANGED <<startEvent, doneQ, bufStatus>>
    BY <1>0, <1>5 DEF GotStopped, GotAborted, boardVars, WaitThread
  <2>2. ~running => ~running'
    BY <1>5 DEF GotStopped, GotAborted, boardVars, StopCapture, CirAbort
  <2> QED BY <1>0, <2>1, <2>2 DEF ReadyInv, StartInv, Held
<1>6. CASE GotError
  <2>1. w'.pc = "waitFrame" /\ w.pc = "got" /\ UNCHANGED <<running, doneQ, bufStatus, cirEvent>>
    BY <1>0, <1>6 DEF GotError, boardVars, WaitThread
  <2> QED BY <1>0, <2>1 DEF ReadyInv, Held
<1> QED BY <1>1, <1>2, <1>3, <1>4, <1>5, <1>6 DEF WaitImage

LEMMA ReadyBoard ==
  ASSUME Orderly, IInv, Board, UNCHANGED <<driverVars, ready>>
  PROVE  ReadyInv'
<1>0. ReadyInv /\ BoardTypeOK /\ ready \in BOOLEAN
  BY IInvTypes DEF IInv, LifeInv
<1>1. ready
  BY <1>0 DEF Orderly, Board, FrameDone, Overrun, SpontaneousAbort, ReadyInv
<1>2. cirEvent' \in {cirEvent, "STOPPED"} /\ UNCHANGED <<startEvent, w>>
  BY DEF Orderly, Board, FrameDone, Overrun, SpontaneousAbort, driverVars
<1> QED BY <1>0, <1>1, <1>2 DEF ReadyInv

LEMMA ReadyClient ==
  ASSUME Orderly, IInv, WriteStop \/ WriteParam \/ (ready /\ WriteStart), UNCHANGED ready
  PROVE  ReadyInv'
<1>0. ReadyInv /\ RestInv /\ BoardTypeOK /\ ready \in BOOLEAN
  BY IInvTypes DEF IInv, LifeInv, AcqInv
<1>1. CASE WriteParam
  BY <1>0, <1>1 DEF WriteParam, boardVars, ReadyInv, Held
<1>2. CASE WriteStop
  <2>1. w.pc = "idle" /\ ~startEvent
    BY <1>0, <1>2 DEF WriteStop, ClientMay, Orderly, RestInv
  <2>2. ~running' /\ UNCHANGED <<w, startEvent, doneQ, bufStatus>>
    BY <1>2 DEF WriteStop, StopCapture, CirAbort
  <2> QED BY <1>0, <2>1, <2>2 DEF ReadyInv, Held
<1>3. CASE ready /\ WriteStart
  <2>1. w.pc = "idle"
    BY <1>0, <1>3 DEF WriteStart, ClientMay, Orderly, RestInv
  <2>2. UNCHANGED w /\ cirEvent' = "none"
    BY <1>3 DEF WriteStart, StartCapture, CirStart
  <2> QED BY <1>3, <2>1, <2>2 DEF ReadyInv
<1> QED BY <1>1, <1>2, <1>3

LEMMA ReadyProcess ==
  ASSUME Orderly, IInv, NEW t \in Threads, ProcessImage(t), UNCHANGED ready
  PROVE  ReadyInv'
<1>0. ReadyInv /\ AcqInv /\ ready \in BOOLEAN
  BY DEF IInv, LifeInv
<1>1. CASE Receive(t) \/ AllocFails(t) \/ NullData(t) \/ BeginCopy(t)
  <2>1. UNCHANGED <<boardVars, startEvent, w>>
    BY <1>1, FrameNotCounted
  <2> QED BY <1>0, <2>1 DEF boardVars, ReadyInv, Held
<1>2. CASE SkipCopy(t) \/ FinishCopy(t)
  <2>1. p[t].msg.buf \in Held
    BY <1>0, <1>2, BusyWhileHeld, IInvTypes DEF SkipCopy, FinishCopy
  <2>2. ready
    BY <1>0, <2>1 DEF ReadyInv
  <2>3. UNCHANGED cirEvent \/ params'.ADAcquire = 0
    BY <1>2, IInvTypes DEF SkipCopy, FinishCopy, CompleteFrame, StopCapture, Params
  <2>4. UNCHANGED <<w, startEvent>> /\ ~startEvent
    BY <1>0, <1>2, FrameCounted, IInvTypes
  <2>5. params'.ADAcquire = 1 \/ w.pc = "idle"
    BY <1>0, <1>2, FrameCounted, IInvTypes
  <2> QED BY <1>0, <2>2, <2>3, <2>4, <2>5 DEF ReadyInv
<1> QED BY <1>1, <1>2 DEF ProcessImage

\* Only the board fills a buffer, with a frame of a new number; the others pass on what
\* a buffer holds, or free it.
LEMMA BuffersPassedOn ==
  ASSUME IInv, [Next]_vars
  PROVE  /\ frameCount' \in Nat /\ frameCount' >= frameCount
         /\ \A b \in Buffers : bufStatus'[b] # "AVAILABLE" =>
              \/ bufStatus[b] # "AVAILABLE" /\ content'[b] = content[b]
              \/ content'[b] = frameCount + 1
<1>0. BoardTypeOK /\ frameCount \in Nat
  BY IInvTypes DEF BoardTypeOK
<1>1. CASE Board /\ UNCHANGED driverVars
  <2>1. ASSUME NEW c \in Buffers, FrameDone(c)
        PROVE  /\ frameCount' = frameCount + 1 /\ content'[c] = frameCount + 1
               /\ \A b \in Buffers \ {c} : bufStatus'[b] = bufStatus[b] /\ content'[b] = content[b]
    BY <1>0, <2>1 DEF FrameDone, BoardTypeOK
  <2>2. CASE Overrun \/ SpontaneousAbort
    BY <1>0, <2>2 DEF Overrun, SpontaneousAbort
  <2> QED BY <1>0, <1>1, <2>1, <2>2 DEF Board
<1>2. CASE Client
  <2>1. UNCHANGED <<content, frameCount>>
    BY <1>2 DEF Client, WriteStart, WriteStop, WriteParam, StartCapture, CirStart, boardVars
  <2>2. \A b \in Buffers : bufStatus'[b] # "AVAILABLE" => bufStatus[b] # "AVAILABLE"
    BY <1>0, <1>2 DEF Client, WriteStart, WriteStop, WriteParam, StartCapture, CirStart, boardVars
  <2> QED BY <1>0, <2>1, <2>2
<1>3. CASE WaitDoneFrame
  <2>1. CASE ReturnFrame
    <3>1. Head(doneQ) \in Buffers /\ bufStatus[Head(doneQ)] = "DONE"
      BY <1>0, <2>1, IInvTypes DEF ReturnFrame, Ownership, BoardQueueDistinct, BoardTypeOK
    <3> QED BY <1>0, <2>1, <3>1 DEF ReturnFrame, BoardTypeOK
  <2> QED BY <1>0, <1>3, <2>1 DEF WaitDoneFrame, ReturnEvent, boardVars
<1>4. CASE HoldFrame
  <2>1. w.handle.buf \in Buffers /\ bufStatus[w.handle.buf] = "RETURNED"
    BY <1>4, IInvTypes DEF HoldFrame, WaitThread, Handles, ReturnedIntact
  <2> QED BY <1>0, <1>4, <2>1 DEF HoldFrame, BoardTypeOK
<1>5. CASE TakeEvent \/ BeginGrab \/ SendMessage \/ GotStopped \/ GotAborted \/ GotError
           \/ UNCHANGED vars
  <2>1. UNCHANGED <<bufStatus, content, frameCount>>
    BY <1>5 DEF TakeEvent, BeginGrab, SendMessage, GotStopped, GotAborted, GotError, boardVars, vars
  <2> QED BY <1>0, <2>1
<1>6. ASSUME NEW t \in Threads, ProcessImage(t)
      PROVE  /\ UNCHANGED <<content, frameCount>>
             /\ \A b \in Buffers : bufStatus'[b] # "AVAILABLE" => bufStatus[b] # "AVAILABLE"
  BY <1>0, <1>6 DEF ProcessImage, Receive, AllocFails, NullData, BeginCopy, SkipCopy, FinishCopy,
              CompleteFrame, ReleaseBuffer, boardVars, BoardTypeOK
<1>7. CASE \E t \in Threads : ProcessImage(t)
  BY <1>0, <1>6, <1>7
<1> QED BY <1>1, <1>2, <1>3, <1>4, <1>5, <1>7 DEF Next, WaitImage

\* All steps that leave the buffers and the board in place.
InPlaceStep ==
  LifeBoard \/ LifeClient \/ LifeWait \/ (\E t \in Threads : LifeProcess(t))

LEMMA InPlaceStepIsNext == InPlaceStep => Next /\ InPlace
BY DEF InPlaceStep, LifeBoard, LifeClient, LifeWait, LifeProcess, Next, Client

LEMMA IInvInPlace == ASSUME Orderly, IInv, InPlaceStep PROVE IInv'
<1>0. Next /\ [Next]_vars /\ UNCHANGED <<freed, ready, boardOpen>>
  BY InPlaceStepIsNext DEF InPlace
<1>1. TypeInv' /\ OneOwner'
  BY <1>0, TypeStep, OwnerStep DEF IInv
<1>2. AcqInv' /\ ReadyInv'
  <2>1. CASE LifeBoard
    BY <2>1, AcqBoard, ReadyBoard, IInvTypes DEF LifeBoard, InPlace, IInv
  <2>2. CASE LifeClient
    BY <2>2, AcqClient, ReadyClient, IInvTypes DEF LifeClient, InPlace, IInv, Client
  <2>3. CASE LifeWait
    BY <2>3, AcqWait, ReadyWait DEF LifeWait, InPlace
  <2>4. ASSUME NEW t \in Threads, LifeProcess(t) PROVE AcqInv' /\ ReadyInv'
    BY <2>4, AcqProcess, ReadyProcess, IInvTypes DEF LifeProcess, InPlace, IInv
  <2> QED BY <2>1, <2>2, <2>3, <2>4 DEF InPlaceStep
<1>3. FreedInv'
  <2>0. FreedInv /\ freed \in Nat /\ frameCount \in Nat /\ BoardTypeOK /\ boardOpen
    <3>1. boardOpen
      BY RestIsQuiet DEF InPlaceStep, LifeBoard, LifeClient, LifeWait, LifeProcess, IInv, LifeInv,
                         FreedInv
    <3> QED BY <3>1, IInvTypes DEF IInv, LifeInv, BoardTypeOK
  <2>1. freed' <= frameCount'
    BY <1>0, <2>0, BuffersPassedOn DEF FreedInv
  <2>2. ASSUME NEW b \in Buffers, bufStatus'[b] # "AVAILABLE" PROVE content'[b] > freed'
    <3>1. \/ bufStatus[b] # "AVAILABLE" /\ content'[b] = content[b]
          \/ content'[b] = frameCount + 1
      BY <1>0, <2>2, BuffersPassedOn
    <3>2. content[b] \in Nat
      BY <2>0 DEF BoardTypeOK
    <3> QED BY <1>0, <2>0, <3>1, <3>2 DEF FreedInv
  <2> QED BY <1>0, <2>0, <2>1, <2>2 DEF FreedInv
<1> QED BY <1>0, <1>1, <1>2, <1>3 DEF IInv, LifeInv

-----------------------------------------------------------------------------
\* The client's steps that take something away.  All are made at rest.

LEMMA RestOwnsNothing ==
  ASSUME IInv, params.ADAcquire = 0, UNCHANGED <<w, msgQ, p>>, BoardQueueDistinct'
  PROVE  OneOwner'
<1>1. w.pc = "idle" /\ msgQ = <<>> /\ \A t \in Threads : p[t].pc = "receive"
  BY RestIsEmpty DEF IInv, AcqInv, RestInv
<1>2. SenderPins' /\ QueuePins' /\ ThreadsPin' /\ ReturnedIntact'
  BY <1>1 DEF SenderPins, QueuePins, ThreadsPin, ReturnedIntact
<1> QED BY <1>2 DEF OneOwner, Ownership

LEMMA IInvSetROI == ASSUME Orderly, IInv, SetROI PROVE IInv'
<1>0. /\ AcqInv /\ RestInv /\ SharedTypeInv /\ TypeInv /\ freed \in Nat /\ frameCount \in Nat
      /\ BoardTypeOK
  BY IInvTypes DEF IInv, AcqInv, LifeInv, BoardTypeOK
<1>1. /\ params.ADAcquire = 0 /\ UNCHANGED <<driverVars, camera, frameCount, boardOpen>>
      /\ doneQ' = <<>> /\ running' = FALSE /\ freed' = frameCount /\ boardOpen
      /\ bufStatus' = [b \in Buffers |-> "AVAILABLE"] /\ content' = [b \in Buffers |-> 0]
      /\ cirEvent' \in {cirEvent, "ABORTED"} /\ ready' \in BOOLEAN
  BY DEF SetROI, ClientMay, Orderly
<1>2. TypeInv'
  <2>1. <<>> \in Seq(Buffers)
    OBVIOUS
  <2>2. doneQ' \in Seq(Buffers)
    BY <1>1, <2>1
  <2>3. bufStatus' \in [Buffers -> BufferStates] /\ content' \in [Buffers -> Nat]
    BY <1>1 DEF BufferStates
  <2>4. BoardTypeOK'
    BY <1>0, <1>1, <2>2, <2>3 DEF BoardTypeOK
  <2>5. SharedTypeInv'
    BY <1>0, <1>1, <2>4 DEF SharedTypeInv, driverVars, DriverTypeOK, Copying
  <2> QED BY <1>0, <1>1, <2>5, TypeElsewhere DEF driverVars
<1>3. BoardQueueDistinct' /\ Held' = {}
  BY <1>1 DEF BoardQueueDistinct, Held
<1>4. OneOwner'
  BY <1>1, <1>3, RestOwnsNothing DEF driverVars
<1>5. AcqInv'
  <2>1. ~running' /\ ("command" \notin Faults => ~camera')
    BY <1>0, <1>1 DEF RestInv
  <2> QED BY <1>0, <1>1, <1>3, <2>1, AcqAtRest DEF driverVars
<1>6. ReadyInv'
  <2>1. w'.pc = "idle" /\ ~startEvent'
    BY <1>0, <1>1 DEF RestInv, driverVars
  <2> QED BY <1>1, <1>3, <2>1 DEF ReadyInv
<1>7. FreedInv'
  BY <1>0, <1>1 DEF FreedInv
<1> QED BY <1>0, <1>1, <1>2, <1>4, <1>5, <1>6, <1>7 DEF IInv, LifeInv

LEMMA IInvStartUnready == ASSUME Orderly, IInv, WriteStartUnready PROVE IInv'
<1>0. /\ AcqInv /\ RestInv /\ SharedTypeInv /\ TypeInv /\ BoardTypeOK /\ DriverTypeOK
      /\ params \in Params /\ ReadyInv /\ FreedInv /\ LifeInv
  BY IInvTypes DEF IInv, AcqInv, LifeInv
<1>1. /\ params.ADAcquire = 0 /\ startEvent' = TRUE /\ boardOpen /\ ~ready
      /\ params' = [params EXCEPT !.ADAcquire = 1] /\ starts' = starts + 1
      /\ camera' = TRUE \/ camera' = camera
      /\ UNCHANGED <<running, bufStatus, content, doneQ, cirEvent, frameCount>>
      /\ UNCHANGED <<uniqueId, msgQ, w, p, liveArrays, delivered, freed, ready, boardOpen>>
  BY DEF WriteStartUnready, ClientMay, Orderly, CameraCommand
<1>2. TypeInv'
  <2>1. params' \in Params /\ BoardTypeOK'
    BY <1>0, <1>1 DEF Params, BoardTypeOK
  <2>2. SharedTypeInv'
    BY <1>0, <1>1, <2>1 DEF SharedTypeInv, DriverTypeOK, Copying
  <2> QED BY <1>0, <1>1, <2>2, TypeElsewhere
<1>3. OneOwner'
  BY <1>1, RestOwnsNothing DEF IInv, OneOwner, Ownership, BoardQueueDistinct
<1>4. AcqInv'
  BY <1>0, <1>1, AcqStart DEF Held
<1>5. ReadyInv' /\ FreedInv'
  BY <1>0, <1>1 DEF ReadyInv, FreedInv, Held
<1> QED BY <1>0, <1>1, <1>2, <1>3, <1>4, <1>5 DEF IInv, LifeInv

LEMMA IInvShutdown == ASSUME Orderly, IInv, Shutdown PROVE IInv'
<1>0. /\ AcqInv /\ RestInv /\ SharedTypeInv /\ TypeInv /\ BoardTypeOK /\ DriverTypeOK
      /\ params \in Params /\ ReadyInv /\ LifeInv /\ frameCount \in Nat
  BY IInvTypes DEF IInv, AcqInv, LifeInv, BoardTypeOK
<1>1. /\ params.ADAcquire = 0 /\ boardOpen' = FALSE /\ freed' = frameCount
      /\ StopCapture(params)
      /\ UNCHANGED <<bufStatus, content, doneQ, frameCount, ready>>
      /\ UNCHANGED <<startEvent, uniqueId, msgQ, w, p, liveArrays, delivered, starts>>
  BY DEF Shutdown, ClientMay, Orderly
<1>2. BoardTypeOK' /\ params' \in Params
  BY <1>0, <1>1, StopCaptureType DEF BoardTypeOK
<1>3. TypeInv'
  <2>1. SharedTypeInv'
    BY <1>0, <1>1, <1>2 DEF SharedTypeInv, DriverTypeOK, Copying
  <2> QED BY <1>0, <1>1, <2>1, TypeElsewhere
<1>4. OneOwner'
  BY <1>1, RestOwnsNothing DEF IInv, OneOwner, Ownership, BoardQueueDistinct
<1>5. /\ ~running' /\ (camera' = FALSE \/ "command" \in Faults)
      /\ params'.ADAcquire = 0 /\ params'.ADStatus = params.ADStatus
  BY <1>0, <1>1 DEF StopCapture, CirAbort, CameraCommand, Params
<1>6. Held' = {}
  BY <1>0, <1>1 DEF RestInv, Held
<1>7. AcqInv'
  BY <1>0, <1>1, <1>5, <1>6, AcqAtRest
<1>8. ReadyInv' /\ FreedInv'
  BY <1>0, <1>1, <1>5, <1>6 DEF ReadyInv, RestInv, FreedInv
<1> QED BY <1>0, <1>1, <1>3, <1>4, <1>7, <1>8 DEF IInv, LifeInv

LEMMA IInvStep == ASSUME Orderly, IInv, [LifeNext]_lifeVars PROVE IInv'
<1>1. CASE InPlaceStep
  BY <1>1, IInvInPlace
<1>2. CASE SetROI
  BY <1>2, IInvSetROI
<1>3. CASE WriteStartUnready
  BY <1>3, IInvStartUnready
<1>4. CASE Shutdown
  BY <1>4, IInvShutdown
<1>5. CASE UNCHANGED lifeVars
  <2>1. UNCHANGED <<vars, freed, ready, boardOpen>>
    BY <1>5 DEF lifeVars
  <2>2. TypeInv' /\ OneOwner'
    BY <2>1, TypeStep, OwnerStep DEF IInv
  <2>3. UNCHANGED <<boardVars, params, startEvent, w>>
    BY <2>1 DEF vars, driverVars
  <2>4. AcqInv'
    BY <2>3, AcqUnchanged DEF IInv, boardVars, Held
  <2>5. LifeInv'
    BY <2>1, <2>3 DEF IInv, LifeInv, ReadyInv, FreedInv, boardVars, Held
  <2> QED BY <2>2, <2>4, <2>5 DEF IInv
<1> QED BY <1>1, <1>2, <1>3, <1>4, <1>5 DEF LifeNext, InPlaceStep

LEMMA IInvAlways == Orderly => (LifeSpec => []IInv)
<1>1. ASSUME Orderly PROVE LifeSpec => []IInv
  <2>1. IInv /\ [LifeNext]_lifeVars => IInv'
    BY <1>1, IInvStep
  <2> QED BY <2>1, IInvInit, PTL DEF LifeSpec
<1> QED BY <1>1

\* With one acquisition at a time ADAcquire=0 means that the driver is at rest: that an
\* acquisition has ended is what a client learns from it, and it may then do anything.
\* If node commands can fail, the camera may still be sending.
THEOREM RestAfterEachAcquisition ==
  ASSUME Orderly, "command" \notin Faults
  PROVE  LifeSpec => []RestWhenNotAcquiring
<1>1. IInv => RestWhenNotAcquiring
  BY RestIsEmpty DEF IInv, AcqInv, RestInv, RestWhenNotAcquiring
<1> QED BY <1>1, IInvAlways, PTL

\* setROI and shutdown, called between acquisitions, free no buffer that somebody works
\* on, although neither looks.
THEOREM FreesNothingInUse == ASSUME Orderly PROVE LifeSpec => []NothingFreedInUse
<1>1. IInv => NothingFreedInUse
  <2> SUFFICES ASSUME IInv, NEW f \in InUse PROVE f > freed
    BY DEF NothingFreedInUse
  <2>1. boardOpen
    BY InUseEmpty DEF IInv, LifeInv, FreedInv
  <2> QED BY <2>1, InUseHasBuffer DEF IInv, LifeInv, FreedInv
<1> QED BY <1>1, IInvAlways, PTL

\* At exit the board is deleted when the wait thread and the processing threads have
\* done with it, if the client has waited for the acquisition to end.
THEOREM BoardDeletedLast == ASSUME Orderly PROVE LifeSpec => []BoardOutlivesItsUsers
<1>1. IInv => BoardOutlivesItsUsers
  BY InUseEmpty DEF IInv, LifeInv, FreedInv, BoardOutlivesItsUsers
<1> QED BY <1>1, IInvAlways, PTL

-----------------------------------------------------------------------------
\* The driver keeps the contract.

\* The variables of the contract.
CBusy == params.ADAcquire = 1 /\ ready
CCount == IF startEvent \/ w.pc = "woken" THEN 0 ELSE params.ADNumImagesCounter
CVars == <<CBusy, Target, CCount>>

ContractStep == [Contract!Next]_CVars

\* No step but writing the image mode changes it.
LEMMA BoundedStep ==
  ASSUME Orderly, "Continuous" \notin ImageModes, IInv, Bounded, [LifeNext]_lifeVars
  PROVE  Bounded'
<1>0. params \in Params
  BY IInvTypes
<1>1. CASE LifeClient
  BY <1>0, <1>1 DEF LifeClient, WriteStart, WriteStop, StopCapture, WriteParam, Bounded, Params
<1>2. CASE LifeWait
  BY <1>0, <1>2 DEF LifeWait, WaitImage, TakeEvent, BeginGrab, WaitDoneFrame, HoldFrame,
       SendMessage, GotStopped, GotAborted, GotError, StopCapture, Bounded, Params
<1>3. ASSUME NEW t \in Threads, LifeProcess(t) PROVE Bounded'
  <2>1. CASE Receive(t) \/ AllocFails(t) \/ NullData(t) \/ BeginCopy(t)
    BY <2>1, FrameNotCounted DEF Bounded
  <2>2. CASE SkipCopy(t) \/ FinishCopy(t)
    BY <2>2, IInvTypes, FrameCounted DEF IInv, Bounded
  <2> QED BY <1>3, <2>1, <2>2 DEF LifeProcess, ProcessImage
<1>4. CASE LifeBoard \/ SetROI \/ UNCHANGED lifeVars
  BY <1>4 DEF LifeBoard, SetROI, lifeVars, vars, driverVars, Bounded
<1>5. CASE WriteStartUnready \/ Shutdown
  BY <1>0, <1>5 DEF WriteStartUnready, Shutdown, StopCapture, Bounded, Params
<1> QED BY <1>1, <1>2, <1>3, <1>4, <1>5 DEF LifeNext

LEMMA ContractUnmoved ==
  ASSUME UNCHANGED <<params, startEvent, w>>, ready' = ready \/ params.ADAcquire = 0
  PROVE  ContractStep
BY DEF ContractStep, CVars, CBusy, CCount, Target

LEMMA ContractClient == ASSUME Orderly, IInv, LifeClient PROVE ContractStep
<1>0. /\ params \in Params /\ UNCHANGED ready /\ Target \in Nat \ {0}
      /\ RestInv
  BY IInvTypes, TargetPositive DEF LifeClient, InPlace, IInv, AcqInv
<1>1. CASE WriteParam /\ params' = [params EXCEPT !.NDArrayCallbacks = ~@]
  <2>1. /\ UNCHANGED <<startEvent, w>> /\ params'.ADAcquire = params.ADAcquire
        /\ params'.ADNumImagesCounter = params.ADNumImagesCounter
        /\ params'.ADImageMode = params.ADImageMode /\ params'.ADNumImages = params.ADNumImages
    BY <1>0, <1>1 DEF WriteParam, Params
  <2> QED BY <1>0, <2>1 DEF ContractStep, CVars, CBusy, CCount, Target
<1>2. CASE WriteParam /\ params.ADAcquire = 0
  <2>1. /\ UNCHANGED <<startEvent, w>> /\ params'.ADAcquire = params.ADAcquire
        /\ params'.ADNumImagesCounter = params.ADNumImagesCounter
    BY <1>0, <1>2 DEF WriteParam, Params
  <2>2. params' \in Params
    BY <1>0, <1>2, ClientAssumption DEF WriteParam, Params
  <2>3. Target' \in Nat \ {0}
    BY <2>2 DEF Target, Params
  <2>4. Contract!Configure
    BY <1>2, <2>1, <2>3 DEF Contract!Configure, Target
  <2> QED BY <2>4 DEF ContractStep, Contract!Next
<1>3. CASE WriteStop /\ params.ADAcquire = 0
  <2>1. params' = params
    BY <1>0, <1>3 DEF WriteStop, StopCapture, Params
  <2> QED BY <1>0, <1>3, <2>1, ContractUnmoved DEF WriteStop
<1>4. CASE ready /\ WriteStart /\ params.ADAcquire = 0
  <2>1. /\ params'.ADAcquire = 1 /\ startEvent' = TRUE /\ ready'
        /\ params'.ADImageMode = params.ADImageMode /\ params'.ADNumImages = params.ADNumImages
    BY <1>0, <1>4 DEF WriteStart, StartCapture, Params
  <2>2. Contract!Start
    BY <1>4, <2>1 DEF Contract!Start
  <2> QED BY <2>2 DEF ContractStep, Contract!Next
<1> QED BY <1>1, <1>2, <1>3, <1>4, OrderlyClient DEF LifeClient, Client

LEMMA ContractWait == ASSUME IInv, LifeWait PROVE ContractStep
<1>0. /\ params \in Params /\ w \in WaitThread /\ UNCHANGED ready
      /\ RestInv /\ StartInv /\ ReadyInv
  BY IInvTypes DEF LifeWait, InPlace, IInv, AcqInv, LifeInv
<1>1. CASE TakeEvent
  <2>1. UNCHANGED params /\ startEvent /\ w'.pc = "woken"
    BY <1>0, <1>1 DEF TakeEvent, WaitThread
  <2> QED BY <1>0, <2>1 DEF ContractStep, CVars, CBusy, CCount, Target
<1>2. CASE BeginGrab
  <2>1. /\ params.ADAcquire = 1 /\ ~startEvent /\ w.pc = "woken"
        /\ UNCHANGED startEvent /\ w'.pc = "waitFrame"
    BY <1>0, <1>2, IInvTypes DEF BeginGrab, RestInv, StartInv, WaitThread
  <2>2. /\ params'.ADAcquire = 1 /\ params'.ADNumImagesCounter = 0
        /\ params'.ADImageMode = params.ADImageMode /\ params'.ADNumImages = params.ADNumImages
    BY <1>0, <1>2 DEF BeginGrab, Params
  <2> QED BY <1>0, <2>1, <2>2 DEF ContractStep, CVars, CBusy, CCount, Target
<1>3. CASE WaitDoneFrame \/ HoldFrame \/ SendMessage \/ GotStopped \/ GotAborted \/ GotError
  <2>1. w.pc \notin {"idle", "woken"} /\ w'.pc # "woken" /\ UNCHANGED startEvent
    <3>1. CASE WaitDoneFrame \/ HoldFrame
      BY <1>0, <3>1 DEF WaitDoneFrame, HoldFrame, WaitThread
    <3>2. CASE SendMessage
      BY <1>0, <3>2 DEF SendMessage, WaitThread
    <3>3. CASE GotStopped \/ GotAborted \/ GotError
      BY <1>0, <3>3 DEF GotStopped, GotAborted, GotError, WaitThread
    <3> QED BY <1>3, <3>1, <3>2, <3>3
  <2>2. /\ params'.ADNumImagesCounter = params.ADNumImagesCounter
        /\ params'.ADImageMode = params.ADImageMode /\ params'.ADNumImages = params.ADNumImages
        /\ ~GotAborted => params'.ADAcquire = params.ADAcquire
    BY <1>0, <1>3 DEF WaitDoneFrame, HoldFrame, SendMessage, GotStopped, GotAborted, GotError,
                      StopCapture, Params
  <2>3. GotAborted => ~ready
    BY <1>0 DEF GotAborted, ReadyInv
  <2> QED BY <1>0, <2>1, <2>2, <2>3 DEF ContractStep, CVars, CBusy, CCount, Target
<1> QED BY <1>1, <1>2, <1>3 DEF LifeWait, WaitImage

LEMMA ContractProcess ==
  ASSUME Orderly, IInv, Bounded, NEW t \in Threads, LifeProcess(t)
  PROVE  ContractStep
<1>1. CASE Receive(t) \/ AllocFails(t) \/ NullData(t) \/ BeginCopy(t)
  BY <1>1, FrameNotCounted, ContractUnmoved DEF LifeProcess, InPlace
<1>2. CASE SkipCopy(t) \/ FinishCopy(t)
  <2>0. AcqInv /\ UNCHANGED ready /\ ReadyInv /\ params.ADNumImagesCounter \in Nat
        /\ Target \in Nat
    BY IInvTypes, TargetPositive DEF IInv, LifeInv, LifeProcess, InPlace, Params
  <2>1. ready
    BY <1>2, <2>0, BusyWhileHeld, IInvTypes DEF ReadyInv, SkipCopy, FinishCopy
  <2>2. /\ params.ADAcquire = 1 /\ ~startEvent /\ w.pc # "woken"
        /\ UNCHANGED <<startEvent, w>>
        /\ params'.ADImageMode = params.ADImageMode /\ params'.ADNumImages = params.ADNumImages
        /\ params'.ADNumImagesCounter = params.ADNumImagesCounter + 1
        /\ params'.ADNumImagesCounter <= Target
        /\ \/ params'.ADNumImagesCounter < Target /\ params'.ADAcquire = 1
           \/ params'.ADNumImagesCounter = Target /\ params'.ADAcquire = 0
    BY <1>2, <2>0, FrameCounted, IInvTypes
  <2>3. Contract!Image
    BY <2>0, <2>1, <2>2 DEF Contract!Image, Target
  <2> QED BY <2>3 DEF ContractStep, Contract!Next
<1> QED BY <1>1, <1>2 DEF LifeProcess, ProcessImage

LEMMA ContractLifeStep ==
  ASSUME Orderly, IInv, Bounded, [LifeNext]_lifeVars
  PROVE  ContractStep
<1>1. CASE LifeBoard \/ UNCHANGED lifeVars
  BY <1>1, ContractUnmoved DEF LifeBoard, InPlace, lifeVars, vars, driverVars
<1>2. CASE LifeClient
  BY <1>2, ContractClient
<1>3. CASE LifeWait
  BY <1>3, ContractWait
<1>4. CASE \E t \in Threads : LifeProcess(t)
  BY <1>4, ContractProcess
<1>5. CASE SetROI
  BY <1>5, ContractUnmoved DEF SetROI, ClientMay, Orderly, driverVars
<1>6. CASE WriteStartUnready
  <2>1. /\ ~ready /\ ~ready' /\ startEvent' = TRUE
        /\ params'.ADImageMode = params.ADImageMode /\ params'.ADNumImages = params.ADNumImages
    BY <1>6, IInvTypes DEF WriteStartUnready, Params
  <2>2. Contract!StartInVain
    BY <2>1 DEF Contract!StartInVain
  <2> QED BY <2>2 DEF ContractStep, Contract!Next
<1>7. CASE Shutdown
  <2>1. params' = params /\ UNCHANGED <<startEvent, w, ready>>
    BY <1>7, IInvTypes DEF Shutdown, ClientMay, Orderly, StopCapture, Params
  <2> QED BY <2>1, ContractUnmoved
<1> QED BY <1>1, <1>2, <1>3, <1>4, <1>5, <1>6, <1>7 DEF LifeNext

LEMMA ContractInit ==
  ASSUME "Continuous" \notin ImageModes, LifeInit
  PROVE  Bounded /\ Contract!Init
<1>1. params.ADImageMode \in ImageModes /\ params.ADAcquire = 0 /\ params.ADNumImagesCounter = 0
  BY DEF LifeInit, Init, DriverInit
<1>2. Target \in Nat \ {0}
  BY IInvInit, IInvTypes, TargetPositive
<1> QED BY <1>1, <1>2 DEF Bounded, Contract!Init, Target

\* With one acquisition at a time, none of them Continuous, the driver keeps the
\* contract's safety part: images are counted one by one from 0 to the number that was
\* asked for, never beyond it, and with the last of them, and only then, ADAcquire is 0.
THEOREM DriverKeepsContract ==
  ASSUME Orderly, "Continuous" \notin ImageModes
  PROVE  LifeSpec => Contract!Safety
<1>1. LifeInit => IInv /\ Bounded /\ Contract!Init
  BY IInvInit, ContractInit
<1>2. IInv /\ Bounded /\ [LifeNext]_lifeVars => (IInv /\ Bounded)' /\ [Contract!Next]_(Contract!vars)
  BY IInvStep, BoundedStep, ContractLifeStep
     DEF ContractStep, CVars, CBusy, CCount, Target, Contract!vars
<1> QED BY <1>1, <1>2, PTL DEF LifeSpec, Contract!Safety
=============================================================================
