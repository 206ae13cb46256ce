----------------------------- MODULE ADBitFlowWin -----------------------------
(***************************************************************************)
(* The driver as built for Windows: waitImageThread around                 *)
(* CircularInterface::waitDoneFrame, which is called without the lock.     *)
(* The wait thread is woken by startCapture, marks each frame's buffer     *)
(* BIHOLD, queues it for the processing threads and stops the board after  *)
(* the last frame of a Single or Multiple acquisition.                     *)
(***************************************************************************)
EXTENDS ADBitFlow

\* The wait thread.  idle: in epicsEventWait; woken: the event came, the lock
\* not yet; waitFrame: in waitDoneFrame; got: it returned, the lock not yet;
\* send: in pMsgQ_->send(), with the lock.  The other fields are its locals.
WaitThread == [pc : {"idle", "woken", "waitFrame", "got", "send"},
               status : {"OK", "STOPPED", "ABORTED", "ERROR"},
               handle : Handles \cup {None},
               imageMode : AllImageModes,
               numImages : Nat,
               imagesCollected : Nat]

Init ==
  /\ DriverInit
  /\ w = [pc |-> "idle", status |-> "OK", handle |-> None,
          imageMode |-> params.ADImageMode, numImages |-> params.ADNumImages,
          imagesCollected |-> 0]

-----------------------------------------------------------------------------
\* epicsEventWait returns; the event is binary and is now empty.
TakeEvent ==
  /\ w.pc = "idle" /\ startEvent
  /\ startEvent' = FALSE
  /\ w' = [w EXCEPT !.pc = "woken"]
  /\ UNCHANGED boardVars
  /\ UNCHANGED <<params, uniqueId, msgQ, p, liveArrays, delivered, starts>>

\* Faulty variant: the images of the acquisition before are not forgotten.
BeginGrab_KeepCount ==
  /\ w.pc = "woken"
  /\ params' = [params EXCEPT !.ADAcquire = 1, !.ADStatus = "Waiting"]
  /\ w' = [w EXCEPT !.pc = "waitFrame", !.imageMode = params.ADImageMode,
                    !.numImages = params.ADNumImages, !.imagesCollected = 0]
  /\ UNCHANGED boardVars
  /\ UNCHANGED <<startEvent, uniqueId, msgQ, p, liveArrays, delivered, starts>>

\* The thread has the lock: a new acquisition begins, whose mode and number of
\* images are read once.
BeginGrab ==
  /\ w.pc = "woken"
  /\ params' = [params EXCEPT !.ADNumImagesCounter = 0, !.ADAcquire = 1,
                              !.ADStatus = "Waiting"]
  /\ w' = [w EXCEPT !.pc = "waitFrame", !.imageMode = params.ADImageMode,
                    !.numImages = params.ADNumImages, !.imagesCollected = 0]
  /\ UNCHANGED boardVars
  /\ UNCHANGED <<startEvent, uniqueId, msgQ, p, liveArrays, delivered, starts>>

\* waitDoneFrame(INFINITE) returns a frame, the end of the acquisition, or an
\* error.
WaitDoneFrame ==
  /\ w.pc = "waitFrame"
  /\ \/ /\ ReturnFrame
        /\ w' = [w EXCEPT !.pc = "got", !.status = "OK",
                  !.handle = [buf |-> Head(doneQ), frame |-> content[Head(doneQ)]]]
     \/ /\ ReturnEvent
        /\ w' = [w EXCEPT !.pc = "got", !.status = cirEvent]
     \/ /\ "error" \in Faults
        /\ w' = [w EXCEPT !.pc = "got", !.status = "ERROR"]
        /\ UNCHANGED boardVars
  /\ UNCHANGED <<params, startEvent, uniqueId, msgQ, p, liveArrays, delivered, starts>>

\* BI_OK, up to the call of send().
HoldFrame ==
  /\ w.pc = "got" /\ w.status = "OK"
  /\ bufStatus' = [bufStatus EXCEPT ![w.handle.buf] = "HOLD"]
  /\ uniqueId' = uniqueId + 1
  /\ w' = [w EXCEPT !.pc = "send"]
  /\ UNCHANGED <<running, camera, content, doneQ, cirEvent, frameCount>>
  /\ UNCHANGED <<params, startEvent, msgQ, p, liveArrays, delivered, starts>>

\* Faulty variant: one frame more.
Collected_OneMore(wt) ==
  \/ wt.imageMode = "Single"
  \/ wt.imageMode = "Multiple" /\ wt.imagesCollected > wt.numImages

\* Has the wait thread collected the last frame of the acquisition?
Collected(wt) ==
  \/ wt.imageMode = "Single"
  \/ wt.imageMode = "Multiple" /\ wt.imagesCollected >= wt.numImages

\* send() returns; it blocks while the queue is full.  After the last frame the
\* board is aborted, but neither the camera stopped nor ADAcquire cleared.
SendMessage ==
  /\ w.pc = "send"
  /\ Len(msgQ) < MessageQueueSize
  /\ msgQ' = Append(msgQ, [buf |-> w.handle.buf, frame |-> w.handle.frame,
                           uniqueId |-> uniqueId - 1])
  /\ LET counted == [w EXCEPT !.imagesCollected = w.imagesCollected + 1, !.handle = None]
     IN  \/ /\ Collected(counted)
            /\ CirAbort
            /\ w' = [counted EXCEPT !.pc = "idle"]
            /\ params' = [params EXCEPT !.ADStatus = "Idle"]
         \/ /\ ~Collected(counted)
            /\ w' = [counted EXCEPT !.pc = "waitFrame"]
            /\ params' = [params EXCEPT !.ADStatus = "Waiting"]
            /\ UNCHANGED <<running, cirEvent>>
  /\ UNCHANGED <<camera, bufStatus, content, doneQ, frameCount>>
  /\ UNCHANGED <<startEvent, uniqueId, p, liveArrays, delivered, starts>>

\* BI_CIR_STOPPED: wait for the next start; the camera and ADAcquire are left.
GotStopped ==
  /\ w.pc = "got" /\ w.status = "STOPPED"
  /\ w' = [w EXCEPT !.pc = "idle", !.status = "OK"]
  /\ params' = [params EXCEPT !.ADStatus = "Idle"]
  /\ UNCHANGED boardVars
  /\ UNCHANGED <<startEvent, uniqueId, msgQ, p, liveArrays, delivered, starts>>

\* Faulty variant: handled as BI_CIR_STOPPED is.
GotAborted_NoStop ==
  /\ w.pc = "got" /\ w.status = "ABORTED"
  /\ w' = [w EXCEPT !.pc = "idle", !.status = "OK"]
  /\ params' = [params EXCEPT !.ADStatus = "Idle"]
  /\ UNCHANGED boardVars
  /\ UNCHANGED <<startEvent, uniqueId, msgQ, p, liveArrays, delivered, starts>>

\* BI_CIR_ABORTED: stopCapture, then wait for the next start.
GotAborted ==
  /\ w.pc = "got" /\ w.status = "ABORTED"
  /\ StopCapture([params EXCEPT !.ADStatus = "Idle"])
  /\ w' = [w EXCEPT !.pc = "idle", !.status = "OK"]
  /\ UNCHANGED <<bufStatus, content, doneQ, frameCount>>
  /\ UNCHANGED <<startEvent, uniqueId, msgQ, p, liveArrays, delivered, starts>>

\* Any other status: report it and wait again.
GotError ==
  /\ w.pc = "got" /\ w.status = "ERROR"
  /\ w' = [w EXCEPT !.pc = "waitFrame", !.status = "OK"]
  /\ params' = [params EXCEPT !.ADStatus = "Waiting"]
  /\ UNCHANGED boardVars
  /\ UNCHANGED <<startEvent, uniqueId, msgQ, p, liveArrays, delivered, starts>>

WaitImage ==
  \/ TakeEvent
  \/ BeginGrab
  \/ WaitDoneFrame
  \/ HoldFrame
  \/ SendMessage
  \/ GotStopped
  \/ GotAborted
  \/ GotError

Next ==
  \/ Board /\ UNCHANGED driverVars
  \/ Client
  \/ WaitImage
  \/ \E t \in Threads : ProcessImage(t)

Spec == Init /\ [][Next]_vars

\* Every thread that can go on does, and a camera that was started sends
\* frames.  Nothing is assumed of the client.
Fairness ==
  /\ WF_vars(\E b \in Buffers : FrameDone(b) /\ UNCHANGED driverVars)
  /\ WF_vars(WaitImage)
  /\ \A t \in Threads : WF_vars(ProcessImage(t))

FairSpec == Spec /\ Fairness

-----------------------------------------------------------------------------
\* Invariants.

\* Every variable has its type, and a local that names a buffer or a message
\* does so exactly where the code has one in hand.
TypeOK ==
  /\ BoardTypeOK
  /\ DriverTypeOK
  /\ w \in WaitThread
  /\ (w.handle # None) <=> (w.pc = "send" \/ (w.pc = "got" /\ w.status = "OK"))

\* waitDoneFrame has returned a buffer that is not marked yet.
ReturnedIntact ==
  (w.pc = "got" /\ w.status = "OK") =>
    /\ bufStatus[w.handle.buf] = "RETURNED"
    /\ content[w.handle.buf] = w.handle.frame

\* From waitDoneFrame to setBufferStatus(BIAVAILABLE) a buffer has one owner:
\* the wait thread, the queue or one processing thread, and the board writes no
\* other frame into it, whatever is started, stopped or aborted meanwhile.
OneOwner == Ownership /\ ReturnedIntact

\* When the wait thread calls send(), with the port lock held, the queue has
\* room, so the lock is never held by a blocked thread.  True because a queued
\* message pins a buffer and (if at least MinBuffers buffers were asked for) the
\* queue is as deep as the board has buffers.
RoomForEveryBuffer == w.pc = "send" => Len(msgQ) < MessageQueueSize

\* A frame that NDArrayCounter counts has given its buffer back, by whatever way the
\* loop of its thread ended and through every stop and start: only frames that were
\* numbered and not counted, those under way and those given up, occupy buffers.
CountedFramesFreeBuffers ==
  Cardinality(Held) <= uniqueId - params.NDArrayCounter

\* The pixels of every array the plugins got are those of the frame that
\* waitDoneFrame returned, although they are copied without the lock.
DeliveredIntact ==
  \A i \in 1 .. Len(delivered) : delivered[i].data = delivered[i].frame

\* With one processing thread the plugins see the frames in the order of the
\* ids, with two the copies made without the lock may overtake each other.
DeliveredInOrder ==
  \A i, j \in 1 .. Len(delivered) :
    i < j => /\ delivered[i].uniqueId < delivered[j].uniqueId
             /\ delivered[i].frame < delivered[j].frame

\* Every NDArray that was allocated and not released is being filled by a
\* thread ("Release the NDArray buffer now that we are done with it").
NoArrayLeak == liveArrays = Cardinality({t \in Threads : p[t].pc = "copy"})

\* ADAcquire=0 means that the driver has come to rest: nothing runs, no frame is
\* under way and no start is pending.
RestWhenNotAcquiring ==
  params.ADAcquire = 0 =>
    /\ ~running /\ ~camera /\ ~startEvent
    /\ w.pc = "idle" /\ msgQ = <<>>
    /\ \A t \in Threads : p[t].pc = "receive"
    /\ Held = {}
    /\ params.ADStatus = "Idle"

-----------------------------------------------------------------------------
\* What the driver implements.

\* The driver is a FrameFlow: a numbered frame is under way while its buffer is
\* held; processImageThread gives it out, or drops it when callbacks are off.
Flow == INSTANCE FrameFlow WITH
  Capacity <- NumBuffers,
  taken    <- uniqueId,
  underWay <- Cardinality(Held),
  out      <- {delivered[i].uniqueId : i \in 1 .. Len(delivered)}

FlowSpec == Flow!Spec

-----------------------------------------------------------------------------
\* Liveness.

\* When the board was aborted, by the client or by itself, and is not started again,
\* the wait thread goes back to its event, no start is pending, every queued frame has
\* been taken and finished or given up, and ADAcquire is 0: the wait thread or a
\* processing thread notices and clears it, however the abort met a start under way.
\* It is a promise for a board that reports each end until the next start and frames
\* that have data.  If an end may be reported only once ("once"), a start event left
\* over makes the wait thread begin an acquisition that nobody ends; if the only frame
\* of a Single acquisition has no data ("nullData"), or the mode is changed in between,
\* the wait thread stops the board after its last frame and no thread clears ADAcquire;
\* and a waitDoneFrame that fails for ever ("error") is called for ever.
AbortSettles ==
  (cirEvent = "ABORTED" /\ ~running) ~>
    \/ running
    \/ /\ params.ADAcquire = 0 /\ w.pc = "idle" /\ ~startEvent
       /\ msgQ = <<>> /\ \A t \in Threads : p[t].pc = "receive"

\* "If we didn't get a valid buffer from the NDArrayPool we must abort the
\* acquisition": when the allocation failed the board is stopped in the end.
AllocFailureAborts == params.ADStatus = "Aborting" ~> ~running
=============================================================================
